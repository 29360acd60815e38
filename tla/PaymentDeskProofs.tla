--------------------------- MODULE PaymentDeskProofs ---------------------------
(***************************************************************************)
(* Theorems about the payments of an enrollment, for any desks, prices,    *)
(* amounts, page sizes and failures: a history whose pages are not         *)
(* outdated is a prefix of the server's, so that the rules of the forms,   *)
(* checked once nothing is left to load, are checked against the whole     *)
(* list; and a request that took no way out of them keeps them.            *)
(*                                                                         *)
(* The sum of the payments and the concatenation of the pages are          *)
(* recursive functions; what they give is proved by induction over the set *)
(* of the positions for which it holds.                                    *)
(***************************************************************************)
EXTENDS PaymentDesk, InfiniteListProofs, TLAPS

-----------------------------------------------------------------------------
(* What a list of payments amounts to                                      *)

\* f holds what the first n payments of a list amount to.
Paid(f, list, n) == \A i \in 0 .. n : f[i] = IF i = 0 THEN 0 ELSE f[i - 1] + list[i].amount

\* The amounts of a list are numbers.
Payable(list) == Len(list) \in Nat /\ \A i \in 1 .. Len(list) : list[i].amount \in Nat

\* The sums exist.
LEMMA PaidExists ==
  ASSUME NEW list, Payable(list)
  PROVE  \A n \in 0 .. Len(list) : \E f \in [0 .. n -> Nat] : Paid(f, list, n)
<1> DEFINE U == {n \in 0 .. Len(list) : \E f \in [0 .. n -> Nat] : Paid(f, list, n)}
<1>0. Len(list) \in Nat /\ \A i \in 1 .. Len(list) : list[i].amount \in Nat
  BY DEF Payable
<1>1. 0 \in U
  <2> DEFINE f == [i \in 0 .. 0 |-> 0]
  <2>1. f \in [0 .. 0 -> Nat]
    OBVIOUS
  <2>2. Paid(f, list, 0)
    BY DEF Paid
  <2>3. \E g \in [0 .. 0 -> Nat] : Paid(g, list, 0)
    BY <2>1, <2>2, Zenon
  <2>4. 0 \in 0 .. Len(list)
    BY <1>0
  <2>. QED
    BY <2>3, <2>4, Zenon
<1>2. ASSUME NEW n \in 0 .. Len(list), n # Len(list) /\ n \in U PROVE n + 1 \in U
  <2>1. PICK f \in [0 .. n -> Nat] : Paid(f, list, n)
    BY <1>2
  <2>2. n \in Nat /\ n + 1 \in 1 .. Len(list) /\ list[n + 1].amount \in Nat
    BY <1>0, <1>2
  <2> DEFINE x == f[n] + list[n + 1].amount
             g == [i \in 0 .. n + 1 |-> IF i = n + 1 THEN x ELSE f[i]]
  <2>3. x \in Nat
    BY <2>1, <2>2
  <2>4. g \in [0 .. n + 1 -> Nat]
    <3>1. \A i \in 0 .. n + 1 : i # n + 1 => i \in 0 .. n
      BY <2>2
    <3>. HIDE DEF x
    <3>. QED
      BY <2>1, <2>3, <3>1
  <2>5. ASSUME NEW i \in 0 .. n + 1
        PROVE  g[i] = IF i = 0 THEN 0 ELSE g[i - 1] + list[i].amount
    <3>1. CASE i = n + 1
      <4>1. g[i] = x /\ i # 0 /\ i - 1 = n
        BY <2>2, <3>1
      <4>2. g[i - 1] = f[n]
        BY <2>2, <3>1
      <4>. QED
        BY <3>1, <4>1, <4>2
    <3>2. CASE i # n + 1
      <4>1. i \in 0 .. n /\ g[i] = f[i] /\ (i # 0 => g[i - 1] = f[i - 1])
        BY <2>2, <3>2
      <4>. QED
        BY <2>1, <4>1 DEF Paid
    <3>. QED
      BY <3>1, <3>2
  <2>6. Paid(g, list, n + 1)
    BY <2>5 DEF Paid
  <2>7. n + 1 \in 0 .. Len(list)
    BY <1>0, <2>2
  <2>. HIDE DEF g
  <2>8. \E h \in [0 .. n + 1 -> Nat] : Paid(h, list, n + 1)
    BY <2>4, <2>6, Zenon
  <2>. QED
    BY <2>7, <2>8, Zenon
<1> HIDE DEF U
<1>3. 0 .. Len(list) \subseteq U
  BY <1>0, <1>1, <1>2, UpTo
<1>. QED
  BY <1>3 DEF U

\* They are determined by the list.
LEMMA PaidUnique ==
  ASSUME NEW list, NEW n \in Nat, NEW f, NEW g, Paid(f, list, n), Paid(g, list, n)
  PROVE  f[n] = g[n]
<1> DEFINE U == {i \in 0 .. n : f[i] = g[i]}
<1>1. 0 \in U
  BY DEF Paid
<1>2. ASSUME NEW k \in 0 .. n, k # n /\ k \in U PROVE k + 1 \in U
  <2>1. k + 1 \in 0 .. n /\ k + 1 # 0 /\ k + 1 - 1 = k
    BY <1>2
  <2>2. f[k + 1] = f[k] + list[k + 1].amount
    BY <2>1 DEF Paid
  <2>3. g[k + 1] = g[k] + list[k + 1].amount
    BY <2>1 DEF Paid
  <2>. QED
    BY <1>2, <2>1, <2>2, <2>3
<1> HIDE DEF U
<1>3. 0 .. n \subseteq U
  BY <1>1, <1>2, UpTo
<1>. USE DEF U
<1>. QED
  BY <1>3

\* The sums of a list, the last of which is Amount.
LEMMA AmountAs ==
  ASSUME NEW list, Payable(list)
  PROVE  \E f \in [0 .. Len(list) -> Nat] :
           Paid(f, list, Len(list)) /\ Amount(list) = f[Len(list)] /\ Amount(list) \in Nat
<1> DEFINE n == Len(list)
           Is(g) == g = [i \in 0 .. n |-> IF i = 0 THEN 0 ELSE g[i - 1] + list[i].amount]
           c == CHOOSE g : Is(g)
<1>1. n \in Nat /\ n \in 0 .. n
  BY DEF Payable
<1>2. PICK f \in [0 .. n -> Nat] : Paid(f, list, n)
  BY <1>1, PaidExists
<1>3. Is(f)
  BY <1>2 DEF Paid
<1>4. Is(c)
  BY <1>3
<1>5. Amount(list) = c[n]
  BY DEF Amount
<1>6. Paid(c, list, n)
  <2>. HIDE DEF c
  <2>. QED
    BY <1>4 DEF Paid
<1>7. f[n] = c[n]
  <2>. HIDE DEF c, n
  <2>. QED
    BY <1>1, <1>2, <1>6, PaidUnique
<1>. HIDE DEF c, Is
<1>8. f[n] \in Nat
  BY <1>1, <1>2
<1>9. Amount(list) = f[n] /\ Amount(list) \in Nat
  BY <1>5, <1>7, <1>8
<1>. QED
  BY <1>2, <1>9, Zenon

\* Amount is a sum: a payment more, one with another amount, one less.

\* A payment more in front adds what it amounts to.
LEMMA AmountOfMore ==
  ASSUME NEW s, NEW t, Payable(s), Payable(t), Len(t) = Len(s) + 1,
         \A i \in 1 .. Len(s) : t[i + 1].amount = s[i].amount
  PROVE  Amount(t) = t[1].amount + Amount(s)
<1> DEFINE n == Len(s)
<1>0. n \in Nat /\ t[1].amount \in Nat /\ \A i \in 1 .. n : s[i].amount \in Nat
  BY DEF Payable
<1>1. PICK f \in [0 .. n -> Nat] : Paid(f, s, n) /\ Amount(s) = f[n]
  BY AmountAs
<1>2. PICK g \in [0 .. n + 1 -> Nat] : Paid(g, t, n + 1) /\ Amount(t) = g[n + 1]
  BY AmountAs
<1> HIDE DEF n
<1> DEFINE U == {i \in 0 .. n : g[i + 1] = t[1].amount + f[i]}
<1>3. 0 \in U
  <2>1. f[0] = 0
    BY <1>0, <1>1 DEF Paid
  <2>2. g[0] = 0
    BY <1>0, <1>2 DEF Paid
  <2>3. 1 \in 0 .. n + 1
    BY <1>0
  <2>4. g[1] = g[1 - 1] + t[1].amount
    BY <1>2, <2>3 DEF Paid
  <2>. QED
    BY <1>0, <2>1, <2>2, <2>4
<1>4. ASSUME NEW k \in 0 .. n, k # n /\ k \in U PROVE k + 1 \in U
  <2>1. k + 1 \in 0 .. n /\ k + 1 # 0 /\ k + 1 - 1 = k /\ k + 1 \in 1 .. n
    BY <1>0, <1>4
  <2>2. f[k + 1] = f[k] + s[k + 1].amount
    BY <1>1, <2>1 DEF Paid
  <2>3. k + 2 \in 0 .. n + 1 /\ k + 2 # 0 /\ k + 2 - 1 = k + 1 /\ k + 1 + 1 = k + 2
    BY <1>0, <2>1
  <2>4. g[k + 2] = g[k + 1] + t[k + 2].amount
    BY <1>2, <2>3 DEF Paid
  <2>5. t[k + 2].amount = s[k + 1].amount /\ s[k + 1].amount \in Nat
    BY <1>0, <2>1, <2>3 DEF n
  <2>6. f[k] \in Nat
    BY <1>1
  <2>7. g[k + 1] = t[1].amount + f[k]
    BY <1>4
  <2>8. g[k + 2] = t[1].amount + f[k + 1]
    <3>1. \A a, b, c \in Nat : (a + b) + c = a + (b + c)
      OBVIOUS
    <3>2. (t[1].amount + f[k]) + s[k + 1].amount = t[1].amount + (f[k] + s[k + 1].amount)
      BY <1>0, <2>5, <2>6, <3>1
    <3>. QED
      BY <2>2, <2>4, <2>5, <2>7, <3>2
  <2>9. g[k + 1 + 1] = t[1].amount + f[k + 1]
    BY <2>3, <2>8
  <2>. QED
    BY <2>1, <2>9
<1> HIDE DEF U
<1>5. 0 .. n \subseteq U
  BY <1>0, <1>3, <1>4, UpTo
<1>6. n \in U
  BY <1>0, <1>5
<1>. QED
  BY <1>1, <1>2, <1>6 DEF U

\* Another payment in a place makes the difference of the two.
LEMMA AmountOfOther ==
  ASSUME NEW s, NEW t, Payable(s), Payable(t), Len(t) = Len(s), NEW m \in 1 .. Len(s),
         \A i \in 1 .. Len(s) : i # m => t[i].amount = s[i].amount
  PROVE  Amount(t) + s[m].amount = Amount(s) + t[m].amount
<1> DEFINE n == Len(s)
<1>0. n \in Nat /\ \A i \in 1 .. n : s[i].amount \in Nat /\ t[i].amount \in Nat
  BY DEF Payable
<1>1. PICK f \in [0 .. n -> Nat] : Paid(f, s, n) /\ Amount(s) = f[n]
  BY AmountAs
<1>2. PICK g \in [0 .. n -> Nat] : Paid(g, t, n) /\ Amount(t) = g[n]
  BY AmountAs
<1>3. m \in 1 .. n /\ \A i \in 1 .. n : i # m => t[i].amount = s[i].amount
  OBVIOUS
<1> HIDE DEF n
<1> DEFINE U == {i \in 0 .. n : /\ i < m => g[i] = f[i]
                                /\ i >= m => g[i] + s[m].amount = f[i] + t[m].amount}
<1>4. 0 \in U
  <2>1. f[0] = 0 /\ g[0] = 0
    BY <1>0, <1>1, <1>2 DEF Paid
  <2>. QED
    BY <1>0, <1>3, <2>1
<1>5. ASSUME NEW k \in 0 .. n, k # n /\ k \in U PROVE k + 1 \in U
  <2>1. k + 1 \in 0 .. n /\ k + 1 # 0 /\ k + 1 - 1 = k /\ k + 1 \in 1 .. n
    BY <1>0, <1>5
  <2>2. f[k + 1] = f[k] + s[k + 1].amount /\ f[k] \in Nat
    BY <1>1, <2>1 DEF Paid
  <2>3. g[k + 1] = g[k] + t[k + 1].amount /\ g[k] \in Nat
    BY <1>2, <2>1 DEF Paid
  <2>4. s[k + 1].amount \in Nat /\ t[k + 1].amount \in Nat
        /\ s[m].amount \in Nat /\ t[m].amount \in Nat
    BY <1>0, <1>3, <2>1
  <2>5. CASE k + 1 < m
    <3>1. g[k] = f[k] /\ t[k + 1].amount = s[k + 1].amount
      BY <1>3, <1>5, <2>1, <2>5
    <3>. QED
      BY <2>1, <2>2, <2>3, <2>5, <3>1
  <2>6. CASE k + 1 = m
    <3>1. g[k] = f[k]
      BY <1>5, <2>6
    <3>. QED
      BY <2>1, <2>2, <2>3, <2>4, <2>6, <3>1
  <2>7. CASE k + 1 > m
    <3>1. g[k] + s[m].amount = f[k] + t[m].amount /\ t[k + 1].amount = s[k + 1].amount
      BY <1>3, <1>5, <2>1, <2>7
    <3>2. /\ g[k] \in Nat /\ f[k] \in Nat /\ s[k + 1].amount \in Nat
          /\ s[m].amount \in Nat /\ t[m].amount \in Nat
          /\ g[k] + s[m].amount = f[k] + t[m].amount
      BY <2>2, <2>3, <2>4, <3>1
    <3>3. (g[k] + s[k + 1].amount) + s[m].amount = (f[k] + s[k + 1].amount) + t[m].amount
      <4> DEFINE a == g[k]
                 b == f[k]
                 x == s[k + 1].amount
                 p == s[m].amount
                 q == t[m].amount
      <4>1. a \in Nat /\ b \in Nat /\ x \in Nat /\ p \in Nat /\ q \in Nat /\ a + p = b + q
        BY <3>2
      <4> HIDE DEF a, b, x, p, q
      <4>2. (a + x) + p = (b + x) + q
        BY ONLY <4>1
      <4>. QED
        BY <4>2 DEF a, b, x, p, q
    <3>4. g[k + 1] + s[m].amount = f[k + 1] + t[m].amount
      BY <2>2, <2>3, <3>1, <3>3
    <3>. QED
      BY <1>3, <2>1, <2>7, <3>4
  <2>. QED
    BY <1>3, <2>1, <2>5, <2>6, <2>7
<1> HIDE DEF U
<1>6. 0 .. n \subseteq U
  BY <1>0, <1>4, <1>5, UpTo
<1>7. n \in U /\ n >= m
  BY <1>0, <1>3, <1>6
<1>. QED
  BY <1>1, <1>2, <1>7 DEF U

\* A payment less takes what it amounted to.
LEMMA AmountOfLess ==
  ASSUME NEW s, NEW t, Payable(s), Payable(t), Len(s) = Len(t) + 1, NEW m \in 1 .. Len(s),
         \A i \in 1 .. Len(t) : t[i].amount = IF i < m THEN s[i].amount ELSE s[i + 1].amount
  PROVE  Amount(t) + s[m].amount = Amount(s)
<1> DEFINE n == Len(t)
<1>0. n \in Nat /\ (\A i \in 1 .. n + 1 : s[i].amount \in Nat)
      /\ \A i \in 1 .. n : t[i].amount \in Nat
  BY DEF Payable
<1>1. PICK f \in [0 .. n + 1 -> Nat] : Paid(f, s, n + 1) /\ Amount(s) = f[n + 1]
  BY AmountAs
<1>2. PICK g \in [0 .. n -> Nat] : Paid(g, t, n) /\ Amount(t) = g[n]
  BY AmountAs
<1>3. m \in 1 .. n + 1 /\ \A i \in 1 .. n : /\ i < m => t[i].amount = s[i].amount
                                          /\ ~(i < m) => t[i].amount = s[i + 1].amount
  OBVIOUS
<1> HIDE DEF n
<1> DEFINE U == {i \in 0 .. n : /\ i < m => g[i] = f[i]
                                /\ i + 1 >= m => g[i] + s[m].amount = f[i + 1]}
<1>9. \A i \in 0 .. n : f[i + 1] = f[i] + s[i + 1].amount
  <2> TAKE i \in 0 .. n
  <2>1. i + 1 \in 0 .. n + 1 /\ i + 1 # 0 /\ i + 1 - 1 = i
    BY <1>0
  <2>. QED
    BY <1>1, <2>1 DEF Paid
<1>4. 0 \in U
  <2>1. f[0] = 0 /\ g[0] = 0
    BY <1>0, <1>1, <1>2 DEF Paid
  <2>2. f[1] = f[0] + s[1].amount
    BY <1>0, <1>9
  <2>. QED
    BY <1>0, <1>3, <2>1, <2>2
<1>5. ASSUME NEW k \in 0 .. n, k # n /\ k \in U PROVE k + 1 \in U
  <2>1. k + 1 \in 0 .. n /\ k + 1 # 0 /\ k + 1 - 1 = k /\ k + 1 \in 1 .. n
        /\ k + 2 \in 1 .. n + 1 /\ k + 1 + 1 = k + 2
    BY <1>0, <1>5
  <2>2. f[k + 1] = f[k] + s[k + 1].amount /\ f[k] \in Nat
        /\ f[k + 2] = f[k + 1] + s[k + 2].amount /\ f[k + 1] \in Nat
    <3>1. f[k] \in Nat /\ f[k + 1] \in Nat
      BY <1>0, <1>1, <2>1
    <3>2. f[k + 1 + 1] = f[k + 1] + s[k + 1 + 1].amount
      BY <1>9, <2>1
    <3>. QED
      BY <1>9, <2>1, <3>1, <3>2
  <2>3. g[k + 1] = g[k] + t[k + 1].amount /\ g[k] \in Nat
    BY <1>2, <2>1 DEF Paid
  <2>4. s[k + 1].amount \in Nat /\ t[k + 1].amount \in Nat /\ s[k + 2].amount \in Nat
        /\ s[m].amount \in Nat
    <3>1. k + 1 \in 1 .. n + 1
      BY <1>0, <2>1
    <3>2. s[k + 1].amount \in Nat
      BY <1>0, <3>1
    <3>3. s[k + 2].amount \in Nat
      BY <1>0, <2>1
    <3>4. t[k + 1].amount \in Nat
      BY <1>0, <2>1
    <3>. QED
      BY <1>0, <1>3, <3>2, <3>3, <3>4
  <2>5. CASE k + 1 < m
    <3>1. g[k + 1] = f[k + 1]
      BY <1>3, <1>5, <2>1, <2>2, <2>3, <2>5
    <3>2. k + 2 >= m => m = k + 2
      BY <1>3, <2>1, <2>5
    <3>. QED
      BY <1>3, <2>1, <2>2, <2>4, <2>5, <3>1, <3>2
  <2>6. CASE ~(k + 1 < m)
    <3>1. g[k] + s[m].amount = f[k + 1] /\ t[k + 1].amount = s[k + 2].amount
      BY <1>3, <1>5, <2>1, <2>6
    <3>. QED
      BY <1>3, <2>1, <2>2, <2>3, <2>4, <2>6, <3>1
  <2>. QED
    BY <2>5, <2>6
<1> HIDE DEF U
<1>6. 0 .. n \subseteq U
  BY <1>0, <1>4, <1>5, UpTo
<1>7. n \in U /\ n + 1 >= m
  BY <1>0, <1>3, <1>6
<1>. QED
  BY <1>1, <1>2, <1>7 DEF U

-----------------------------------------------------------------------------
(* The pages a desk has loaded, and the list of the server                 *)

Page == [items : Seq(Payment), total : Nat, fresh : BOOLEAN]

\* Pages of which none is outdated do.
PagesInv(pages, list) ==
    /\ pages \in Seq(Page)
    /\ \A i \in DOMAIN pages : Len(pages[i].items) <= Limit
    /\ UpToDate(pages) => Prefix(pages, list, Limit)

\* The fields of a page.
LEMMA PageFields ==
  /\ \A p \in Page : p.items \in Seq(Payment) /\ p.total \in Nat /\ p.fresh \in BOOLEAN
  /\ \A i \in Seq(Payment), t \in Nat, b \in BOOLEAN :
       [items |-> i, total |-> t, fresh |-> b] \in Page
  BY DEF Page

\* No pages promise nothing.
LEMMA NoPages ==
  ASSUME NEW list PROVE PagesInv(<<>>, list)
  BY EmptySeq DEF PagesInv, UpToDate

\* What a desk shows are payments.
LEMMA ShownType ==
  ASSUME NEW pages \in Seq(Page)
  PROVE  flattenInfiniteItems(pages) \in Seq(Payment)
         /\ Len(flattenInfiniteItems(pages)) \in Nat
<1>1. flattenInfiniteItems(pages) \in Seq(Payment)
  BY PageFields, FlattenType
<1>. QED
  BY <1>1, LenProperties

\* One page more, read at the offset the pages before it give.
LEMMA OnePageMore ==
  ASSUME NEW list \in Seq(Payment), NEW pages, PagesInv(pages, list)
  PROVE  PagesInv(Append(pages, FreshPageOf(list, loadedCount(pages), Limit)), list)
<1> DEFINE off == loadedCount(pages)
           p == FreshPageOf(list, off, Limit)
           more == Append(pages, p)
<1>1. pages \in Seq(Page) /\ Len(pages) \in Nat /\ DOMAIN pages = 1 .. Len(pages)
  BY LenProperties DEF PagesInv
<1>2. off \in Nat /\ Limit \in Nat \ {0} /\ Len(list) \in Nat
  BY <1>1, ShownType, BoundsAssumption, LenProperties DEF loadedCount
<1>3. ReadAt(p, list, off, Limit)
  BY DEF ReadAt, FreshPageOf
<1>4. p.items \in Seq(Payment) /\ Len(p.items) <= Limit
  <2>1. Continues(p.items, list, off, Limit, Payment)
    BY <1>2, <1>3, PageAtOffset DEF ReadAt
  <2>. QED
    BY <2>1 DEF Continues
<1>5. p = [items |-> p.items, total |-> Len(list), fresh |-> TRUE]
  BY DEF FreshPageOf
<1> HIDE DEF off, p
<1>6. p \in Page
  <2>1. TRUE \in BOOLEAN
    OBVIOUS
  <2>2. [items |-> p.items, total |-> Len(list), fresh |-> TRUE] \in Page
    BY <1>2, <1>4, <2>1, PageFields
  <2>. QED
    BY <1>5, <2>2
<1>7. /\ more \in Seq(Page) /\ Len(more) = Len(pages) + 1 /\ more[Len(pages) + 1] = p
      /\ \A i \in 1 .. Len(pages) : more[i] = pages[i]
      /\ DOMAIN more = 1 .. Len(pages) + 1
  <2>1. /\ more \in Seq(Page) /\ Len(more) = Len(pages) + 1 /\ more[Len(pages) + 1] = p
        /\ \A i \in 1 .. Len(pages) : more[i] = pages[i]
    BY <1>1, <1>6, AppendProperties
  <2>. QED
    BY <2>1, LenProperties
<1>8. pages = <<>> \/ Prefix(pages, list, Limit) => Prefix(more, list, Limit)
  <2>1. ReadAt(p, list, loadedCount(pages), Limit)
    BY <1>3 DEF off
  <2>. QED
    BY <1>1, <1>2, <1>6, <2>1, PageFields, PrefixOfMore
<1> HIDE DEF more
<1>10. \A i \in DOMAIN more : Len(more[i].items) <= Limit
  <2>1. ASSUME NEW i \in 1 .. Len(pages) + 1 PROVE Len(more[i].items) <= Limit
    <3>1. CASE i = Len(pages) + 1
      BY <1>4, <1>7, <3>1
    <3>2. CASE i # Len(pages) + 1
      <4>1. i \in 1 .. Len(pages)
        BY <1>1, <3>2
      <4>2. more[i] = pages[i] /\ Len(pages[i].items) <= Limit
        BY <1>1, <1>7, <4>1 DEF PagesInv
      <4>. QED
        BY <4>2
    <3>. QED
      BY <3>1, <3>2
  <2>. QED
    BY <1>7, <2>1
<1>12. ASSUME UpToDate(more), pages # <<>>
       PROVE  UpToDate(pages)
  <2>1. ASSUME NEW i \in 1 .. Len(pages) PROVE pages[i].fresh
    <3>1. i \in 1 .. Len(pages) + 1 /\ more[i] = pages[i]
      BY <1>1, <1>7
    <3>2. more[i].fresh
      BY <1>7, <1>12, <3>1 DEF UpToDate
    <3>. QED
      BY <3>1, <3>2
  <2>. QED
    BY <1>1, <1>12, <2>1 DEF UpToDate
<1>13. PagesInv(more, list)
  BY <1>7, <1>8, <1>10, <1>12 DEF PagesInv
<1>. QED
  BY <1>13 DEF more, p, off

\* Outdated pages say nothing of the list any more.
LEMMA OutdatedPages ==
  ASSUME NEW pages \in Seq(Page), \A i \in DOMAIN pages : Len(pages[i].items) <= Limit,
         NEW list
  PROVE  PagesInv(Outdated(pages), list) /\ (pages # <<>> => ~UpToDate(Outdated(pages)))
<1> DEFINE old == Outdated(pages)
<1>1. Len(pages) \in Nat /\ DOMAIN pages = 1 .. Len(pages)
      /\ \A i \in 1 .. Len(pages) : pages[i] \in Page
  BY LenProperties
<1>2. \A i \in 1 .. Len(pages) : /\ old[i] = [pages[i] EXCEPT !.fresh = FALSE]
  BY <1>1 DEF Outdated
<1>3. ASSUME NEW q \in Page, NEW b \in BOOLEAN
      PROVE  /\ [q EXCEPT !.fresh = b] \in Page
             /\ [q EXCEPT !.fresh = b].items = q.items
             /\ [q EXCEPT !.fresh = b].fresh = b
  BY DEF Page
<1>4. \A i \in 1 .. Len(pages) : old[i] \in Page /\ old[i].items = pages[i].items
  <2> TAKE i \in 1 .. Len(pages)
  <2>1. FALSE \in BOOLEAN
    OBVIOUS
  <2>. QED
    BY <1>1, <1>2, <1>3, <2>1, Zenon
<1>5. \A i \in 1 .. Len(pages) : ~old[i].fresh
  <2> TAKE i \in 1 .. Len(pages)
  <2>1. \A q \in Page : ~[q EXCEPT !.fresh = FALSE].fresh
    BY DEF Page
  <2>. QED
    BY <1>1, <1>2, <2>1
<1>6. old = [i \in 1 .. Len(pages) |-> old[i]]
  BY <1>1 DEF Outdated
<1> HIDE DEF old
<1>7. old \in [1 .. Len(pages) -> Page] /\ DOMAIN old = 1 .. Len(pages)
  BY <1>4, <1>6
<1>8. old \in Seq(Page) /\ Len(old) = Len(pages)
  BY <1>1, <1>7
<1>9. \A i \in DOMAIN old : Len(old[i].items) <= Limit
  BY <1>1, <1>4, <1>7
<1>10. ~UpToDate(old)
  <2>1. CASE old = <<>>
    BY <2>1 DEF UpToDate
  <2>2. CASE old # <<>>
    <3>1. 1 \in DOMAIN old
      BY <1>7, <1>8, <2>2, EmptySeq
    <3>. QED
      BY <1>5, <1>7, <3>1 DEF UpToDate
  <2>. QED
    BY <2>1, <2>2
<1>. QED
  BY <1>8, <1>9, <1>10 DEF PagesInv, old

\* keepFirstInfinitePage leaves pages.
LEMMA FirstPageKept ==
  ASSUME NEW pages \in Seq(Page), \A i \in DOMAIN pages : Len(pages[i].items) <= Limit
  PROVE  /\ keepFirstInfinitePage(pages) \in Seq(Page)
         /\ \A i \in DOMAIN keepFirstInfinitePage(pages) :
              Len(keepFirstInfinitePage(pages)[i].items) <= Limit
<1> DEFINE k == Min({1, Len(pages)})
           kept == SubSeq(pages, 1, k)
<1>1. Len(pages) \in Nat /\ DOMAIN pages = 1 .. Len(pages)
      /\ \A i \in 1 .. Len(pages) : pages[i] \in Page
  BY LenProperties
<1>2. k \in 0 .. Len(pages)
  BY <1>1, MinOfTwo
<1> HIDE DEF k
<1>3. kept \in Seq(Page) /\ Len(kept) = k /\ \A i \in 1 .. k : kept[i] = pages[i]
  <2>1. /\ kept \in Seq(Page) /\ Len(kept) = (IF 1 <= k THEN k - 1 + 1 ELSE 0)
        /\ \A i \in 1 .. k - 1 + 1 : kept[i] = pages[1 + i - 1]
    BY <1>1, <1>2, SubSeqProperties
  <2>. QED
    BY <1>2, <2>1
<1> HIDE DEF kept
<1>4. DOMAIN kept = 1 .. k
  BY <1>3, LenProperties
<1>5. \A i \in DOMAIN kept : Len(kept[i].items) <= Limit
  BY <1>1, <1>2, <1>3, <1>4
<1>. QED
  BY <1>3, <1>5 DEF keepFirstInfinitePage, kept, k

\* Current pages with nothing left to load are the list.
LEMMA NothingLeftToLoad ==
  ASSUME NEW list \in Seq(Payment), NEW pages, PagesInv(pages, list), UpToDate(pages),
         ~hasNextPage(pages, Limit)
  PROVE  flattenInfiniteItems(pages) = list
<1> DEFINE shown == flattenInfiniteItems(pages)
<1>1. Prefix(pages, list, Limit) /\ pages # <<>> /\ pages \in Seq(Page)
  BY DEF PagesInv, UpToDate
<1>2. Len(shown) \in Nat /\ Len(list) \in Nat
  BY <1>1, ShownType, LenProperties
<1>3. ~(Len(shown) < Len(list))
  BY <1>1, PageFields, BoundsAssumption, MoreToLoad
<1>4. Len(shown) = Len(list) /\ shown = SubSeq(list, 1, Len(list))
  BY <1>1, <1>2, <1>3 DEF Prefix
<1>. QED
  BY <1>4, SubSeqFull

-----------------------------------------------------------------------------
(* The inductive invariant                                                 *)

Types ==
    /\ payments \in Seq(Payment) /\ created \in 0 .. MaxPayments
    /\ history \in [Desks -> Seq(Page)] /\ got \in [Desks -> Seq(Page)]
    /\ refetching \in [Desks -> BOOLEAN] /\ priced \in [Desks -> BOOLEAN]
    /\ form \in [Desks -> {"closed", "open", "refetching"}]
    /\ editing \in [Desks -> Edited \cup {None}]
    /\ call \in [Desks -> Call \cup {None}]
    /\ edits \in Nat /\ faults \in Nat /\ edits + faults <= MaxTrouble
    /\ slips \subseteq Ways

\* Ids are given once.
IdsInv(list, given) ==
    /\ \A i, j \in DOMAIN list : list[i].id = list[j].id => i = j
    /\ \A i \in DOMAIN list : list[i].id <= given

\* The rules of the forms, as long as nobody has slipped out of them.
Within(list) == Amount(list) <= Price
RulesInv(list, slipped) ==
    /\ slipped \cap Uninformed = {} =>
         \A i, j \in DOMAIN list : list[i].cuota = list[j].cuota => i = j
    /\ slipped = {} /\ Within(InitialPayment) => Within(list)

\* A request made over the list of the server has an installment nobody else has,
\* and as long as nobody has slipped the price covers it.
Fits(c, list) ==
    IF c.id = None THEN Amount(list) + c.amount <= Price
    ELSE \E i \in DOMAIN list :
           list[i].id = c.id /\ Amount(list) + c.amount <= Price + list[i].amount

CallInv(c, list, slipped) ==
    c # None /\ c.ways \cap Uninformed = {} =>
        /\ \A i \in DOMAIN list :
             list[i].cuota = c.cuota => c.id # None /\ list[i].id = c.id
        /\ slipped \cup c.ways = {} /\ Within(InitialPayment) => Fits(c, list)

IInv ==
    /\ Types
    /\ IdsInv(payments, created)
    /\ RulesInv(payments, slips)
    /\ \A d \in Desks : /\ PagesInv(history[d], payments) /\ PagesInv(got[d], payments)
                        /\ CallInv(call[d], payments, slips)
                        /\ d \in BlockDesks => priced[d]

-----------------------------------------------------------------------------
(* The list of payments                                                     *)

\* The fields of a payment.
LEMMA PaymentFields ==
  /\ \A p \in Payment : p.id \in Ids /\ p.amount \in Amounts /\ p.cuota \in Cuotas
                       /\ p.amount \in Nat /\ p.id \in Nat
  /\ \A i \in Ids, a \in Amounts, q \in Cuotas : [id |-> i, amount |-> a, cuota |-> q] \in Payment
<1>1. Amounts \subseteq Nat /\ Ids \subseteq Nat
  BY MoneyAssumption, BoundsAssumption DEF Ids
<1>2. \A p \in Payment : p.id \in Ids /\ p.amount \in Amounts /\ p.cuota \in Cuotas
  BY DEF Payment
<1>3. \A i \in Ids, a \in Amounts, q \in Cuotas :
        [id |-> i, amount |-> a, cuota |-> q] \in Payment
  BY DEF Payment
<1>. QED
  BY <1>1, <1>2, <1>3

\* The payments of a list, and that it amounts to a number.
LEMMA ListProperties ==
  ASSUME NEW list \in Seq(Payment)
  PROVE  /\ Len(list) \in Nat /\ DOMAIN list = 1 .. Len(list)
         /\ \A i \in 1 .. Len(list) : list[i] \in Payment
         /\ Payable(list) /\ Amount(list) \in Nat
<1>1. Len(list) \in Nat /\ DOMAIN list = 1 .. Len(list)
      /\ \A i \in 1 .. Len(list) : list[i] \in Payment
  BY LenProperties
<1>2. Payable(list)
  BY <1>1, PaymentFields DEF Payable
<1>. QED
  BY <1>1, <1>2, AmountAs

\* A payment more, at the front.
OneMore(more, p, list) ==
    /\ more \in Seq(Payment) /\ Len(more) = Len(list) + 1 /\ more[1] = p
    /\ \A i \in 1 .. Len(list) : more[i + 1] = list[i]
    /\ Amount(more) = p.amount + Amount(list)

LEMMA ListWithOneMore ==
  ASSUME NEW list \in Seq(Payment), NEW p \in Payment, NEW more, more = <<p>> \o list
  PROVE  OneMore(more, p, list)
<1>1. <<p>> \in Seq(Payment) /\ Len(<<p>>) = 1 /\ <<p>>[1] = p
  OBVIOUS
<1>2. Len(list) \in Nat
  BY ListProperties
<1>3. /\ more \in Seq(Payment) /\ Len(more) = Len(<<p>>) + Len(list)
      /\ \A i \in 1 .. Len(<<p>>) + Len(list) :
           more[i] = IF i <= Len(<<p>>) THEN <<p>>[i] ELSE list[i - Len(<<p>>)]
  BY <1>1, ConcatProperties
<1>4. /\ Len(more) = Len(list) + 1 /\ more[1] = p
      /\ \A i \in 1 .. Len(list) : more[i + 1] = list[i]
  <2>1. \A i \in 1 .. 1 + Len(list) : more[i] = IF i <= 1 THEN p ELSE list[i - 1]
    BY <1>1, <1>3
  <2>2. ASSUME NEW i \in 1 .. Len(list) PROVE more[i + 1] = list[i]
    <3>1. i + 1 \in 1 .. 1 + Len(list) /\ ~(i + 1 <= 1) /\ i + 1 - 1 = i
      BY <1>2
    <3>. QED
      BY <2>1, <3>1
  <2>. QED
    BY <1>1, <1>2, <1>3, <2>1, <2>2
<1>5. Payable(more) /\ Payable(list)
  BY <1>3, ListProperties
<1>6. \A i \in 1 .. Len(list) : more[i + 1].amount = list[i].amount
  BY <1>4
<1>. QED
  BY <1>3, <1>4, <1>5, <1>6, AmountOfMore DEF OneMore

\* Another payment in the place of one.
OneOther(other, m, p, list) ==
    /\ other \in Seq(Payment) /\ Len(other) = Len(list) /\ other[m] = p
    /\ \A i \in 1 .. Len(list) : i # m => other[i] = list[i]
    /\ Amount(other) + list[m].amount = Amount(list) + p.amount

LEMMA ListWithAnother ==
  ASSUME NEW list \in Seq(Payment), NEW m \in DOMAIN list, NEW p \in Payment,
         NEW other, other = [list EXCEPT ![m] = p]
  PROVE  OneOther(other, m, p, list)
<1>1. m \in 1 .. Len(list)
  BY ListProperties
<1>2. /\ other \in Seq(Payment) /\ Len(other) = Len(list)
      /\ \A i \in 1 .. Len(list) : other[i] = IF i = m THEN p ELSE list[i]
  BY <1>1, ExceptSeq
<1>3. other[m] = p /\ \A i \in 1 .. Len(list) : i # m => other[i] = list[i]
  BY <1>1, <1>2
<1>4. Payable(other) /\ Payable(list)
  BY <1>2, ListProperties
<1>5. Amount(other) + list[m].amount = Amount(list) + other[m].amount
  <2>1. \A i \in 1 .. Len(list) : i # m => other[i].amount = list[i].amount
    BY <1>3
  <2>. QED
    BY <1>1, <1>2, <1>4, <2>1, AmountOfOther
<1>. QED
  BY <1>2, <1>3, <1>5 DEF OneOther

\* One payment less.
LEMMA ListWithOneLess ==
  ASSUME NEW list \in Seq(Payment), NEW m \in DOMAIN list, NEW less, less = RemoveAt(list, m)
  PROVE  /\ less \in Seq(Payment) /\ Len(list) = Len(less) + 1
         /\ \A i \in 1 .. Len(less) :
              /\ i < m => i \in 1 .. Len(list) /\ less[i] = list[i]
              /\ ~(i < m) => i + 1 \in 1 .. Len(list) /\ less[i] = list[i + 1]
         /\ Amount(less) <= Amount(list)
<1>1. OneLess(less, list, m, Payment)
  BY RemovedOne
<1>2. m \in 1 .. Len(list) /\ Len(list) \in Nat /\ \A i \in 1 .. Len(list) : list[i] \in Payment
  BY ListProperties
<1>6. less \in Seq(Payment) /\ Len(list) = Len(less) + 1
  BY <1>1 DEF OneLess
<1>7. \A i \in 1 .. Len(less) :
         /\ i < m => i \in 1 .. Len(list) /\ less[i] = list[i]
         /\ ~(i < m) => i + 1 \in 1 .. Len(list) /\ less[i] = list[i + 1]
  BY <1>1 DEF OneLess
<1>8. Amount(less) + list[m].amount = Amount(list)
  <2>1. \A i \in 1 .. Len(less) :
          less[i].amount = IF i < m THEN list[i].amount ELSE list[i + 1].amount
    BY <1>7
  <2>2. Payable(less) /\ Payable(list)
    BY <1>6, ListProperties
  <2>. QED
    BY <1>2, <1>6, <2>1, <2>2, AmountOfLess
<1>9. Amount(less) <= Amount(list)
  <2>1. Amount(less) \in Nat /\ list[m].amount \in Nat
    BY <1>2, <1>6, ListProperties, PaymentFields
  <2>. QED
    BY <1>8, <2>1
<1>. QED
  BY <1>6, <1>7, <1>9

\* What the wizard has registered is a list with at most one payment.
LEMMA InitialList ==
  /\ InitialPayment \in Seq(Payment) /\ Len(InitialPayment) \in 0 .. MaxPayments
  /\ IdsInv(InitialPayment, Len(InitialPayment))
  /\ \A i, j \in DOMAIN InitialPayment : i = j
<1>1. CASE InitialPayment = <<>>
  BY <1>1, EmptySeq, BoundsAssumption DEF IdsInv
<1>2. ASSUME NEW a \in Amounts, NEW q \in Cuotas, MaxPayments > 0,
             InitialPayment = <<[id |-> 1, amount |-> a, cuota |-> q]>>
      PROVE  /\ InitialPayment \in Seq(Payment) /\ Len(InitialPayment) \in 0 .. MaxPayments
             /\ IdsInv(InitialPayment, Len(InitialPayment))
             /\ \A i, j \in DOMAIN InitialPayment : i = j
  <2> DEFINE p == [id |-> 1, amount |-> a, cuota |-> q]
  <2>1. MaxPayments \in Nat /\ 1 \in Ids
    BY <1>2, BoundsAssumption DEF Ids
  <2>2. p \in Payment /\ p.id = 1
    BY <2>1, PaymentFields
  <2>3. InitialPayment = <<p>>
    BY <1>2
  <2> HIDE DEF p
  <2>4. /\ InitialPayment \in Seq(Payment) /\ Len(InitialPayment) = 1
        /\ DOMAIN InitialPayment = {1} /\ InitialPayment[1] = p
    BY <2>2, <2>3
  <2>. QED
    BY <1>2, <2>1, <2>2, <2>4 DEF IdsInv
<1>. QED
  BY <1>1, <1>2, InitialAssumption

\* The initial states.
LEMMA InitIInv == Init => IInv
<1> SUFFICES ASSUME Init PROVE IInv
  OBVIOUS
<1>1. <<>> \in Seq(Page)
  BY EmptySeq
<1>2. Types
  BY <1>1, InitialList, BoundsAssumption DEF Init, Types
<1>3. IdsInv(payments, created)
  BY InitialList DEF Init
<1>4. RulesInv(payments, slips)
  BY InitialList DEF Init, RulesInv
<1>5. ASSUME NEW d \in Desks
      PROVE  /\ PagesInv(history[d], payments) /\ PagesInv(got[d], payments)
             /\ CallInv(call[d], payments, slips)
             /\ d \in BlockDesks => priced[d]
  <2>1. history[d] = <<>> /\ got[d] = <<>> /\ call[d] = None /\ (d \in BlockDesks => priced[d])
    BY DEF Init
  <2>. QED
    BY <2>1, NoPages DEF CallInv
<1>. QED
  BY <1>2, <1>3, <1>4, <1>5 DEF IInv

-----------------------------------------------------------------------------
(* Loading                                                                  *)

\* A step that changes neither the payments nor the calls.
LEMMA DesksKeep ==
  ASSUME IInv, UNCHANGED <<payments, created, call, slips>>, Types',
         \A d \in Desks : /\ PagesInv(history'[d], payments) /\ PagesInv(got'[d], payments)
                          /\ priced[d] => priced'[d]
  PROVE  IInv'
<1>1. IdsInv(payments, created)' /\ RulesInv(payments, slips)'
  BY DEF IInv
<1>2. ASSUME NEW d \in Desks
      PROVE  (/\ PagesInv(history[d], payments) /\ PagesInv(got[d], payments)
              /\ CallInv(call[d], payments, slips)
              /\ d \in BlockDesks => priced[d])'
  BY DEF IInv
<1>. QED
  BY <1>1, <1>2 DEF IInv

\* The page that is loaded continues the ones before it.
LEMMA FetchNextPageKeeps ==
  ASSUME IInv, NEW d \in Desks, FetchNextPage(d)
  PROVE  IInv'
<1> DEFINE more == Append(history[d], FreshPageOf(payments, loadedCount(history[d]), Limit))
<1>1. PagesInv(history[d], payments) /\ payments \in Seq(Payment)
  BY DEF IInv, Types
<1>2. PagesInv(more, payments)
  BY <1>1, OnePageMore
<1> HIDE DEF more
<1>3. /\ history' = [history EXCEPT ![d] = more] /\ got' = [got EXCEPT ![d] = <<>>]
      /\ refetching' = [refetching EXCEPT ![d] = FALSE]
      /\ form' = [form EXCEPT ![d] = IF @ = "refetching" THEN "closed" ELSE @]
      /\ UNCHANGED <<payments, created, priced, editing, call, edits, faults, slips>>
  BY DEF FetchNextPage, more, server, bounds
<1>4. more \in Seq(Page) /\ PagesInv(<<>>, payments) /\ <<>> \in Seq(Page)
  BY <1>2, NoPages, EmptySeq DEF PagesInv
<1>5. Types'
  BY <1>3, <1>4 DEF IInv, Types
<1>6. \A e \in Desks : /\ PagesInv(history'[e], payments) /\ PagesInv(got'[e], payments)
                       /\ priced[e] => priced'[e]
  <2> TAKE e \in Desks
  <2>1. history'[e] \in {history[e], more} /\ got'[e] \in {got[e], <<>>} /\ priced' = priced
    BY <1>3 DEF IInv, Types
  <2>2. PagesInv(history[e], payments) /\ PagesInv(got[e], payments)
    BY DEF IInv
  <2>. QED
    BY <1>2, <1>4, <2>1, <2>2
<1>. QED
  BY <1>3, <1>5, <1>6, DesksKeep

\* A refetch replaces the pages by others that were loaded in order.
LEMMA RefetchArrivesKeeps ==
  ASSUME IInv, NEW d \in Desks, RefetchArrives(d)
  PROVE  IInv'
<1> DEFINE more == Append(got[d], FreshPageOf(payments, loadedCount(got[d]), Limit))
           first == history[d] = <<>>
           round == IF first /\ got[d] # <<>> THEN got[d] ELSE more
<1>1. PagesInv(got[d], payments) /\ payments \in Seq(Payment)
  BY DEF IInv, Types
<1>2. PagesInv(more, payments)
  BY <1>1, OnePageMore
<1>3. PagesInv(round, payments)
  BY <1>1, <1>2
<1>4. /\ \/ got' = [got EXCEPT ![d] = round] /\ UNCHANGED <<history, refetching, form>>
         \/ /\ history' = [history EXCEPT ![d] = round]
            /\ got' = [got EXCEPT ![d] = <<>>]
            /\ refetching' = [refetching EXCEPT ![d] = FALSE]
            /\ form' = [form EXCEPT ![d] = IF @ = "refetching" THEN "closed" ELSE @]
      /\ UNCHANGED <<payments, created, priced, editing, call, edits, faults, slips>>
  BY DEF RefetchArrives, server, bounds
<1> HIDE DEF more, first, round
<1>5. round \in Seq(Page) /\ PagesInv(<<>>, payments) /\ <<>> \in Seq(Page)
  BY <1>3, NoPages, EmptySeq DEF PagesInv
<1>6. Types'
  <2>1. /\ history' \in [Desks -> Seq(Page)] /\ got' \in [Desks -> Seq(Page)]
        /\ refetching' \in [Desks -> BOOLEAN]
        /\ form' \in [Desks -> {"closed", "open", "refetching"}]
    <3>1. CASE got' = [got EXCEPT ![d] = round] /\ UNCHANGED <<history, refetching, form>>
      BY <1>5, <3>1 DEF IInv, Types
    <3>2. CASE /\ history' = [history EXCEPT ![d] = round]
               /\ got' = [got EXCEPT ![d] = <<>>]
               /\ refetching' = [refetching EXCEPT ![d] = FALSE]
               /\ form' = [form EXCEPT ![d] = IF @ = "refetching" THEN "closed" ELSE @]
      BY <1>5, <3>2 DEF IInv, Types
    <3>. QED
      BY <1>4, <3>1, <3>2
  <2>. QED
    BY <1>4, <2>1 DEF IInv, Types
<1>7. \A e \in Desks : /\ PagesInv(history'[e], payments) /\ PagesInv(got'[e], payments)
                       /\ priced[e] => priced'[e]
  <2> TAKE e \in Desks
  <2>1. /\ history'[e] \in {history[e], round} /\ got'[e] \in {got[e], <<>>, round}
        /\ priced' = priced
    BY <1>4 DEF IInv, Types
  <2>2. PagesInv(history[e], payments) /\ PagesInv(got[e], payments)
    BY DEF IInv
  <2>. QED
    BY <1>3, <1>5, <2>1, <2>2
<1>. QED
  BY <1>4, <1>6, <1>7, DesksKeep

\* A load fails.
LEMMA LoadFailsKeeps ==
  ASSUME IInv, NEW d \in Desks, LoadFails(d)
  PROVE  IInv'
<1>1. /\ refetching' = [refetching EXCEPT ![d] = FALSE] /\ got' = [got EXCEPT ![d] = <<>>]
      /\ form' = [form EXCEPT ![d] = IF @ = "refetching" THEN "closed" ELSE @]
      /\ UNCHANGED <<payments, created, history, priced, editing, call, edits, faults, slips>>
  BY DEF LoadFails, server, bounds
<1>2. PagesInv(<<>>, payments) /\ <<>> \in Seq(Page)
  BY NoPages, EmptySeq
<1>3. Types'
  BY <1>1, <1>2 DEF IInv, Types
<1>4. \A e \in Desks : /\ PagesInv(history'[e], payments) /\ PagesInv(got'[e], payments)
                       /\ priced[e] => priced'[e]
  <2> TAKE e \in Desks
  <2>1. got'[e] \in {got[e], <<>>} /\ history' = history /\ priced' = priced
    BY <1>1 DEF IInv, Types
  <2>2. PagesInv(history[e], payments) /\ PagesInv(got[e], payments)
    BY DEF IInv
  <2>. QED
    BY <1>2, <2>1, <2>2
<1>. QED
  BY <1>1, <1>3, <1>4, DesksKeep

\* The price arrives.
LEMMA EnrollmentArrivesKeeps ==
  ASSUME IInv, NEW d \in Desks, EnrollmentArrives(d)
  PROVE  IInv'
<1>1. /\ priced' = [priced EXCEPT ![d] = TRUE]
      /\ UNCHANGED <<payments, created, history, refetching, got, form, editing, call, edits,
                     faults, slips>>
  BY DEF EnrollmentArrives, server, query, sheet, bounds
<1>2. Types'
  BY <1>1 DEF IInv, Types
<1>3. \A e \in Desks : /\ PagesInv(history'[e], payments) /\ PagesInv(got'[e], payments)
                       /\ priced[e] => priced'[e]
  BY <1>1 DEF IInv, Types
<1>. QED
  BY <1>1, <1>2, <1>3, DesksKeep

-----------------------------------------------------------------------------
(* The forms                                                                *)

\* A form opens, for a payment or for none.
LEMMA OpenFormKeeps ==
  ASSUME IInv, NEW d \in Desks, NEW p \in Edited \cup {None}, OpenForm(d, p)
  PROVE  IInv'
<1>1. /\ form' = [form EXCEPT ![d] = "open"] /\ editing' = [editing EXCEPT ![d] = p]
      /\ refetching' = [refetching EXCEPT ![d] = TRUE] \/ UNCHANGED refetching
      /\ UNCHANGED <<payments, created, history, got, priced, call, edits, faults, slips>>
  BY DEF OpenForm, server, bounds
<1>2. Types'
  BY <1>1 DEF IInv, Types
<1>3. \A e \in Desks : /\ PagesInv(history'[e], payments) /\ PagesInv(got'[e], payments)
                       /\ priced[e] => priced'[e]
  BY <1>1 DEF IInv
<1>. QED
  BY <1>1, <1>2, <1>3, DesksKeep

\* The forms open and close.
LEMMA FormsKeep ==
  ASSUME IInv, NEW d \in Desks, openCreate(d) \/ openEdit(d) \/ CloseForm(d)
  PROVE  IInv'
<1>1. CASE openCreate(d)
  BY <1>1, OpenFormKeeps DEF openCreate
<1>2. CASE openEdit(d)
  <2>1. PICK p \in ToSet(Shown(d)) : OpenForm(d, [id |-> p.id, amount |-> p.amount])
    BY <1>2 DEF openEdit
  <2>2. Shown(d) \in Seq(Payment)
    BY ShownType DEF IInv, Types, Shown
  <2>3. p \in Payment
    BY <2>1, <2>2, ListProperties DEF ToSet
  <2>4. [id |-> p.id, amount |-> p.amount] \in Edited
    BY <2>3, PaymentFields DEF Edited
  <2> DEFINE x == [id |-> p.id, amount |-> p.amount]
  <2>5. x \in Edited \cup {None} /\ OpenForm(d, x)
    BY <2>1, <2>4
  <2> HIDE DEF x
  <2>. QED
    BY <2>5, OpenFormKeeps
<1>3. CASE CloseForm(d)
  <2>1. /\ form' = [form EXCEPT ![d] = "closed"] /\ editing' = [editing EXCEPT ![d] = None]
        /\ UNCHANGED <<payments, created, history, got, refetching, priced, call, edits,
                       faults, slips>>
    BY <1>3 DEF CloseForm, server, query, bounds
  <2>2. Types'
    BY <2>1 DEF IInv, Types
  <2>3. \A e \in Desks : /\ PagesInv(history'[e], payments) /\ PagesInv(got'[e], payments)
                         /\ priced[e] => priced'[e]
    BY <2>1 DEF IInv
  <2>. QED
    BY <2>1, <2>2, <2>3, DesksKeep
<1>. QED
  BY <1>1, <1>2, <1>3

-----------------------------------------------------------------------------
(* Registering                                                             *)

\* The fields of a request.
LEMMA CallFields ==
  /\ \A i \in Ids \cup {None}, a \in Amounts, q \in Cuotas, w \in SUBSET Ways :
       LET c == [id |-> i, amount |-> a, cuota |-> q, ways |-> w] IN
       c \in Call /\ c.id = i /\ c.amount = a /\ c.cuota = q /\ c.ways = w
  /\ \A c \in Call : /\ c.id \in Ids \cup {None} /\ c.amount \in Amounts /\ c.cuota \in Cuotas
                     /\ c.ways \subseteq Ways /\ c.amount \in Nat
<1>1. ASSUME NEW i \in Ids \cup {None}, NEW a \in Amounts, NEW q \in Cuotas,
             NEW w \in SUBSET Ways
      PROVE  LET c == [id |-> i, amount |-> a, cuota |-> q, ways |-> w] IN
             c \in Call /\ c.id = i /\ c.amount = a /\ c.cuota = q /\ c.ways = w
  BY DEF Call
<1>2. ASSUME NEW c \in Call
      PROVE  /\ c.id \in Ids \cup {None} /\ c.amount \in Amounts /\ c.cuota \in Cuotas
             /\ c.ways \subseteq Ways
  BY DEF Call
<1>3. Amounts \subseteq Nat
  BY MoneyAssumption
<1>. QED
  BY <1>1, <1>2, <1>3, Zenon

\* A request made over a history that is the server's keeps the rules it was
\* checked against.
LEMMA RegisterFits ==
  ASSUME IInv, NEW d \in Desks, NEW a \in Amounts, NEW q \in Cuotas, Register(d, a, q),
         NEW c \in Call, c.ways \cap Uninformed = {},
         c.id = (IF editing[d] = None THEN None ELSE editing[d].id),
         c.amount = a, c.cuota = q, c.ways = WaysOf(d, a)
  PROVE  CallInv(c, payments, slips)
<1>0. Informed(d)
  <2>1. "stale" \notin WaysOf(d, a) /\ "early" \notin WaysOf(d, a)
        /\ "failed" \notin WaysOf(d, a)
    BY DEF Uninformed
  <2>. QED
    BY <2>1 DEF WaysOf
<1>1. Shown(d) = payments
  <2>1. UpToDate(history[d]) /\ ~hasNextPage(history[d], Limit)
    BY <1>0 DEF Register, Informed, isSyncing
  <2>2. payments \in Seq(Payment) /\ PagesInv(history[d], payments)
    BY DEF IInv, Types
  <2>. QED
    BY <2>1, <2>2, NothingLeftToLoad DEF Shown
<1>2. /\ payments \in Seq(Payment) /\ editing[d] \in Edited \cup {None} /\ None \notin Ids
      /\ DOMAIN payments = 1 .. Len(payments)
      /\ \A i \in 1 .. Len(payments) : payments[i] \in Payment
      /\ Amount(payments) \in Nat /\ a \in Nat \ {0} /\ Price \in Nat
  BY ListProperties, MoneyAssumption, InitialAssumption DEF IInv, Types, Ids
<1>3. \A p : p \in ToSet(Shown(d)) <=> \E i \in DOMAIN payments : p = payments[i]
  BY <1>1 DEF ToSet
<1>4. c.id = None <=> editing[d] = None
  <2>1. editing[d] # None => editing[d].id \in Ids
    BY <1>2 DEF Edited
  <2>. QED
    BY <1>2, <2>1
<1>5. ASSUME NEW i \in DOMAIN payments, payments[i].cuota = c.cuota
      PROVE  c.id # None /\ payments[i].id = c.id
  <2>1. ~Duplicated(d, q)
    BY DEF Register
  <2>2. payments[i] \in ToSet(Shown(d)) /\ payments[i].cuota = q
    BY <1>3, <1>5
  <2>3. editing[d] # None /\ payments[i].id = editing[d].id
    BY <2>1, <2>2 DEF Duplicated
  <2>. QED
    BY <1>4, <2>3
<1>6. ASSUME slips \cup c.ways = {}, Within(InitialPayment)
      PROVE  Fits(c, payments)
  <2>1. slips = {} /\ priced[d] /\ (d \in BlockDesks => ~(a > pendingAmount(d)))
    <3>1. slips = {} /\ WaysOf(d, a) = {}
      BY <1>6
    <3>2. "unpriced" \notin WaysOf(d, a) /\ "unlimited" \notin WaysOf(d, a)
      BY <3>1
    <3>. QED
      BY <3>1, <3>2 DEF WaysOf
  <2>2. Amount(payments) <= Price
    BY <1>6, <2>1 DEF IInv, RulesInv, Within
  <2>3. pendingAmount(d) = Price - Amount(payments)
    BY <1>1, <1>2, <2>2 DEF pendingAmount
  <2>4. d \in PageDesks => a <= maxAllowedAmount(d)
    BY <2>1 DEF Register, WithinBalance
  <2>5. CASE editing[d] = None
    <3>1. maxAllowedAmount(d) = Price - Amount(payments)
      BY <1>2, <2>3, <2>5 DEF maxAllowedAmount
    <3>2. a <= Price - Amount(payments)
      BY <1>2, <2>1, <2>3, <2>4, <3>1 DEF Desks
    <3>3. Amount(payments) + c.amount <= Price
      BY <1>2, <3>2
    <3>. QED
      BY <1>4, <2>5, <3>3 DEF Fits
  <2>6. CASE editing[d] # None
    <3>1. PICK i \in DOMAIN payments :
            payments[i].id = editing[d].id /\ payments[i].amount = editing[d].amount
      BY <1>0, <1>3, <2>6 DEF Informed
    <3>2. payments[i].amount \in Nat
      BY <1>2, PaymentFields
    <3>3. maxAllowedAmount(d) = Price - Amount(payments) + payments[i].amount
      BY <2>3, <2>6, <3>1 DEF maxAllowedAmount
    <3>4. a <= Price - Amount(payments) + payments[i].amount
      BY <1>2, <2>1, <2>3, <2>4, <3>2, <3>3 DEF Desks
    <3>5. Amount(payments) + c.amount <= Price + payments[i].amount
      BY <1>2, <3>2, <3>4
    <3>6. payments[i].id = c.id /\ c.id # None
      BY <1>4, <2>6, <3>1
    <3>. QED
      BY <3>5, <3>6 DEF Fits
  <2>. QED
    BY <2>5, <2>6
<1>. QED
  BY <1>5, <1>6 DEF CallInv

\* A request is sent.
LEMMA RegisterKeeps ==
  ASSUME IInv, NEW d \in Desks, NEW a \in Amounts, NEW q \in Cuotas, Register(d, a, q)
  PROVE  IInv'
<1> DEFINE i == IF editing[d] = None THEN None ELSE editing[d].id
           c == [id |-> i, amount |-> a, cuota |-> q, ways |-> WaysOf(d, a)]
<1>1. /\ call' = [call EXCEPT ![d] = c]
      /\ UNCHANGED <<payments, created, history, refetching, got, priced, form, editing,
                     edits, faults, slips>>
  BY DEF Register, server, query, sheet, bounds
<1>2. i \in Ids \cup {None} /\ WaysOf(d, a) \in SUBSET Ways
  <2>1. i \in Ids \cup {None}
    BY DEF IInv, Types, Edited
  <2>2. WaysOf(d, a) \in SUBSET Ways
    BY DEF WaysOf, Ways, Uninformed
  <2>. QED
    BY <2>1, <2>2
<1>3. i = (IF editing[d] = None THEN None ELSE editing[d].id)
  OBVIOUS
<1> HIDE DEF i
<1>4. c \in Call /\ c.id = i /\ c.amount = a /\ c.cuota = q /\ c.ways = WaysOf(d, a)
  BY <1>2, CallFields
<1> HIDE DEF c
<1>5. CallInv(c, payments, slips)
  <2>1. CASE c.ways \cap Uninformed # {}
    BY <2>1 DEF CallInv
  <2>2. CASE c.ways \cap Uninformed = {}
    BY <1>3, <1>4, <2>2, RegisterFits
  <2>. QED
    BY <2>1, <2>2
<1>7. Types'
  <2>1. call' \in [Desks -> Call \cup {None}]
    BY <1>1, <1>4 DEF IInv, Types
  <2>. QED
    BY <1>1, <2>1 DEF IInv, Types
<1>8. IdsInv(payments, created)' /\ RulesInv(payments, slips)'
  BY <1>1 DEF IInv
<1>9. ASSUME NEW e \in Desks
      PROVE  (/\ PagesInv(history[e], payments) /\ PagesInv(got[e], payments)
              /\ CallInv(call[e], payments, slips)
              /\ e \in BlockDesks => priced[e])'
  <2>1. CallInv(call[e], payments, slips)
    BY DEF IInv
  <2>2. call'[e] = IF e = d THEN c ELSE call[e]
    BY <1>1 DEF IInv, Types
  <2>3. CallInv(call'[e], payments, slips)
    BY <1>5, <2>1, <2>2
  <2>. QED
    BY <1>1, <2>3 DEF IInv
<1>. QED
  BY <1>7, <1>8, <1>9 DEF IInv

-----------------------------------------------------------------------------
(* The server changes                                                      *)

\* Whatever the server does, pages that are outdated promise nothing of it.
LEMMA PagesOutdate ==
  ASSUME IInv, NEW d \in Desks, NEW pages \in Seq(Page),
         \A i \in DOMAIN pages : Len(pages[i].items) <= Limit,
         Invalidate(d, pages) \/ Unheard
  PROVE  /\ history' \in [Desks -> Seq(Page)] /\ got' \in [Desks -> Seq(Page)]
         /\ refetching' \in [Desks -> BOOLEAN]
         /\ \A e \in Desks : /\ PagesInv(history'[e], payments')
                             /\ PagesInv(got'[e], payments')
<1> DEFINE kept == {p \in Seq(Page) : \A i \in DOMAIN p : Len(p[i].items) <= Limit}
           safe == {p \in Seq(Page) : PagesInv(p, payments')}
<1>1. \A p \in kept : Outdated(p) \in safe
  <2> TAKE p \in kept
  <2>1. PagesInv(Outdated(p), payments')
    BY OutdatedPages
  <2>. QED
    BY <2>1 DEF PagesInv
<1>2. <<>> \in safe
  BY NoPages, EmptySeq
<1>3. /\ pages \in kept /\ \A e \in Desks : history[e] \in kept /\ got[e] \in kept
  BY DEF IInv, PagesInv
<1>4. /\ refetching' \in [Desks -> BOOLEAN]
      /\ \A e \in Desks : history'[e] \in safe /\ got'[e] \in safe
      /\ DOMAIN history' = Desks /\ DOMAIN got' = Desks
      /\ history' = [e \in Desks |-> history'[e]] /\ got' = [e \in Desks |-> got'[e]]
  <2> HIDE DEF kept, safe
  <2>1. CASE Invalidate(d, pages)
    BY <1>1, <1>2, <1>3, <2>1 DEF Invalidate, IInv, Types
  <2>2. CASE Unheard
    BY <1>1, <1>2, <1>3, <2>2 DEF Unheard, IInv, Types
  <2>. QED
    BY <2>1, <2>2
<1>5. safe \subseteq Seq(Page) /\ \A p \in safe : PagesInv(p, payments')
  OBVIOUS
<1> HIDE DEF kept, safe
<1>6. history' \in [Desks -> Seq(Page)] /\ got' \in [Desks -> Seq(Page)]
  <2>1. \A e \in Desks : history'[e] \in Seq(Page) /\ got'[e] \in Seq(Page)
    BY <1>4, <1>5
  <2>. QED
    BY <1>4, <2>1
<1>. QED
  BY <1>4, <1>5, <1>6

\* A request the server has overtaken.
LEMMA OvertakenCall ==
  ASSUME NEW c \in Call
  PROVE  Overtaken(c) \in Call /\ "stale" \in Overtaken(c).ways
<1>1. \A w \in SUBSET Ways :
        [c EXCEPT !.ways = w] \in Call /\ [c EXCEPT !.ways = w].ways = w
  BY DEF Call
<1> DEFINE more == c.ways \cup {"stale"}
<1>2. more \in SUBSET Ways /\ "stale" \in more /\ Overtaken(c) = [c EXCEPT !.ways = more]
  BY CallFields DEF Ways, Uninformed, Overtaken
<1> HIDE DEF more
<1>. QED
  BY <1>1, <1>2, Zenon

\* The requests in flight after a change of the server.
LEMMA CallsSettle ==
  ASSUME IInv, NEW d \in Desks,
         \/ Settle(d)
         \/ call' = [e \in Desks |-> IF call[e] = None THEN None ELSE Overtaken(call[e])]
  PROVE  /\ call' \in [Desks -> Call \cup {None}]
         /\ \A e \in Desks : call'[e] = None \/ "stale" \in call'[e].ways
<1>1. ASSUME NEW e \in Desks
      PROVE  call'[e] \in Call \cup {None} /\ (call'[e] = None \/ "stale" \in call'[e].ways)
  <2>1. call'[e] = None \/ (call[e] # None /\ call'[e] = Overtaken(call[e]))
    BY DEF Settle
  <2>2. call[e] \in Call \cup {None}
    BY DEF IInv, Types
  <2>3. CASE call'[e] = None
    BY <2>3
  <2>4. CASE call[e] # None /\ call'[e] = Overtaken(call[e])
    <3>1. call[e] \in Call
      BY <2>2, <2>4
    <3>. QED
      BY <2>4, <3>1, OvertakenCall
  <2>. QED
    BY <2>1, <2>3, <2>4
<1>2. DOMAIN call' = Desks /\ call' = [e \in Desks |-> call'[e]]
  BY DEF Settle
<1>. QED
  BY <1>1, <1>2

\* The payments after a POST, a PUT and a DELETE.
LEMMA CreatedKeeps ==
  ASSUME IInv, NEW d \in Desks, call[d] # None, call[d].id = None, Created(d), Slip(d)
  PROVE  /\ payments' \in Seq(Payment) /\ created' \in 0 .. MaxPayments
         /\ IdsInv(payments', created') /\ RulesInv(payments', slips')
<1> DEFINE p == [id |-> created', amount |-> call[d].amount, cuota |-> call[d].cuota]
           n == Len(payments)
<1> HIDE DEF n
<1>1. call[d] \in Call /\ payments \in Seq(Payment) /\ created \in 0 .. MaxPayments
  BY DEF IInv, Types
<1>2. created' = created + 1 /\ created' \in Ids /\ created' \in 0 .. MaxPayments
  BY <1>1, BoundsAssumption DEF Created, Ids
<1>3. p \in Payment /\ p.id = created' /\ p.amount = call[d].amount /\ p.cuota = call[d].cuota
  BY <1>1, <1>2, CallFields, PaymentFields
<1>4. payments' = <<p>> \o payments
  BY <1>2 DEF Created
<1> HIDE DEF p
<1>5. /\ payments' \in Seq(Payment) /\ Len(payments') = n + 1 /\ payments'[1] = p
      /\ \A i \in 1 .. n : payments'[i + 1] = payments[i]
      /\ Amount(payments') = p.amount + Amount(payments)
  <2>1. p \in Payment /\ payments \in Seq(Payment)
    BY <1>1, <1>3
  <2>2. OneMore(payments', p, payments)
    BY <1>4, <2>1, ListWithOneMore
  <2>. QED
    BY <2>2 DEF OneMore, n
<1>6. /\ n \in Nat /\ DOMAIN payments = 1 .. n /\ DOMAIN payments' = 1 .. n + 1
      /\ \A i \in 1 .. n : payments[i] \in Payment
      /\ Amount(payments) \in Nat /\ p.amount \in Nat
  BY <1>1, <1>3, <1>5, ListProperties, PaymentFields DEF n
<1>7. ASSUME NEW i \in DOMAIN payments'
      PROVE  \/ i = 1 /\ payments'[i] = p
             \/ i - 1 \in 1 .. n /\ payments'[i] = payments[i - 1]
  <2>1. i # 1 => i - 1 \in 1 .. n /\ (i - 1) + 1 = i
    BY <1>6
  <2>. QED
    BY <1>5, <2>1
<1>8. \A i \in 1 .. n : payments[i].id \in Nat /\ payments[i].id < created'
  <2> TAKE i \in 1 .. n
  <2>1. payments[i].id \in Nat /\ created \in Nat
    BY <1>1, <1>6, PaymentFields
  <2>2. payments[i].id <= created
    BY <1>6 DEF IInv, IdsInv
  <2>. QED
    BY <1>2, <2>1, <2>2
<1>9. IdsInv(payments', created')
  <2>1. ASSUME NEW i \in DOMAIN payments', NEW j \in DOMAIN payments',
               payments'[i].id = payments'[j].id
        PROVE  i = j
    <3>1. ~(created' < created')
      BY <1>1, <1>2
    <3>2. (i - 1 \in 1 .. n => payments[i - 1].id < created')
          /\ (j - 1 \in 1 .. n => payments[j - 1].id < created')
      BY <1>8
    <3>3. i - 1 \in 1 .. n /\ j - 1 \in 1 .. n /\ payments[i - 1].id = payments[j - 1].id
          => i - 1 = j - 1
      BY <1>6 DEF IInv, IdsInv
    <3>4. i \in Nat /\ j \in Nat
      BY <1>6
    <3>. QED
      BY <1>3, <1>7, <2>1, <3>1, <3>2, <3>3, <3>4
  <2>2. ASSUME NEW i \in DOMAIN payments' PROVE payments'[i].id <= created'
    <3>1. created' \in Nat
      BY <1>1, <1>2
    <3>2. i - 1 \in 1 .. n => payments[i - 1].id \in Nat /\ payments[i - 1].id < created'
      BY <1>8
    <3>. QED
      BY <1>3, <1>7, <3>1, <3>2
  <2>. QED
    BY <2>1, <2>2 DEF IdsInv
<1>10. slips' \cap Uninformed = {}
         => call[d].ways \cap Uninformed = {} /\ slips \cap Uninformed = {}
  BY DEF Slip
<1>11. CallInv(call[d], payments, slips) /\ RulesInv(payments, slips)
  BY DEF IInv
<1>12. ASSUME slips' \cap Uninformed = {},
              NEW i \in DOMAIN payments', NEW j \in DOMAIN payments',
              payments'[i].cuota = payments'[j].cuota
       PROVE  i = j
  <2>1. \A k \in 1 .. n : payments[k].cuota # p.cuota
    BY <1>3, <1>6, <1>10, <1>11, <1>12 DEF CallInv
  <2>2. i - 1 \in 1 .. n /\ j - 1 \in 1 .. n /\ payments[i - 1].cuota = payments[j - 1].cuota
        => i - 1 = j - 1
    BY <1>6, <1>10, <1>11, <1>12 DEF RulesInv
  <2>3. i \in Nat /\ j \in Nat
    BY <1>6
  <2>. QED
    BY <1>7, <1>12, <2>1, <2>2, <2>3
<1>13. ASSUME slips' = {}, Within(InitialPayment)
       PROVE  Within(payments')
  <2>1. slips \cup call[d].ways = {} /\ call[d].ways \cap Uninformed = {}
    BY <1>13 DEF Slip
  <2>2. Amount(payments) + p.amount <= Price
    BY <1>3, <1>11, <1>13, <2>1 DEF CallInv, Fits
  <2>. QED
    BY <1>5, <1>6, <2>2 DEF Within
<1>14. RulesInv(payments', slips')
  BY <1>12, <1>13 DEF RulesInv
<1>. QED
  BY <1>2, <1>5, <1>9, <1>14

\* A PUT keeps the id, and the request it answers fits in its place.
LEMMA UpdatedKeeps ==
  ASSUME IInv, NEW d \in Desks, call[d] # None, call[d].id # None, Updated(d), Slip(d),
         created' = created
  PROVE  /\ payments' \in Seq(Payment) /\ created' \in 0 .. MaxPayments
         /\ IdsInv(payments', created') /\ RulesInv(payments', slips')
<1> DEFINE n == Len(payments)
<1>1. call[d] \in Call /\ payments \in Seq(Payment) /\ created' \in 0 .. MaxPayments
  BY DEF IInv, Types
<1>2. PICK m \in DOMAIN payments :
        /\ payments[m].id = call[d].id
        /\ payments' = [payments EXCEPT ![m] =
             [@ EXCEPT !.amount = call[d].amount, !.cuota = call[d].cuota]]
  BY DEF Updated, Matching
<1> DEFINE p == [payments[m] EXCEPT !.amount = call[d].amount, !.cuota = call[d].cuota]
<1>3. /\ n \in Nat /\ DOMAIN payments = 1 .. n
      /\ \A i \in 1 .. n : payments[i] \in Payment
      /\ Amount(payments) \in Nat
  BY <1>1, ListProperties
<1>4. p \in Payment /\ p.id = payments[m].id /\ p.amount = call[d].amount
      /\ p.cuota = call[d].cuota
  <2>1. payments[m] \in Payment /\ call[d].amount \in Amounts /\ call[d].cuota \in Cuotas
    BY <1>1, <1>2, <1>3, CallFields
  <2>. QED
    BY <2>1 DEF Payment
<1>5. payments' = [payments EXCEPT ![m] = p]
  BY <1>2
<1> HIDE DEF p
<1>6. /\ payments' \in Seq(Payment) /\ Len(payments') = n /\ payments'[m] = p
      /\ \A i \in 1 .. n : i # m => payments'[i] = payments[i]
      /\ Amount(payments') + payments[m].amount = Amount(payments) + p.amount
  <2>1. p \in Payment /\ payments \in Seq(Payment) /\ m \in DOMAIN payments
    BY <1>1, <1>4
  <2>2. OneOther(payments', m, p, payments)
    BY <1>5, <2>1, ListWithAnother
  <2>. QED
    BY <2>2 DEF OneOther
<1>7. DOMAIN payments' = 1 .. n /\ Amount(payments') \in Nat
      /\ payments[m].amount \in Nat /\ p.amount \in Nat
  BY <1>2, <1>3, <1>4, <1>6, ListProperties, PaymentFields
<1> HIDE DEF n
<1>8. \A i \in 1 .. n : payments'[i].id = payments[i].id
  BY <1>4, <1>6
<1>9. IdsInv(payments', created')
  BY <1>3, <1>7, <1>8 DEF IInv, IdsInv
<1>10. CallInv(call[d], payments, slips) /\ RulesInv(payments, slips)
  BY DEF IInv
<1>11. \A i \in 1 .. n : payments[i].id = call[d].id => i = m
  BY <1>2, <1>3 DEF IInv, IdsInv
<1>12. ASSUME slips' \cap Uninformed = {}
       PROVE  \A i, j \in 1 .. n : payments'[i].cuota = payments'[j].cuota => i = j
  <2>1. slips \cap Uninformed = {} /\ call[d].ways \cap Uninformed = {}
    BY <1>12 DEF Slip
  <2>2. \A i \in 1 .. n : i # m => payments[i].cuota # p.cuota
    BY <1>3, <1>4, <1>10, <1>11, <2>1 DEF CallInv
  <2>3. \A i, j \in 1 .. n : payments[i].cuota = payments[j].cuota => i = j
    BY <1>3, <1>10, <2>1 DEF RulesInv
  <2>. QED
    BY <1>6, <2>2, <2>3
<1>13. ASSUME slips' = {}, Within(InitialPayment)
       PROVE  Within(payments')
  <2>1. slips \cup call[d].ways = {} /\ call[d].ways \cap Uninformed = {}
    BY <1>13 DEF Slip
  <2>2. PICK i \in 1 .. n : payments[i].id = call[d].id
                            /\ Amount(payments) + call[d].amount <= Price + payments[i].amount
    BY <1>3, <1>10, <1>13, <2>1 DEF CallInv, Fits
  <2>3. Amount(payments) + p.amount <= Price + payments[m].amount
    BY <1>4, <1>11, <2>2
  <2>. QED
    BY <1>3, <1>6, <1>7, <2>3, MoneyAssumption DEF Within
<1>14. RulesInv(payments', slips')
  BY <1>7, <1>12, <1>13 DEF RulesInv
<1>. QED
  BY <1>1, <1>6, <1>9, <1>14

\* A DELETE breaks no rule.
LEMMA DeletedKeeps ==
  ASSUME IInv, NEW m \in DOMAIN payments, payments' = RemoveAt(payments, m),
         UNCHANGED <<created, slips>>
  PROVE  /\ payments' \in Seq(Payment) /\ created' \in 0 .. MaxPayments
         /\ IdsInv(payments', created') /\ RulesInv(payments', slips')
<1> DEFINE n == Len(payments')
           at(i) == IF i < m THEN i ELSE i + 1
<1>1. payments \in Seq(Payment) /\ created' \in 0 .. MaxPayments
  BY DEF IInv, Types
<1>2. /\ payments' \in Seq(Payment) /\ Len(payments) = n + 1
      /\ \A i \in 1 .. n : /\ i < m => i \in 1 .. Len(payments) /\ payments'[i] = payments[i]
                           /\ ~(i < m) => /\ i + 1 \in 1 .. Len(payments)
                                          /\ payments'[i] = payments[i + 1]
      /\ Amount(payments') <= Amount(payments)
  BY <1>1, ListWithOneLess
<1>3. /\ n \in Nat /\ DOMAIN payments = 1 .. Len(payments) /\ DOMAIN payments' = 1 .. n
      /\ m \in Nat /\ Amount(payments) \in Nat /\ Amount(payments') \in Nat
  BY <1>1, <1>2, ListProperties
<1> HIDE DEF n
<1>4. \A i \in 1 .. n : at(i) \in DOMAIN payments /\ payments'[i] = payments[at(i)]
  BY <1>2, <1>3
<1>5. \A i, j \in 1 .. n : at(i) = at(j) => i = j
  BY <1>3
<1> HIDE DEF at
<1>6. IdsInv(payments', created')
  BY <1>3, <1>4, <1>5 DEF IInv, IdsInv
<1>7. Within(payments) => Within(payments')
  BY <1>2, <1>3, MoneyAssumption DEF Within
<1>8. RulesInv(payments', slips')
  BY <1>3, <1>4, <1>5, <1>7 DEF IInv, RulesInv
<1>. QED
  BY <1>1, <1>2, <1>6, <1>8

-----------------------------------------------------------------------------
(* Requests and their answers                                              *)

\* A step that changes the payments outdates what the desks know of them.
LEMMA ServerKeeps ==
  ASSUME IInv, Types', UNCHANGED priced,
         IdsInv(payments', created'), RulesInv(payments', slips'),
         \A d \in Desks : /\ PagesInv(history'[d], payments') /\ PagesInv(got'[d], payments')
                          /\ call'[d] = None \/ "stale" \in call'[d].ways
  PROVE  IInv'
<1>1. ASSUME NEW d \in Desks
      PROVE  (/\ PagesInv(history[d], payments) /\ PagesInv(got[d], payments)
              /\ CallInv(call[d], payments, slips)
              /\ d \in BlockDesks => priced[d])'
  <2>1. CallInv(call'[d], payments', slips')
    BY DEF CallInv, Uninformed
  <2>. QED
    BY <2>1 DEF IInv
<1>. QED
  BY <1>1 DEF IInv

\* A step that only ends a request.
LEMMA CallEndsKeeps ==
  ASSUME IInv, NEW d \in Desks, call' = [call EXCEPT ![d] = None],
         UNCHANGED <<server, query, priced, sheet, slips>>,
         edits' \in Nat /\ faults' \in Nat /\ edits' + faults' <= MaxTrouble
  PROVE  IInv'
<1>1. UNCHANGED <<payments, created, history, refetching, got, priced, form, editing, slips>>
  BY DEF server, query, sheet
<1>2. Types'
  BY <1>1 DEF IInv, Types
<1>3. IdsInv(payments, created)' /\ RulesInv(payments, slips)'
  BY <1>1 DEF IInv
<1>4. ASSUME NEW e \in Desks
      PROVE  (/\ PagesInv(history[e], payments) /\ PagesInv(got[e], payments)
              /\ CallInv(call[e], payments, slips)
              /\ e \in BlockDesks => priced[e])'
  <2>1. call'[e] = call[e] \/ call'[e] = None
    BY DEF IInv, Types
  <2>2. CallInv(call[e], payments, slips) /\ CallInv(None, payments, slips)
    BY DEF IInv, CallInv
  <2>. QED
    BY <1>1, <2>1, <2>2 DEF IInv
<1>. QED
  BY <1>2, <1>3, <1>4 DEF IInv

\* The form after its request.
LEMMA DoneTypes ==
  ASSUME IInv, NEW d \in Desks, Done(d)
  PROVE  form' \in [Desks -> {"closed", "open", "refetching"}]
         /\ editing' \in [Desks -> Edited \cup {None}]
  BY DEF Done, IInv, Types

\* What has slipped.
LEMMA SlipTypes ==
  ASSUME IInv, NEW d \in Desks, call[d] # None, Slip(d)
  PROVE  slips' \subseteq Ways
<1>1. call[d].ways \subseteq Ways
  BY CallFields DEF IInv, Types
<1>. QED
  BY <1>1 DEF Slip, IInv, Types

\* The pages that are left, or kept, after a mutation.
LEMMA Kept ==
  ASSUME IInv, NEW d \in Desks
  PROVE  /\ keepFirstInfinitePage(history[d]) \in Seq(Page)
         /\ \A i \in DOMAIN keepFirstInfinitePage(history[d]) :
              Len(keepFirstInfinitePage(history[d])[i].items) <= Limit
         /\ history[d] \in Seq(Page)
         /\ \A i \in DOMAIN history[d] : Len(history[d][i].items) <= Limit
<1>1. PagesInv(history[d], payments)
  BY DEF IInv
<1>. QED
  BY <1>1, FirstPageKept DEF PagesInv

\* POST, answered.
LEMMA CreateKeeps ==
  ASSUME IInv, NEW d \in Desks, createStudentPayment(d)
  PROVE  IInv'
<1>1. /\ call[d] # None /\ call[d].id = None /\ Created(d) /\ Settle(d) /\ Slip(d)
      /\ Invalidate(d, keepFirstInfinitePage(history[d])) /\ Done(d)
      /\ UNCHANGED <<priced, edits, faults>>
  BY DEF createStudentPayment, bounds
<1>2. /\ payments' \in Seq(Payment) /\ created' \in 0 .. MaxPayments
      /\ IdsInv(payments', created') /\ RulesInv(payments', slips')
  BY <1>1, CreatedKeeps
<1>3. /\ history' \in [Desks -> Seq(Page)] /\ got' \in [Desks -> Seq(Page)]
      /\ refetching' \in [Desks -> BOOLEAN]
      /\ \A e \in Desks : PagesInv(history'[e], payments') /\ PagesInv(got'[e], payments')
  BY <1>1, Kept, PagesOutdate
<1>4. /\ call' \in [Desks -> Call \cup {None}]
      /\ \A e \in Desks : call'[e] = None \/ "stale" \in call'[e].ways
  BY <1>1, CallsSettle
<1>5. Types'
  BY <1>1, <1>2, <1>3, <1>4, DoneTypes, SlipTypes DEF IInv, Types
<1>. QED
  BY <1>1, <1>2, <1>3, <1>4, <1>5, ServerKeeps

\* PUT, answered or with a payment that is gone.
LEMMA UpdateKeeps ==
  ASSUME IInv, NEW d \in Desks, updateStudentPayment(d)
  PROVE  IInv'
<1>1. call[d] # None /\ call[d].id # None /\ UNCHANGED <<created, priced, faults>>
  BY DEF updateStudentPayment
<1>2. CASE /\ Updated(d) /\ Settle(d) /\ Slip(d)
           /\ Invalidate(d, keepFirstInfinitePage(history[d])) /\ Done(d)
  <2>1. /\ payments' \in Seq(Payment) /\ created' \in 0 .. MaxPayments
        /\ IdsInv(payments', created') /\ RulesInv(payments', slips')
    BY <1>1, <1>2, UpdatedKeeps
  <2>2. /\ history' \in [Desks -> Seq(Page)] /\ got' \in [Desks -> Seq(Page)]
        /\ refetching' \in [Desks -> BOOLEAN]
        /\ \A e \in Desks : PagesInv(history'[e], payments') /\ PagesInv(got'[e], payments')
    BY <1>2, Kept, PagesOutdate
  <2>3. /\ call' \in [Desks -> Call \cup {None}]
        /\ \A e \in Desks : call'[e] = None \/ "stale" \in call'[e].ways
    BY <1>2, CallsSettle
  <2>4. edits' \in Nat /\ faults' \in Nat /\ edits' + faults' <= MaxTrouble
    BY <1>1, <1>2, BoundsAssumption DEF Updated, IInv, Types
  <2>5. Types'
    BY <1>1, <1>2, <2>1, <2>2, <2>3, <2>4, DoneTypes, SlipTypes DEF IInv, Types
  <2>. QED
    BY <1>1, <2>1, <2>2, <2>3, <2>5, ServerKeeps
<1>3. CASE /\ call' = [call EXCEPT ![d] = None]
           /\ UNCHANGED <<payments, query, sheet, edits, slips>>
  <2>1. edits' \in Nat /\ faults' \in Nat /\ edits' + faults' <= MaxTrouble
    BY <1>1, <1>3 DEF IInv, Types
  <2>2. UNCHANGED <<server, query, priced, sheet, slips>>
    BY <1>1, <1>3 DEF server
  <2>. QED
    BY <1>3, <2>1, <2>2, CallEndsKeeps
<1>. QED
  BY <1>2, <1>3 DEF updateStudentPayment

\* A request that fails, or whose answer is lost.
LEMMA FailureKeeps ==
  ASSUME IInv, NEW d \in Desks, MutationFails(d)
  PROVE  IInv'
<1>1. call[d] # None /\ edits + faults < MaxTrouble /\ UNCHANGED <<priced, sheet>>
  BY DEF MutationFails
<1>2. edits \in Nat /\ faults \in Nat /\ MaxTrouble \in Nat
  BY BoundsAssumption DEF IInv, Types
<1>3. CASE /\ call' = [call EXCEPT ![d] = None] /\ faults' = faults + 1
           /\ UNCHANGED <<server, query, edits, slips>>
  <2>1. edits' \in Nat /\ faults' \in Nat /\ edits' + faults' <= MaxTrouble
    BY <1>1, <1>2, <1>3
  <2>2. UNCHANGED <<server, query, priced, sheet, slips>>
    BY <1>1, <1>3
  <2>. QED
    BY <1>3, <2>1, <2>2, CallEndsKeeps
<1>4. CASE /\ \/ call[d].id = None /\ Created(d) /\ faults' = faults + 1 /\ UNCHANGED edits
              \/ call[d].id # None /\ Updated(d) /\ UNCHANGED <<created, faults>>
           /\ Settle(d) /\ Slip(d) /\ Unheard
  <2>1. /\ payments' \in Seq(Payment) /\ created' \in 0 .. MaxPayments
        /\ IdsInv(payments', created') /\ RulesInv(payments', slips')
    BY <1>1, <1>4, CreatedKeeps, UpdatedKeeps
  <2>2. /\ history' \in [Desks -> Seq(Page)] /\ got' \in [Desks -> Seq(Page)]
        /\ refetching' \in [Desks -> BOOLEAN]
        /\ \A e \in Desks : PagesInv(history'[e], payments') /\ PagesInv(got'[e], payments')
    BY <1>4, Kept, PagesOutdate
  <2>3. /\ call' \in [Desks -> Call \cup {None}]
        /\ \A e \in Desks : call'[e] = None \/ "stale" \in call'[e].ways
    BY <1>4, CallsSettle
  <2>4. edits' \in Nat /\ faults' \in Nat /\ edits' + faults' <= MaxTrouble
    <3>1. \/ edits' = edits /\ faults' = faults + 1
          \/ edits' = edits + 1 /\ faults' = faults
      BY <1>4 DEF Updated
    <3>. QED
      BY ONLY <1>1, <1>2, <3>1
  <2>5. Types'
    BY <1>1, <2>1, <2>2, <2>3, <2>4, <1>4, SlipTypes DEF IInv, Types, sheet
  <2>. QED
    BY <1>1, <2>1, <2>2, <2>3, <2>5, ServerKeeps
<1>. QED
  BY <1>3, <1>4 DEF MutationFails

\* DELETE, answered.
LEMMA DeleteKeeps ==
  ASSUME IInv, NEW d \in Desks, deleteStudentPayment(d)
  PROVE  IInv'
<1>1. /\ call' = [e \in Desks |-> IF call[e] = None THEN None ELSE Overtaken(call[e])]
      /\ Invalidate(d, IF d \in PageDesks THEN keepFirstInfinitePage(history[d])
                       ELSE history[d])
      /\ UNCHANGED <<created, priced, form, editing, edits, faults, slips>>
  BY DEF deleteStudentPayment, sheet, bounds
<1>2. PICK m \in DOMAIN payments : payments' = RemoveAt(payments, m)
  BY DEF deleteStudentPayment
<1>3. /\ payments' \in Seq(Payment) /\ created' \in 0 .. MaxPayments
      /\ IdsInv(payments', created') /\ RulesInv(payments', slips')
  BY <1>1, <1>2, DeletedKeeps
<1> DEFINE pages == IF d \in PageDesks THEN keepFirstInfinitePage(history[d]) ELSE history[d]
<1>4. pages \in Seq(Page) /\ \A i \in DOMAIN pages : Len(pages[i].items) <= Limit
  BY Kept
<1>5. Invalidate(d, pages)
  BY <1>1
<1> HIDE DEF pages
<1>6. /\ history' \in [Desks -> Seq(Page)] /\ got' \in [Desks -> Seq(Page)]
      /\ refetching' \in [Desks -> BOOLEAN]
      /\ \A e \in Desks : PagesInv(history'[e], payments') /\ PagesInv(got'[e], payments')
  BY <1>4, <1>5, PagesOutdate
<1>7. /\ call' \in [Desks -> Call \cup {None}]
      /\ \A e \in Desks : call'[e] = None \/ "stale" \in call'[e].ways
  BY <1>1, CallsSettle
<1>8. Types'
  BY <1>1, <1>3, <1>6, <1>7 DEF IInv, Types
<1>. QED
  BY <1>1, <1>3, <1>6, <1>7, <1>8, ServerKeeps

\* Every step.
LEMMA NextKeeps == IInv /\ [Next]_vars => IInv'
<1> SUFFICES ASSUME IInv, [Next]_vars PROVE IInv'
  OBVIOUS
<1>1. CASE UNCHANGED vars
  <2>1. /\ UNCHANGED <<payments, created, history, refetching, got, priced, form, editing,
                       call, edits, faults, slips>>
    BY <1>1 DEF vars, server, query, sheet, bounds
  <2>2. Types'
    BY <2>1 DEF IInv, Types
  <2>3. \A d \in Desks : /\ PagesInv(history'[d], payments) /\ PagesInv(got'[d], payments)
                         /\ priced[d] => priced'[d]
    BY <2>1 DEF IInv
  <2>. QED
    BY <2>1, <2>2, <2>3, DesksKeep
<1>2. ASSUME NEW d \in Desks, Operator(d)
      PROVE  IInv'
  <2>1. ASSUME NEW a \in Amounts, NEW q \in Cuotas, Register(d, a, q) PROVE IInv'
    BY <2>1, RegisterKeeps
  <2>. QED
    BY <1>2, <2>1, FormsKeep, DeleteKeeps DEF Operator
<1>3. ASSUME NEW d \in Desks, Fetching(d)
      PROVE  IInv'
  BY <1>3, FetchNextPageKeeps, RefetchArrivesKeeps, LoadFailsKeeps,
     EnrollmentArrivesKeeps DEF Fetching
<1>4. ASSUME NEW d \in Desks, Mutating(d) \/ MutationFails(d)
      PROVE  IInv'
  BY <1>4, CreateKeeps, UpdateKeeps, FailureKeeps DEF Mutating
<1>. QED
  BY <1>1, <1>2, <1>3, <1>4 DEF Next

THEOREM IInvHolds == Spec => []IInv
<1>. QED
  BY InitIInv, NextKeeps, PTL DEF Spec

-----------------------------------------------------------------------------
(* What it says                                                             *)

\* Every state has the types TypeOK gives it: a payment is listed once, under an id
\* that was given once, and a form edits a payment as it was seen (EnrollmentPayment
\* forms of student-payments/page.tsx).
THEOREM TypeCorrect == Spec => []TypeOK
<1>1. IInv => TypeOK
  <2> SUFFICES ASSUME IInv PROVE TypeOK
    OBVIOUS
  <2>1. ASSUME NEW pages \in Seq(Page), PagesInv(pages, payments)
        PROVE  SyncPages(pages)
    <3>1. ASSUME NEW i \in DOMAIN pages
          PROVE  /\ pages[i].items \in Seq(Payment) /\ Len(pages[i].items) <= Limit
                 /\ pages[i].total \in Nat /\ pages[i].fresh \in BOOLEAN
      <4>1. pages[i] \in Page
        BY LenProperties
      <4>. QED
        BY <2>1, <4>1, PageFields DEF PagesInv
    <3>. QED
      BY <3>1 DEF SyncPages
  <2>2. \A d \in Desks : SyncPages(history[d]) /\ SyncPages(got[d])
    BY <2>1 DEF IInv, PagesInv
  <2>. QED
    BY <2>2 DEF IInv, Types, IdsInv, TypeOK
<1>. QED
  BY <1>1, IInvHolds, PTL

THEOREM HistoryIsComplete == Spec => []LoadedHistoryIsComplete
<1>1. IInv => LoadedHistoryIsComplete
  BY NothingLeftToLoad DEF IInv, Types, LoadedHistoryIsComplete, Shown
<1>. QED
  BY <1>1, IInvHolds, PTL

THEOREM UniqueInstallments == Spec => []InstallmentsUnique
<1>1. IInv => InstallmentsUnique
  BY DEF IInv, RulesInv, InstallmentsUnique
<1>. QED
  BY <1>1, IInvHolds, PTL

THEOREM PriceIsRespected == Spec => []PriceRespected
<1>1. IInv => PriceRespected
  <2> SUFFICES ASSUME IInv, Amount(payments) > Price, slips = {}
               PROVE  Amount(InitialPayment) > Price
    BY DEF PriceRespected
  <2>1. /\ Amount(payments) \in Nat /\ Amount(InitialPayment) \in Nat /\ Price \in Nat
    BY InitialList, ListProperties, MoneyAssumption DEF IInv, Types
  <2>2. ~Within(payments)
    BY <2>1 DEF Within
  <2>3. ~Within(InitialPayment)
    BY <2>2 DEF IInv, RulesInv
  <2>. QED
    BY <2>1, <2>3 DEF Within
<1>. QED
  BY <1>1, IInvHolds, PTL
================================================================================
