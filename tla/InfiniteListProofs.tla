--------------------------- MODULE InfiniteListProofs ---------------------------
(***************************************************************************)
(* Lemmas about the accumulated pages of InfiniteLists, for lists of any   *)
(* items and requests of any size: what FlattenSeq makes of the pages, and *)
(* when the pages loaded so far are the beginning of the list they were    *)
(* read from.  The pages of the web application cite them.                 *)
(***************************************************************************)
EXTENDS InfiniteLists, SequenceTheorems, WellFoundedInduction, TLAPS

-----------------------------------------------------------------------------
(* Flattening a sequence of sequences                                      *)

\* A set of natural numbers has a smallest element.
LEMMA Smallest ==
  ASSUME NEW T, T \subseteq Nat, T # {}
  PROVE  \E m \in T : \A n \in T : m <= n
<1> DEFINE R == OpToRel(<, Nat)
<1>1. PICK m \in T : \A n \in T : <<n, m>> \notin R
  BY NatLessThanWellFounded, WFMin
<1>2. \A n \in T : <<n, m>> \in R <=> n < m
  BY DEF OpToRel
<1> HIDE DEF R
<1>3. m \in Nat /\ \A n \in T : n \in Nat /\ ~ n < m
  BY <1>1, <1>2
<1>. QED
  BY <1>3

\* Induction up to k, with a set for the numbers it has been shown for.
LEMMA UpTo ==
  ASSUME NEW k \in Nat, NEW S, 0 \in S, \A n \in 0 .. k : n # k /\ n \in S => n + 1 \in S
  PROVE  0 .. k \subseteq S
<1> DEFINE T == (0 .. k) \ S
<1>1. CASE T # {}
  <2>1. T \subseteq Nat
    OBVIOUS
  <2>2. PICK m \in T : \A n \in T : m <= n
    BY <1>1, <2>1, Smallest
  <2>3. m \in 1 .. k /\ m \notin S
    BY <2>2
  <2>4. m - 1 \in 0 .. k /\ m - 1 # k /\ m - 1 \notin T
    BY <2>2, <2>3
  <2>5. (m - 1) + 1 \in S
    BY <2>4
  <2>. QED
    BY <2>3, <2>5
<1>. QED
  BY <1>1

-----------------------------------------------------------------------------
(* FlattenSeq                                                               *)

\* A name for the prover: an equation with \o is otherwise one about indices.
Then(s, t) == s \o t

\* f holds what the first n of the lists ss make together.
Flat(f, ss, n) == \A i \in 1 .. n : f[i] = IF i = 1 THEN ss[i] ELSE Then(f[i - 1], ss[i])

\* Two lists, or two such f, agree up to n.
Agree(f, g, n) == \A i \in 1 .. n : f[i] = g[i]

\* The lists of a sequence, joined one after the other.
LEMMA FlatExists ==
  ASSUME NEW S, NEW ss \in Seq(Seq(S))
  PROVE  \A n \in 0 .. Len(ss) : \E f \in [1 .. n -> Seq(S)] : Flat(f, ss, n)
<1> DEFINE U == {n \in 0 .. Len(ss) : \E f \in [1 .. n -> Seq(S)] : Flat(f, ss, n)}
<1>0. Len(ss) \in Nat /\ \A i \in 1 .. Len(ss) : ss[i] \in Seq(S)
  BY ElementOfSeq, LenProperties
<1>1. 0 \in U
  <2>1. [i \in 1 .. 0 |-> <<>>] \in [1 .. 0 -> Seq(S)]
    OBVIOUS
  <2>2. Flat([i \in 1 .. 0 |-> <<>>], ss, 0)
    BY DEF Flat
  <2>3. \E f \in [1 .. 0 -> Seq(S)] : Flat(f, ss, 0)
    BY <2>1, <2>2, Zenon
  <2>4. 0 \in 0 .. Len(ss)
    BY <1>0
  <2>. QED
    BY <2>3, <2>4, Zenon
<1>2. ASSUME NEW n \in 0 .. Len(ss), n # Len(ss) /\ n \in U PROVE n + 1 \in U
  <2>1. PICK f \in [1 .. n -> Seq(S)] : Flat(f, ss, n)
    BY <1>2
  <2> DEFINE x == IF n = 0 THEN ss[1] ELSE Then(f[n], ss[n + 1])
             g == [i \in 1 .. n + 1 |-> IF i = n + 1 THEN x ELSE f[i]]
  <2>2. x \in Seq(S)
    BY <1>0, <1>2, ConcatProperties DEF Then
  <2>3. g \in [1 .. n + 1 -> Seq(S)]
    <3>1. \A i \in 1 .. n + 1 : i # n + 1 => i \in 1 .. n
      BY <1>0
    <3>. HIDE DEF x
    <3>. QED
      BY <2>1, <2>2, <3>1
  <2>4. ASSUME NEW i \in 1 .. n + 1
        PROVE  g[i] = IF i = 1 THEN ss[i] ELSE Then(g[i - 1], ss[i])
    <3>1. CASE i = n + 1
      <4>1. g[i] = x
        BY <3>1
      <4>2. n # 0 => g[i - 1] = f[n]
        BY <3>1
      <4>. QED
        BY <3>1, <4>1, <4>2
    <3>2. CASE i # n + 1
      <4>1. i \in 1 .. n /\ g[i] = f[i] /\ (i # 1 => i - 1 \in 1 .. n /\ g[i - 1] = f[i - 1])
        BY <1>0, <3>2
      <4>. QED
        BY <2>1, <4>1 DEF Flat
    <3>. QED
      BY <3>1, <3>2
  <2>5. Flat(g, ss, n + 1)
    BY <2>4 DEF Flat
  <2>6. n + 1 \in 0 .. Len(ss)
    BY <1>0, <1>2
  <2>. HIDE DEF g
  <2>. QED
    BY <2>3, <2>5, <2>6
<1> HIDE DEF U
<1>3. 0 .. Len(ss) \subseteq U
  BY <1>0, <1>1, <1>2, UpTo
<1>. QED
  BY <1>3 DEF U

\* There is one such sequence of joined lists only.
LEMMA FlatUnique ==
  ASSUME NEW ss, NEW tt, NEW n \in Nat, Agree(ss, tt, n),
         NEW f, NEW g, Flat(f, ss, n), Flat(g, tt, n)
  PROVE  Agree(f, g, n)
<1>0. \A i \in 1 .. n : ss[i] = tt[i]
  BY DEF Agree
<1> DEFINE U == {0} \cup {i \in 1 .. n : f[i] = g[i]}
<1>1. 0 \in U
  OBVIOUS
<1>2. ASSUME NEW k \in 0 .. n, k # n /\ k \in U PROVE k + 1 \in U
  <2>1. k + 1 \in 1 .. n
    BY <1>2
  <2>2. f[k + 1] = IF k + 1 = 1 THEN ss[k + 1] ELSE Then(f[k + 1 - 1], ss[k + 1])
    BY <2>1 DEF Flat
  <2>3. g[k + 1] = IF k + 1 = 1 THEN tt[k + 1] ELSE Then(g[k + 1 - 1], tt[k + 1])
    BY <2>1 DEF Flat
  <2>4. k + 1 # 1 => f[k + 1 - 1] = g[k + 1 - 1]
    BY <1>2
  <2>5. ss[k + 1] = tt[k + 1]
    BY <1>0, <2>1
  <2>. QED
    BY <2>1, <2>2, <2>3, <2>4, <2>5
<1> HIDE DEF U
<1>3. 0 .. n \subseteq U
  BY <1>1, <1>2, UpTo
<1>. USE DEF U
<1>. QED
  BY <1>3 DEF Agree

\* What FlattenSeq returns is the last value of any such f.
LEMMA FlattenIs ==
  ASSUME NEW S, NEW ss \in Seq(Seq(S)), ss # <<>>,
         NEW f \in [1 .. Len(ss) -> Seq(S)], Flat(f, ss, Len(ss))
  PROVE  FlattenSeq(ss) = f[Len(ss)]
<1> DEFINE n == Len(ss)
           Is(g) == g = [i \in 1 .. n |-> IF i = 1 THEN ss[i] ELSE Then(g[i - 1], ss[i])]
           c == CHOOSE g : Is(g)
<1>1. n \in Nat \ {0}
  BY EmptySeq
<1>2. Is(f)
  BY DEF Flat
<1>3. Is(c)
  BY <1>2
<1>4. FlattenSeq(ss) = c[n]
  BY <1>1 DEF FlattenSeq, Then
<1>5. Flat(c, ss, n)
  <2>. HIDE DEF c
  <2>. QED
    BY <1>3 DEF Flat
<1>6. f[n] = c[n]
  <2>. HIDE DEF c, n
  <2>1. Agree(ss, ss, n)
    BY DEF Agree
  <2>2. Flat(f, ss, n) /\ n \in Nat
    BY <1>1 DEF n
  <2>3. Agree(f, c, n)
    BY <1>5, <2>1, <2>2, FlatUnique
  <2>. QED
    BY <1>1, <2>3 DEF Agree
<1>. HIDE DEF c, n, Is
<1>. QED
  BY <1>1, <1>4, <1>6 DEF n

\* FlattenSeq is the last of them.
LEMMA FlattenAs ==
  ASSUME NEW S, NEW ss \in Seq(Seq(S)), ss # <<>>
  PROVE  \E f : /\ Flat(f, ss, Len(ss))
                /\ FlattenSeq(ss) = f[Len(ss)] /\ FlattenSeq(ss) \in Seq(S)
<1>1. Len(ss) \in 0 .. Len(ss) /\ Len(ss) \in 1 .. Len(ss)
  BY EmptySeq
<1>2. PICK f \in [1 .. Len(ss) -> Seq(S)] : Flat(f, ss, Len(ss))
  BY <1>1, FlatExists
<1>3. FlattenSeq(ss) = f[Len(ss)]
  BY <1>2, FlattenIs
<1>4. f[Len(ss)] \in Seq(S)
  BY <1>1
<1>. QED
  BY <1>2, <1>3, <1>4

\* One list more at the end is joined to the end.
LEMMA FlattenStep ==
  ASSUME NEW S, NEW n \in Nat, NEW ss \in Seq(Seq(S)), Len(ss) = n, NEW x \in Seq(S),
         NEW tt \in Seq(Seq(S)), Len(tt) = n + 1, tt[n + 1] = x, Agree(tt, ss, n)
  PROVE  /\ FlattenSeq(ss) \in Seq(S)
         /\ FlattenSeq(tt) = Then(FlattenSeq(ss), x)
<1>1. PICK g : Flat(g, tt, n + 1) /\ FlattenSeq(tt) = g[n + 1]
  <2>1. tt # <<>>
    OBVIOUS
  <2>. QED
    BY <2>1, FlattenAs
<1>2. CASE n = 0
  <2>1. ss = <<>>
    BY <1>2, EmptySeq
  <2>2. FlattenSeq(ss) = <<>>
    BY <2>1 DEF FlattenSeq
  <2>3. g[1] = x
    BY <1>1, <1>2 DEF Flat
  <2>4. Then(<<>>, x) = x /\ <<>> \in Seq(S)
    BY ConcatEmptySeq, EmptySeq DEF Then
  <2>. QED
    BY <1>1, <1>2, <2>2, <2>3, <2>4
<1>3. CASE n # 0
  <2>1. PICK f : Flat(f, ss, n) /\ FlattenSeq(ss) = f[n] /\ FlattenSeq(ss) \in Seq(S)
    <3>1. ss # <<>>
      BY <1>3
    <3>. QED
      BY <3>1, FlattenAs
  <2>2. Flat(g, tt, n)
    BY <1>1 DEF Flat
  <2>3. Agree(f, g, n)
    <3>1. Agree(ss, tt, n)
      BY DEF Agree
    <3>. QED
      BY <2>1, <2>2, <3>1, FlatUnique
  <2>4. g[n + 1] = Then(g[n], x)
    BY <1>1, <1>3 DEF Flat
  <2>5. f[n] = g[n]
    <3>1. n \in 1 .. n
      BY <1>3
    <3>. QED
      BY ONLY <2>3, <3>1 DEF Agree
  <2>. QED
    BY <1>1, <2>1, <2>4, <2>5
<1>. QED
  BY <1>2, <1>3

-----------------------------------------------------------------------------
(* The items of the pages of a list                                        *)

\* The items of the pages, page by page.
ItemsOf(pages) == [i \in DOMAIN pages |-> pages[i].items]

\* Every page gives its items.
LEMMA ItemsOfPages ==
  ASSUME NEW S, NEW P, \A p \in P : p.items \in Seq(S), NEW pages \in Seq(P)
  PROVE  /\ ItemsOf(pages) \in Seq(Seq(S)) /\ Len(ItemsOf(pages)) = Len(pages)
         /\ \A i \in 1 .. Len(pages) : ItemsOf(pages)[i] = pages[i].items
<1>1. Len(pages) \in Nat /\ DOMAIN pages = 1 .. Len(pages)
      /\ \A i \in 1 .. Len(pages) : pages[i] \in P
  BY LenProperties
<1>2. ItemsOf(pages) = [i \in 1 .. Len(pages) |-> pages[i].items]
  BY <1>1 DEF ItemsOf
<1>3. ItemsOf(pages) \in [1 .. Len(pages) -> Seq(S)]
  BY <1>1, <1>2
<1>. QED
  BY <1>1, <1>2, <1>3

\* A page more shows its items after those before it.
LEMMA FlattenOfMore ==
  ASSUME NEW S, NEW P, \A p \in P : p.items \in Seq(S), NEW pages \in Seq(P), NEW p \in P
  PROVE  /\ flattenInfiniteItems(pages) \in Seq(S)
         /\ flattenInfiniteItems(Append(pages, p)) = Then(flattenInfiniteItems(pages), p.items)
<1> DEFINE more == Append(pages, p)
<1>1. more \in Seq(P) /\ Len(more) = Len(pages) + 1 /\ Len(pages) \in Nat
      /\ more[Len(pages) + 1] = p /\ \A i \in 1 .. Len(pages) : more[i] = pages[i]
  BY AppendProperties, LenProperties
<1>2. p.items \in Seq(S)
  OBVIOUS
<1> HIDE DEF more
<1> DEFINE ss == ItemsOf(pages)
           tt == ItemsOf(more)
<1>3. ss \in Seq(Seq(S)) /\ Len(ss) = Len(pages)
      /\ \A i \in 1 .. Len(pages) : ss[i] = pages[i].items
  BY ItemsOfPages
<1>4. tt \in Seq(Seq(S)) /\ Len(tt) = Len(pages) + 1
      /\ \A i \in 1 .. Len(pages) + 1 : tt[i] = more[i].items
  <2>1. ItemsOf(more) \in Seq(Seq(S)) /\ Len(ItemsOf(more)) = Len(more)
        /\ \A i \in 1 .. Len(more) : ItemsOf(more)[i] = more[i].items
    <3>1. more \in Seq(P)
      BY <1>1
    <3>. QED
      BY <3>1, ItemsOfPages
  <2>. QED
    BY <1>1, <2>1
<1> HIDE DEF ss, tt
<1>5. Agree(tt, ss, Len(pages)) /\ tt[Len(pages) + 1] = p.items
  <2>1. ASSUME NEW i \in 1 .. Len(pages) PROVE tt[i] = ss[i]
    <3>1. i \in 1 .. Len(pages) + 1
      BY <1>1
    <3>2. tt[i] = more[i].items /\ more[i] = pages[i] /\ ss[i] = pages[i].items
      BY <1>1, <1>3, <1>4, <3>1
    <3>. QED
      BY <3>2
  <2>2. Len(pages) + 1 \in 1 .. Len(pages) + 1
    BY <1>1
  <2>3. tt[Len(pages) + 1] = p.items
    BY <1>1, <1>4, <2>2
  <2>. QED
    BY <2>1, <2>3 DEF Agree
<1>6. FlattenSeq(ss) \in Seq(S) /\ FlattenSeq(tt) = Then(FlattenSeq(ss), p.items)
  BY <1>1, <1>2, <1>3, <1>4, <1>5, FlattenStep
<1>. QED
  BY <1>6 DEF ss, tt, more, ItemsOf, flattenInfiniteItems

\* No page shows nothing.
LEMMA FlattenOfNone == flattenInfiniteItems(<<>>) = <<>>
<1>1. [i \in DOMAIN <<>> |-> <<>>[i].items] = <<>>
  OBVIOUS
<1>. QED
  BY <1>1 DEF flattenInfiniteItems, FlattenSeq

\* What the pages show are items.
LEMMA FlattenType ==
  ASSUME NEW S, NEW P, \A p \in P : p.items \in Seq(S), NEW pages \in Seq(P)
  PROVE  flattenInfiniteItems(pages) \in Seq(S)
<1>1. CASE pages = <<>>
  BY <1>1, FlattenOfNone, EmptySeq
<1>2. CASE pages # <<>>
  <2>1. pages[1] \in P
    BY <1>2, EmptySeq
  <2>. QED
    BY <2>1, FlattenOfMore
<1>. QED
  BY <1>1, <1>2

\* The smaller of two numbers.
LEMMA MinOfTwo ==
  ASSUME NEW a \in Nat, NEW b \in Nat
  PROVE  Min({a, b}) = IF a <= b THEN a ELSE b
  BY DEF Min

\* Items that continue a list loaded up to some offset.
Continues(items, list, off, limit, S) ==
    /\ items \in Seq(S) /\ Len(items) \in Nat /\ Len(items) <= limit
    /\ \A i \in 1 .. Len(items) : items[i] = list[off + i]
    /\ off <= Len(list) =>
         /\ Then(SubSeq(list, 1, off), items) = SubSeq(list, 1, off + Len(items))
         /\ off + Len(items) <= Len(list)
         /\ Len(items) < limit => off + Len(items) = Len(list)

\* What a GET answers is.
LEMMA PageAtOffset ==
  ASSUME NEW S, NEW list \in Seq(S), NEW off \in Nat, NEW limit \in Nat \ {0},
         NEW items, items = PageOf(list, off, limit).items
  PROVE  Continues(items, list, off, limit, S)
<1> DEFINE m == Min({off + limit, Len(list)})
<1>1. Len(list) \in Nat /\ \A i \in 1 .. Len(list) : list[i] \in S
  BY LenProperties, ElementOfSeq
<1>2. m = (IF off + limit <= Len(list) THEN off + limit ELSE Len(list)) /\ m \in Nat
  BY <1>1, MinOfTwo
<1>3. items = SubSeq(list, off + 1, m)
  BY DEF PageOf
<1> HIDE DEF m
<1>4. \A i \in off + 1 .. m : list[i] \in S
  BY <1>1, <1>2
<1>5. items \in Seq(S) /\ Len(items) = IF off + 1 <= m THEN m - off ELSE 0
  <2>1. /\ SubSeq(list, off + 1, m) \in Seq(S)
        /\ Len(SubSeq(list, off + 1, m)) = IF off + 1 <= m THEN m - (off + 1) + 1 ELSE 0
    BY <1>2, <1>4, SubSeqProperties
  <2>. QED
    BY <1>2, <1>3, <2>1
<1>6. Len(items) \in Nat /\ Len(items) <= limit
  BY <1>1, <1>2, <1>5
<1>7. ASSUME off <= Len(list)
      PROVE  /\ Then(SubSeq(list, 1, off), items) = SubSeq(list, 1, off + Len(items))
             /\ off + Len(items) <= Len(list)
             /\ Len(items) < limit => off + Len(items) = Len(list)
  <2>1. m = off + Len(items) /\ m \in off .. Len(list)
    BY <1>1, <1>2, <1>5, <1>7
  <2>2. Then(SubSeq(list, 1, off), SubSeq(list, off + 1, m)) = SubSeq(list, 1, m)
    <3>1. 1 \in 1 .. Len(list) + 1 /\ off \in 1 - 1 .. Len(list) /\ m \in off .. Len(list)
      BY <1>1, <1>7, <2>1
    <3>. QED
      BY <3>1, ConcatAdjacentSubSeq DEF Then
  <2>3. Len(items) < limit => m = Len(list)
    BY <1>1, <1>2, <2>1
  <2>. QED
    BY <1>3, <2>1, <2>2, <2>3
<1>8. ASSUME NEW i \in 1 .. Len(items) PROVE items[i] = list[off + i]
  <2>1. \A j \in 1 .. m - (off + 1) + 1 : SubSeq(list, off + 1, m)[j] = list[(off + 1) + j - 1]
    BY <1>2, <1>4, SubSeqProperties
  <2>2. i \in 1 .. m - (off + 1) + 1 /\ (off + 1) + i - 1 = off + i
    BY <1>2, <1>5
  <2>. QED
    BY <1>3, <2>1, <2>2
<1>. QED
  BY <1>5, <1>6, <1>7, <1>8 DEF Continues

-----------------------------------------------------------------------------
(* Lists joined, and lists with one item less                               *)

\* A function on the first numbers is a list.
LEMMA ListOf ==
  ASSUME NEW S, NEW n \in Nat, NEW f \in [1 .. n -> S]
  PROVE  f \in Seq(S) /\ Len(f) = n
  OBVIOUS

JoinedOf(r, s, t, S) ==
    /\ r \in Seq(S) /\ Len(r) = Len(s) + Len(t)
    /\ \A i \in 1 .. Len(s) + Len(t) : r[i] = IF i <= Len(s) THEN s[i] ELSE t[i - Len(s)]

\* Two lists joined.
LEMMA ThenProperties ==
  ASSUME NEW S, NEW s \in Seq(S), NEW t \in Seq(S)
  PROVE  JoinedOf(Then(s, t), s, t, S)
  BY ConcatProperties DEF Then, JoinedOf

\* less is list without the item in place m.
OneLess(less, list, m, S) ==
    /\ less \in Seq(S) /\ Len(list) = Len(less) + 1
    /\ \A i \in 1 .. Len(less) :
         /\ i < m => i \in 1 .. Len(list) /\ less[i] = list[i]
         /\ ~(i < m) => i + 1 \in 1 .. Len(list) /\ less[i] = list[i + 1]

\* RemoveAt takes one item out and moves the others up.
LEMMA RemovedOne ==
  ASSUME NEW S, NEW list \in Seq(S), NEW m \in DOMAIN list, NEW less, less = RemoveAt(list, m)
  PROVE  OneLess(less, list, m, S)
<1>1. m \in 1 .. Len(list) /\ Len(list) \in Nat /\ \A i \in 1 .. Len(list) : list[i] \in S
  BY LenProperties, ElementOfSeq
<1> DEFINE a == SubSeq(list, 1, m - 1)
           b == SubSeq(list, m + 1, Len(list))
<1>2. a \in Seq(S) /\ Len(a) = m - 1 /\ \A i \in 1 .. m - 1 : a[i] = list[i]
  <2>1. /\ a \in Seq(S) /\ Len(a) = (IF 1 <= m - 1 THEN (m - 1) - 1 + 1 ELSE 0)
        /\ \A i \in 1 .. (m - 1) - 1 + 1 : a[i] = list[1 + i - 1]
    <3>1. 1 \in Int /\ m - 1 \in Int /\ \A i \in 1 .. m - 1 : list[i] \in S
      BY <1>1
    <3>. QED
      BY <3>1, SubSeqProperties
  <2>. QED
    BY <1>1, <2>1
<1>3. b \in Seq(S) /\ Len(b) = Len(list) - m
      /\ \A i \in 1 .. Len(list) - m : b[i] = list[m + i]
  <2>1. /\ b \in Seq(S)
        /\ Len(b) = (IF m + 1 <= Len(list) THEN Len(list) - (m + 1) + 1 ELSE 0)
        /\ \A i \in 1 .. Len(list) - (m + 1) + 1 : b[i] = list[(m + 1) + i - 1]
    <3>1. m + 1 \in Int /\ Len(list) \in Int /\ \A i \in m + 1 .. Len(list) : list[i] \in S
      BY <1>1
    <3>. QED
      BY <3>1, SubSeqProperties
  <2>2. \A i \in 1 .. Len(list) - m : i \in 1 .. Len(list) - (m + 1) + 1 /\ (m + 1) + i - 1 = m + i
    BY <1>1
  <2>. QED
    BY <1>1, <2>1, <2>2
<1> HIDE DEF a, b
<1>4. less = Then(a, b)
  BY DEF RemoveAt, Then, a, b
<1>5. JoinedOf(less, a, b, S)
  BY <1>2, <1>3, <1>4, ThenProperties
<1>6. less \in Seq(S) /\ Len(less) = Len(a) + Len(b) /\ Len(list) = Len(less) + 1
  <2>1. less \in Seq(S) /\ Len(less) = Len(a) + Len(b)
    BY <1>5 DEF JoinedOf
  <2>2. m \in Nat /\ Len(list) \in Nat
    BY <1>1
  <2>3. Len(a) = m - 1 /\ Len(b) = Len(list) - m
    BY <1>2, <1>3
  <2>4. \A x, y \in Nat : y = ((x - 1) + (y - x)) + 1
    OBVIOUS
  <2>5. Len(list) = ((m - 1) + (Len(list) - m)) + 1
    BY <2>2, <2>4
  <2>6. Len(list) = Len(less) + 1
    BY ONLY <2>1, <2>3, <2>5
  <2>. QED
    BY ONLY <2>1, <2>6
<1>10. \A i \in 1 .. Len(a) + Len(b) : less[i] = IF i <= Len(a) THEN a[i] ELSE b[i - Len(a)]
  BY <1>5 DEF JoinedOf
<1>7. ASSUME NEW i \in 1 .. Len(less)
      PROVE  /\ i < m => i \in 1 .. Len(list) /\ less[i] = list[i]
             /\ ~(i < m) => i + 1 \in 1 .. Len(list) /\ less[i] = list[i + 1]
  <2>1. Len(less) = Len(list) - 1 /\ i \in 1 .. Len(a) + Len(b)
    BY <1>1, <1>2, <1>3, <1>6
  <2>2. CASE i < m
    <3>1. i \in 1 .. m - 1 /\ i <= Len(a) /\ i \in 1 .. Len(list)
      BY <1>1, <1>2, <2>1, <2>2
    <3>. QED
      BY <1>2, <1>10, <2>1, <2>2, <3>1
  <2>3. CASE ~(i < m)
    <3>1. /\ i - Len(a) \in 1 .. Len(list) - m /\ ~(i <= Len(a)) /\ i + 1 \in 1 .. Len(list)
          /\ m + (i - Len(a)) = i + 1
      BY <1>1, <1>2, <2>1, <2>3
    <3>. QED
      BY <1>3, <1>10, <2>1, <2>3, <3>1
  <2>. QED
    BY <2>2, <2>3
<1>. QED
  BY <1>6, <1>7 DEF OneLess

-----------------------------------------------------------------------------
(* The pages loaded so far, and the list of the server                      *)

\* The pages hold the first items of the list, and the last of them says whether
\* there are more.
Prefix(pages, list, limit) ==
    LET shown == flattenInfiniteItems(pages) IN
    /\ Len(shown) <= Len(list) /\ shown = SubSeq(list, 1, Len(shown))
    /\ Last(pages).total = Len(list)
    /\ Len(Last(pages).items) < limit => Len(shown) = Len(list)

\* A page is what a GET answered for the offset the pages before it give.
ReadAt(p, list, off, limit) ==
    p.items = PageOf(list, off, limit).items /\ p.total = Len(list)

\* With one page more, read at the offset the pages before it give, they still do.
LEMMA PrefixOfMore ==
  ASSUME NEW S, NEW P, \A q \in P : q.items \in Seq(S), NEW pages \in Seq(P),
         NEW list \in Seq(S), NEW limit \in Nat \ {0},
         pages = <<>> \/ Prefix(pages, list, limit),
         NEW p \in P, ReadAt(p, list, loadedCount(pages), limit)
  PROVE  Prefix(Append(pages, p), list, limit)
<1> DEFINE off == loadedCount(pages)
           items == p.items
           more == Append(pages, p)
<1>1. pages \in Seq(P) /\ Len(pages) \in Nat
  BY LenProperties
<1>2. flattenInfiniteItems(pages) \in Seq(S)
  BY FlattenType
<1>3. off = Len(flattenInfiniteItems(pages)) /\ off \in Nat /\ Len(list) \in Nat
  BY <1>2, LenProperties DEF loadedCount
<1> HIDE DEF off
<1>5. /\ items \in Seq(S) /\ Len(items) \in Nat /\ Len(items) <= limit
      /\ off <= Len(list) =>
           /\ Then(SubSeq(list, 1, off), items) = SubSeq(list, 1, off + Len(items))
           /\ off + Len(items) <= Len(list)
           /\ Len(items) < limit => off + Len(items) = Len(list)
  <2>1. items = PageOf(list, off, limit).items
    BY DEF ReadAt, off
  <2>2. Continues(items, list, off, limit, S)
    BY <1>3, <2>1, PageAtOffset
  <2>. QED
    BY <2>2 DEF Continues
<1>6. p.total = Len(list)
  BY DEF ReadAt
<1>8. flattenInfiniteItems(more) = Then(flattenInfiniteItems(pages), items)
  BY FlattenOfMore
<1>9. Len(flattenInfiniteItems(more)) = off + Len(items)
  BY <1>2, <1>3, <1>5, <1>8, ConcatProperties DEF Then
<1>11. Last(more) = p
  BY <1>1, AppendProperties DEF Last
<1> HIDE DEF more, items
<1>12. off <= Len(list) /\ flattenInfiniteItems(pages) = SubSeq(list, 1, off)
  <2>1. CASE pages = <<>>
    <3>1. flattenInfiniteItems(pages) = <<>> /\ off = 0
      BY <1>3, <2>1, FlattenOfNone, EmptySeq
    <3>2. SubSeq(list, 1, 0) = <<>>
      BY SubSeqEmpty
    <3>. QED
      BY <1>3, <3>1, <3>2
  <2>2. CASE Prefix(pages, list, limit)
    BY <1>3, <2>2 DEF Prefix
  <2>. QED
    BY <2>1, <2>2
<1>13. flattenInfiniteItems(more) = SubSeq(list, 1, off + Len(items))
  BY <1>5, <1>8, <1>12
<1>14. Len(Last(more).items) = Len(items) /\ Last(more).total = Len(list)
  BY <1>6, <1>11 DEF items
<1>15. Prefix(more, list, limit)
  BY <1>5, <1>9, <1>12, <1>13, <1>14 DEF Prefix
<1>. QED
  BY <1>15 DEF more

\* Such pages offer more exactly when the list has more.
LEMMA MoreToLoad ==
  ASSUME NEW S, NEW P, \A q \in P : q.items \in Seq(S), NEW pages \in Seq(P), pages # <<>>,
         NEW list \in Seq(S), NEW limit \in Nat \ {0}, Prefix(pages, list, limit)
  PROVE  hasNextPage(pages, limit) <=> Len(flattenInfiniteItems(pages)) < Len(list)
<1> DEFINE shown == flattenInfiniteItems(pages)
<1>2. shown \in Seq(S) /\ Len(shown) \in Nat /\ Len(list) \in Nat
  BY FlattenType, LenProperties
<1>3. Last(pages) \in P
  <2>1. Len(pages) \in 1 .. Len(pages)
    BY EmptySeq
  <2>. QED
    BY <2>1, ElementOfSeq DEF Last
<1>4. Len(Last(pages).items) \in Nat
      /\ (Last(pages).items = <<>> => Len(Last(pages).items) = 0)
  BY <1>3, LenProperties, EmptySeq
<1>5. Len(shown) < Len(list) => hasNextPage(pages, limit)
  BY <1>2, <1>4 DEF Prefix, hasNextPage, loadedCount
<1>6. hasNextPage(pages, limit) => Len(shown) < Len(list)
  BY DEF Prefix, hasNextPage, loadedCount
<1>. QED
  BY <1>5, <1>6

=============================================================================
