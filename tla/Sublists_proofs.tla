--------------------------- MODULE Sublists_proofs ---------------------------
(***************************************************************************)
(* What is kept of a list, and in which order.  Induction over a list is   *)
(* an argument about the least length at which something fails.            *)
(***************************************************************************)
EXTENDS Sublists, SequenceTheorems, FiniteSetTheorems, WellFoundedInduction, TLAPS

\* Every nonempty set of natural numbers has a least element.
LEMMA Least ==
  ASSUME NEW T, T \subseteq Nat, T # {}
  PROVE  \E m \in T : \A n \in T : m <= n
<1>1. PICK m \in T : \A n \in T : <<n, m>> \notin OpToRel(<, Nat)
  BY NatLessThanWellFounded, WFMin
<1>2. \A n \in T : ~(n < m)
  BY <1>1 DEF OpToRel
<1> QED
  BY <1>2

\* The recursion of Only has its function: kept[i] is what the first i elements leave.
KeptOf(list, keep, n, kept) ==
  kept = [i \in 0 .. n |->
            IF i = 0 THEN <<>>
            ELSE IF list[i] \in keep THEN Append(kept[i - 1], list[i]) ELSE kept[i - 1]]

LEMMA KeptExists ==
  ASSUME NEW list, NEW keep, NEW n \in Nat
  PROVE  \E kept : KeptOf(list, keep, n, kept)
<1> DEFINE T == {m \in Nat : ~\E kept : KeptOf(list, keep, m, kept)}
<1> SUFFICES ASSUME T # {} PROVE FALSE
  OBVIOUS
<1>1. PICK m \in T : \A k \in T : m <= k
  BY Least
<1>2. CASE m = 0
  <2> DEFINE k == [i \in 0 .. 0 |-> <<>>]
  <2>1. KeptOf(list, keep, 0, k)
    BY DEF KeptOf
  <2> QED
    BY <1>2, <2>1
<1>3. CASE m # 0
  <2>1. m - 1 \in Nat /\ m - 1 \notin T
    BY <1>1, <1>3
  <2>2. PICK f : KeptOf(list, keep, m - 1, f)
    BY <2>1
  <2> DEFINE g == [i \in 0 .. m |->
                     IF i < m THEN f[i]
                     ELSE IF list[m] \in keep THEN Append(f[m - 1], list[m]) ELSE f[m - 1]]
  <2>3. \A i \in 0 .. m - 1 :
          f[i] = IF i = 0 THEN <<>>
                 ELSE IF list[i] \in keep THEN Append(f[i - 1], list[i]) ELSE f[i - 1]
    BY <2>2 DEF KeptOf
  <2>4. \A i \in 0 .. m :
          g[i] = IF i = 0 THEN <<>>
                 ELSE IF list[i] \in keep THEN Append(g[i - 1], list[i]) ELSE g[i - 1]
    BY <1>3, <2>1, <2>3
  <2>5. KeptOf(list, keep, m, g)
    BY <2>4 DEF KeptOf
  <2> QED
    BY <1>1, <2>5
<1> QED
  BY <1>2, <1>3

LEMMA OnlyIsKept ==
  ASSUME NEW S, NEW list \in Seq(S), NEW keep
  PROVE  \E kept : KeptOf(list, keep, Len(list), kept) /\ Only(list, keep) = kept[Len(list)]
<1> DEFINE f == CHOOSE kept : KeptOf(list, keep, Len(list), kept)
<1>1. KeptOf(list, keep, Len(list), f)
  BY KeptExists, LenProperties
<1>2. Only(list, keep) = f[Len(list)]
  BY DEF Only, KeptOf
<1> QED
  BY <1>1, <1>2

-----------------------------------------------------------------------------
\* p says where the elements of part come from: in their order, each of the first n
\* elements of list that is in keep, and no other.
Picks(p, part, list, keep, n) ==
  /\ p \in [1 .. Len(part) -> 1 .. n]
  /\ \A j, k \in 1 .. Len(part) : j < k => p[j] < p[k]
  /\ \A j \in 1 .. Len(part) : part[j] = list[p[j]]
  /\ \A i \in 1 .. n : list[i] \in keep <=> \E j \in 1 .. Len(part) : p[j] = i

\* One element more.
LEMMA PicksNext ==
  ASSUME NEW S, NEW list \in Seq(S), NEW keep, NEW n \in Nat, n + 1 <= Len(list),
         NEW part \in Seq(S \cap keep), NEW p, Picks(p, part, list, keep, n),
         NEW next, next = IF list[n + 1] \in keep THEN Append(part, list[n + 1]) ELSE part
  PROVE  next \in Seq(S \cap keep) /\ \E q : Picks(q, next, list, keep, n + 1)
<1>1. list[n + 1] \in S /\ Len(part) \in Nat /\ Len(list) \in Nat
  BY ElementOfSeq, LenProperties
<1>2. CASE list[n + 1] \notin keep
  <2>1. Picks(p, part, list, keep, n + 1)
    <3>1. p \in [1 .. Len(part) -> 1 .. n + 1]
      BY <1>1 DEF Picks
    <3>2. ASSUME NEW i \in 1 .. n + 1
          PROVE  list[i] \in keep <=> \E j \in 1 .. Len(part) : p[j] = i
      <4>1. CASE i = n + 1
        BY <1>1, <1>2, <4>1 DEF Picks
      <4>2. CASE i \in 1 .. n
        BY <4>2 DEF Picks
      <4> QED
        BY <4>1, <4>2
    <3> QED
      BY <3>1, <3>2 DEF Picks
  <2> QED
    BY <1>2, <2>1
<1>3. CASE list[n + 1] \in keep
  <2> DEFINE q == [j \in 1 .. Len(part) + 1 |-> IF j = Len(part) + 1 THEN n + 1 ELSE p[j]]
  <2>1. /\ next = Append(part, list[n + 1]) /\ next \in Seq(S \cap keep)
        /\ Len(next) = Len(part) + 1 /\ next[Len(part) + 1] = list[n + 1]
        /\ \A j \in 1 .. Len(part) : next[j] = part[j]
    BY <1>1, <1>3, AppendProperties
  <2>2. /\ q \in [1 .. Len(part) + 1 -> 1 .. n + 1]
        /\ q[Len(part) + 1] = n + 1 /\ \A j \in 1 .. Len(part) : q[j] = p[j]
    BY <1>1 DEF Picks
  <2> HIDE DEF q
  <2>3. \A j, k \in 1 .. Len(part) + 1 : j < k => q[j] < q[k]
    <3> SUFFICES ASSUME NEW j \in 1 .. Len(part) + 1, NEW k \in 1 .. Len(part) + 1, j < k
                 PROVE  q[j] < q[k]
      OBVIOUS
    <3>1. j \in 1 .. Len(part) /\ p[j] \in 1 .. n
      BY <1>1 DEF Picks
    <3>2. CASE k = Len(part) + 1
      BY <2>2, <3>1, <3>2
    <3>3. CASE k \in 1 .. Len(part)
      BY <2>2, <3>1, <3>3 DEF Picks
    <3> QED
      BY <1>1, <3>2, <3>3
  <2>4. \A j \in 1 .. Len(part) + 1 : next[j] = list[q[j]]
    <3>1. \A j \in 1 .. Len(part) : next[j] = list[q[j]]
      BY <2>1, <2>2 DEF Picks
    <3> QED
      BY <1>1, <2>1, <2>2, <3>1
  <2>5. ASSUME NEW i \in 1 .. n + 1
        PROVE  list[i] \in keep <=> \E j \in 1 .. Len(part) + 1 : q[j] = i
    <3>1. CASE i = n + 1
      BY <1>1, <1>3, <2>2, <3>1
    <3>2. CASE i \in 1 .. n
      <4>1. list[i] \in keep <=> \E j \in 1 .. Len(part) : p[j] = i
        BY <3>2 DEF Picks
      <4>2. q[Len(part) + 1] # i
        BY <2>2, <3>2
      <4>3. \A j \in 1 .. Len(part) + 1 : j = Len(part) + 1 \/ j \in 1 .. Len(part)
        BY <1>1
      <4>4. \A j \in 1 .. Len(part) : j \in 1 .. Len(part) + 1
        BY <1>1
      <4> QED
        BY <2>2, <4>1, <4>2, <4>3, <4>4
    <3> QED
      BY <3>1, <3>2
  <2>6. Picks(q, next, list, keep, n + 1)
    BY <2>1, <2>2, <2>3, <2>4, <2>5 DEF Picks
  <2> QED
    BY <2>1, <2>6
<1> QED
  BY <1>2, <1>3

\* What Only keeps, and where it comes from.
THEOREM OnlyPicks ==
  ASSUME NEW S, NEW list \in Seq(S), NEW keep
  PROVE  /\ Only(list, keep) \in Seq(S \cap keep)
         /\ \E p : Picks(p, Only(list, keep), list, keep, Len(list))
<1>0. Len(list) \in Nat
  BY LenProperties
<1>1. PICK kept : KeptOf(list, keep, Len(list), kept) /\ Only(list, keep) = kept[Len(list)]
  BY OnlyIsKept
<1>2. \A i \in 0 .. Len(list) :
        kept[i] = IF i = 0 THEN <<>>
                  ELSE IF list[i] \in keep THEN Append(kept[i - 1], list[i]) ELSE kept[i - 1]
  BY <1>1 DEF KeptOf
<1> DEFINE Fits(n) == kept[n] \in Seq(S \cap keep) /\ \E p : Picks(p, kept[n], list, keep, n)
           T == {n \in 0 .. Len(list) : ~Fits(n)}
<1>3. SUFFICES T = {}
  BY <1>0, <1>1, <1>3
<1>4. SUFFICES ASSUME T # {} PROVE FALSE
  OBVIOUS
<1>t. T \subseteq Nat
  BY <1>0
<1>5. PICK n \in T : \A m \in T : n <= m
  <2> HIDE DEF T
  <2> QED
    BY <1>t, <1>4, Least
<1>6. CASE n = 0
  <2>1. kept[0] = <<>>
    BY <1>0, <1>2
  <2>2. Picks(<<>>, <<>>, list, keep, 0) /\ <<>> \in Seq(S \cap keep)
    BY DEF Picks
  <2> QED
    BY <1>5, <1>6, <2>1, <2>2
<1>7. CASE n # 0
  <2>1. n - 1 \in 0 .. Len(list) /\ n - 1 \notin T /\ n = (n - 1) + 1 /\ n <= Len(list)
    BY <1>0, <1>5, <1>7
  <2>2. kept[n - 1] \in Seq(S \cap keep)
    BY <2>1
  <2>3. PICK p : Picks(p, kept[n - 1], list, keep, n - 1)
    BY <2>1
  <2>4. kept[n] = IF list[n] \in keep THEN Append(kept[n - 1], list[n]) ELSE kept[n - 1]
    BY <1>2, <1>5, <1>7
  <2> HIDE DEF T
  <2>5. Fits(n)
    <3> DEFINE m == n - 1
    <3>1. /\ m \in Nat /\ m + 1 = n /\ m + 1 <= Len(list)
          /\ kept[m] \in Seq(S \cap keep) /\ Picks(p, kept[m], list, keep, m)
          /\ kept[n] = IF list[m + 1] \in keep THEN Append(kept[m], list[m + 1]) ELSE kept[m]
      BY <2>1, <2>2, <2>3, <2>4
    <3> HIDE DEF m
    <3>2. /\ kept[n] \in Seq(S \cap keep)
          /\ \E q : Picks(q, kept[n], list, keep, m + 1)
      BY <3>1, PicksNext
    <3> QED
      BY <3>1, <3>2
  <2> QED
    BY <1>5, <2>5 DEF T
<1> QED
  BY <1>6, <1>7

\* The elements that are kept.
THEOREM OnlyElements ==
  ASSUME NEW S, NEW list \in Seq(S), NEW keep
  PROVE  Elements(Only(list, keep)) = Elements(list) \cap keep
<1> DEFINE part == Only(list, keep)
<1>1. part \in Seq(S \cap keep)
  BY OnlyPicks
<1>2. PICK p : Picks(p, part, list, keep, Len(list))
  BY OnlyPicks
<1>3. DOMAIN part = 1 .. Len(part) /\ DOMAIN list = 1 .. Len(list)
  BY <1>1, LenProperties
<1> HIDE DEF part
<1>4. \A j \in 1 .. Len(part) : part[j] \in keep /\ p[j] \in 1 .. Len(list) /\ part[j] = list[p[j]]
  BY <1>1, <1>2, ElementOfSeq DEF Picks
<1>5. \A i \in 1 .. Len(list) : list[i] \in keep => \E j \in 1 .. Len(part) : part[j] = list[i]
  BY <1>2 DEF Picks
<1>6. Elements(part) = Elements(list) \cap keep
  BY <1>3, <1>4, <1>5 DEF Elements
<1> QED
  BY <1>6 DEF part

\* Every pair of an element and a later one is in the order.
SortedBy(list, order) ==
  \A i, j \in DOMAIN list : i < j => <<list[i], list[j]>> \in order

\* What is kept of a sorted list is sorted.
THEOREM OnlySorted ==
  ASSUME NEW S, NEW list \in Seq(S), NEW keep, NEW order, SortedBy(list, order)
  PROVE  SortedBy(Only(list, keep), order)
<1> DEFINE part == Only(list, keep)
<1>1. part \in Seq(S \cap keep)
  BY OnlyPicks
<1>2. PICK p : Picks(p, part, list, keep, Len(list))
  BY OnlyPicks
<1>3. DOMAIN part = 1 .. Len(part) /\ DOMAIN list = 1 .. Len(list)
  BY <1>1, LenProperties
<1> HIDE DEF part
<1>4. SortedBy(part, order)
  BY <1>2, <1>3 DEF Picks, SortedBy
<1> QED
  BY <1>4 DEF part

\* Lists one after the other.
THEOREM Concatenated ==
  ASSUME NEW S, NEW s \in Seq(S), NEW t \in Seq(S)
  PROVE  s \o t \in Seq(S) /\ Elements(s \o t) = Elements(s) \cup Elements(t)
<1>1. /\ s \o t \in Seq(S) /\ Len(s \o t) = Len(s) + Len(t)
      /\ \A i \in 1 .. Len(s) + Len(t) :
           (s \o t)[i] = IF i <= Len(s) THEN s[i] ELSE t[i - Len(s)]
  BY ConcatProperties
<1>2. /\ DOMAIN s = 1 .. Len(s) /\ DOMAIN t = 1 .. Len(t) /\ DOMAIN (s \o t) = 1 .. Len(s \o t)
      /\ Len(s) \in Nat /\ Len(t) \in Nat
  BY <1>1, LenProperties
<1>3. PICK u : u = s \o t
  OBVIOUS
<1>4. Elements(u) \subseteq Elements(s) \cup Elements(t)
  <2> SUFFICES ASSUME NEW i \in DOMAIN u PROVE u[i] \in Elements(s) \cup Elements(t)
    BY DEF Elements
  <2>1. CASE i <= Len(s)
    BY <1>1, <1>2, <1>3, <2>1 DEF Elements
  <2>2. CASE ~(i <= Len(s))
    <3>1. i - Len(s) \in DOMAIN t /\ u[i] = t[i - Len(s)]
      BY <1>1, <1>2, <1>3, <2>2
    <3> QED
      BY <3>1 DEF Elements
  <2> QED
    BY <2>1, <2>2
<1>5. Elements(s) \subseteq Elements(u)
  <2> SUFFICES ASSUME NEW i \in DOMAIN s PROVE s[i] \in Elements(u)
    BY DEF Elements
  <2>1. i \in DOMAIN u /\ u[i] = s[i]
    BY <1>1, <1>2, <1>3
  <2> QED
    BY <2>1 DEF Elements
<1>6. Elements(t) \subseteq Elements(u)
  <2> SUFFICES ASSUME NEW i \in DOMAIN t PROVE t[i] \in Elements(u)
    BY DEF Elements
  <2>1. i + Len(s) \in DOMAIN u /\ u[i + Len(s)] = t[i]
    BY <1>1, <1>2, <1>3
  <2> QED
    BY <2>1 DEF Elements
<1> QED
  BY <1>1, <1>3, <1>4, <1>5, <1>6

\* Two sorted lists of which the second follows the first are one sorted list.
THEOREM ConcatenatedSorted ==
  ASSUME NEW S, NEW s \in Seq(S), NEW t \in Seq(S), NEW order,
         SortedBy(s, order), SortedBy(t, order),
         \A x \in Elements(s), y \in Elements(t) : <<x, y>> \in order
  PROVE  SortedBy(s \o t, order)
<1>1. /\ Len(s \o t) = Len(s) + Len(t) /\ s \o t \in Seq(S)
      /\ \A i \in 1 .. Len(s) + Len(t) :
           (s \o t)[i] = IF i <= Len(s) THEN s[i] ELSE t[i - Len(s)]
  BY ConcatProperties
<1>2. /\ DOMAIN s = 1 .. Len(s) /\ DOMAIN t = 1 .. Len(t) /\ DOMAIN (s \o t) = 1 .. Len(s \o t)
      /\ Len(s) \in Nat /\ Len(t) \in Nat
  BY <1>1, LenProperties
<1>3. PICK u : u = s \o t
  OBVIOUS
<1>4. ASSUME NEW i \in DOMAIN u, NEW j \in DOMAIN u, i < j
      PROVE  <<u[i], u[j]>> \in order
  <2>1. CASE j <= Len(s)
    <3>1. i \in DOMAIN s /\ j \in DOMAIN s /\ u[i] = s[i] /\ u[j] = s[j]
      BY <1>1, <1>2, <1>3, <1>4, <2>1
    <3> QED
      BY <1>4, <3>1 DEF SortedBy
  <2>2. CASE i <= Len(s) /\ ~(j <= Len(s))
    <3>1. i \in DOMAIN s /\ j - Len(s) \in DOMAIN t /\ u[i] = s[i] /\ u[j] = t[j - Len(s)]
      BY <1>1, <1>2, <1>3, <1>4, <2>2
    <3> QED
      BY <3>1 DEF Elements
  <2>3. CASE ~(i <= Len(s))
    <3>1. /\ i - Len(s) \in DOMAIN t /\ j - Len(s) \in DOMAIN t
          /\ u[i] = t[i - Len(s)] /\ u[j] = t[j - Len(s)] /\ i - Len(s) < j - Len(s)
      BY <1>1, <1>2, <1>3, <1>4, <2>3
    <3> QED
      BY <3>1 DEF SortedBy
  <2> QED
    BY <1>1, <1>2, <1>3, <2>1, <2>2, <2>3
<1> QED
  BY <1>3, <1>4 DEF SortedBy

\* The first element of a sorted list comes before the others.
THEOREM FirstOfSorted ==
  ASSUME NEW S, NEW list \in Seq(S), list # <<>>, NEW order, SortedBy(list, order)
  PROVE  /\ 1 \in DOMAIN list /\ list[1] \in Elements(list)
         /\ \A x \in Elements(list) : x = list[1] \/ <<list[1], x>> \in order
<1>1. 1 \in DOMAIN list /\ DOMAIN list \subseteq Nat \ {0}
  BY EmptySeq, LenProperties
<1> QED
  BY <1>1 DEF SortedBy, Elements

-----------------------------------------------------------------------------
(* Lists of numbers.                                                       *)

\* A bounded set of natural numbers that is not empty has a greatest element.
LEMMA Greatest ==
  ASSUME NEW T, T \subseteq Nat, T # {}, NEW b \in Nat, \A x \in T : x <= b
  PROVE  \E m \in T : \A x \in T : x <= m
<1> DEFINE U == {u \in Nat : \A x \in T : x <= u}
<1>1. U \subseteq Nat /\ b \in U
  OBVIOUS
<1>2. PICK u \in U : \A v \in U : u <= v
  <2> HIDE DEF U
  <2> QED
    BY <1>1, Least
<1>3. u \in T
  <2> SUFFICES ASSUME u \notin T PROVE FALSE
    OBVIOUS
  <2>1. \A x \in T : x \in Nat /\ x < u
    BY <1>2
  <2>0. PICK x \in T : TRUE
    OBVIOUS
  <2>2. u - 1 \in Nat /\ \A y \in T : y <= u - 1
    <3>1. u \in Nat
      BY <1>2
    <3>2. u - 1 \in Nat
      BY <2>0, <2>1, <3>1
    <3> QED
      BY <2>1, <3>1, <3>2
  <2> QED
    BY <1>2, <2>2
<1> QED
  BY <1>2, <1>3

\* A finite set of natural numbers has a bound.
LEMMA FiniteBounded ==
  ASSUME NEW T, T \subseteq Nat, IsFiniteSet(T)
  PROVE  \E b \in Nat : \A x \in T : x <= b
<1>1. PICK n \in Nat : ExistsSurjection(1 .. n, T)
  BY FS_NatSurjection
<1>2. PICK f \in [1 .. n -> T] : \A x \in T : \E i \in 1 .. n : f[i] = x
  BY <1>1 DEF ExistsSurjection, Surjection
<1> DEFINE Bounded(m) == \E b \in Nat : \A i \in 1 .. m : f[i] <= b
           U == {m \in 0 .. n : ~Bounded(m)}
<1>3. SUFFICES U = {}
  <2>1. n \in 0 .. n
    OBVIOUS
  <2>2. Bounded(n)
    BY <1>3, <2>1
  <2> QED
    BY <1>2, <2>2
<1>4. SUFFICES ASSUME U # {} PROVE FALSE
  OBVIOUS
<1>5. PICK m \in U : \A k \in U : m <= k
  <2>1. U \subseteq Nat
    OBVIOUS
  <2> HIDE DEF U
  <2> QED
    BY <1>4, <2>1, Least
<1>6. m # 0
  <2>1. \A i \in 1 .. 0 : f[i] <= 0
    OBVIOUS
  <2> QED
    BY <1>5, <2>1
<1>m. m \in 1 .. n /\ m \in Nat
  BY <1>5, <1>6
<1>7. m - 1 \in 0 .. n /\ m - 1 \notin U
  <2>1. m - 1 \in 0 .. n /\ ~(m <= m - 1)
    BY <1>m
  <2> HIDE DEF U
  <2> QED
    BY <1>5, <2>1
<1>8. PICK b \in Nat : \A i \in 1 .. m - 1 : f[i] <= b
  BY <1>7
<1>9. f[m] \in Nat
  BY <1>2, <1>m
<1>10. \A i \in 1 .. m : f[i] \in Nat /\ f[i] <= b + f[m]
  <2> SUFFICES ASSUME NEW i \in 1 .. m PROVE f[i] \in Nat /\ f[i] <= b + f[m]
    OBVIOUS
  <2>1. f[i] \in Nat
    <3>1. i \in 1 .. n
      BY <1>m
    <3> QED
      BY <1>2, <3>1
  <2>2. CASE i = m
    BY <1>9, <2>2
  <2>3. CASE i \in 1 .. m - 1
    BY <1>8, <1>9, <2>1, <2>3
  <2> QED
    BY <1>m, <2>1, <2>2, <2>3
<1> QED
  BY <1>5, <1>8, <1>9, <1>10

\* One number before a larger one.
Before == {pair \in Nat \X Nat : pair[1] < pair[2]}

\* The numbers of a set in ascending order are one list.
THEOREM AscendingUnique ==
  ASSUME NEW s \in Seq(Nat), NEW t \in Seq(Nat), SortedBy(s, Before), SortedBy(t, Before),
         Elements(s) = Elements(t)
  PROVE  s = t
<1>0. /\ DOMAIN s = 1 .. Len(s) /\ DOMAIN t = 1 .. Len(t)
      /\ Len(s) \in Nat /\ Len(t) \in Nat
      /\ \A i \in DOMAIN s : s[i] \in Nat
      /\ \A i \in DOMAIN t : t[i] \in Nat
  BY LenProperties, ElementOfSeq
<1>1. /\ \A i, j \in DOMAIN s : i < j => s[i] < s[j]
      /\ \A i, j \in DOMAIN t : i < j => t[i] < t[j]
  BY DEF SortedBy, Before
<1>2. /\ \A i \in DOMAIN s : \E j \in DOMAIN t : t[j] = s[i]
      /\ \A i \in DOMAIN t : \E j \in DOMAIN s : s[j] = t[i]
  BY DEF Elements
<1> DEFINE T == {i \in DOMAIN s \cup DOMAIN t :
                   ~(i \in DOMAIN s /\ i \in DOMAIN t /\ s[i] = t[i])}
<1>3. T = {}
  <2> SUFFICES ASSUME T # {} PROVE FALSE
    OBVIOUS
  <2>1. T \subseteq Nat
    BY <1>0
  <2>2. PICK i \in T : \A j \in T : i <= j
    <3> HIDE DEF T
    <3> QED
      BY <2>1, Least
  <2>3. /\ i \in Nat \ {0}
        /\ \A j \in 1 .. i - 1 : j \in DOMAIN s \cup DOMAIN t
                                   => j \in DOMAIN s /\ j \in DOMAIN t /\ s[j] = t[j]
    <3>1. i \in Nat \ {0}
      BY <1>0, <2>2
    <3>2. ASSUME NEW j \in 1 .. i - 1, j \in DOMAIN s \cup DOMAIN t
          PROVE  j \in DOMAIN s /\ j \in DOMAIN t /\ s[j] = t[j]
      <4>1. ~(i <= j)
        BY <3>1
      <4> QED
        BY <2>2, <3>2, <4>1
    <3> QED
      BY <3>1, <3>2
  <2>4. CASE i \in DOMAIN s
    <3>1. PICK k \in DOMAIN t : t[k] = s[i]
      BY <1>2, <2>4
    <3>2. ~(k < i)
      <4> SUFFICES ASSUME k < i PROVE FALSE
        OBVIOUS
      <4>1. k \in 1 .. i - 1 /\ k \in DOMAIN s /\ s[k] = t[k]
        <5>1. k \in 1 .. i - 1
          BY <1>0, <2>3
        <5> QED
          BY <2>3, <5>1
      <4> QED
        BY <1>0, <1>1, <2>4, <3>1, <4>1
    <3>3. i \in DOMAIN t /\ t[i] <= s[i]
      <4>1. k \in Nat /\ i <= k /\ i \in DOMAIN t
        BY <1>0, <2>3, <3>2
      <4>2. t[i] \in Nat /\ t[k] \in Nat
        BY <1>0, <4>1
      <4>3. CASE i = k
        BY <3>1, <4>1, <4>2, <4>3
      <4>4. CASE i < k
        BY <1>1, <3>1, <4>1, <4>2, <4>4
      <4> QED
        BY <2>3, <4>1, <4>3, <4>4
    <3>4. PICK l \in DOMAIN s : s[l] = t[i]
      BY <1>2, <3>3
    <3>5. ~(l < i)
      <4> SUFFICES ASSUME l < i PROVE FALSE
        OBVIOUS
      <4>1. l \in 1 .. i - 1 /\ l \in DOMAIN t /\ s[l] = t[l]
        <5>1. l \in 1 .. i - 1
          BY <1>0, <2>3
        <5> QED
          BY <2>3, <5>1
      <4> QED
        <5>1. t[l] < t[i] /\ t[l] \in Nat /\ t[i] \in Nat
          BY <1>0, <1>1, <3>3, <4>1
        <5> QED
          BY <3>4, <4>1, <5>1
    <3>6. s[i] <= t[i]
      <4>1. l \in Nat /\ i <= l
        BY <1>0, <2>3, <3>5
      <4>2. s[i] \in Nat /\ s[l] \in Nat
        BY <1>0, <2>4
      <4>3. CASE i = l
        BY <3>4, <4>1, <4>2, <4>3
      <4>4. CASE i < l
        BY <1>1, <2>4, <3>4, <4>1, <4>2, <4>4
      <4> QED
        BY <2>3, <4>1, <4>3, <4>4
    <3> QED
      BY <1>0, <2>2, <2>4, <3>3, <3>6
  <2>5. CASE i \in DOMAIN t /\ i \notin DOMAIN s
    <3>1. PICK l \in DOMAIN s : s[l] = t[i]
      BY <1>2, <2>5
    <3>2. l < i
      BY <1>0, <2>3, <2>5
    <3>3. l \in 1 .. i - 1
      BY <1>0, <2>3, <3>2
    <3>4. l \in DOMAIN t /\ s[l] = t[l]
      BY <2>3, <3>3
    <3>5. t[l] < t[i] /\ t[l] \in Nat /\ t[i] \in Nat
      BY <1>0, <1>1, <2>5, <3>2, <3>4
    <3> QED
      BY <3>1, <3>4, <3>5
  <2> QED
    BY <2>2, <2>4, <2>5
<1>4. DOMAIN s = DOMAIN t /\ \A i \in DOMAIN s : s[i] = t[i]
  BY <1>3
<1>5. Len(s) = Len(t)
  <2>1. 1 .. Len(s) = 1 .. Len(t)
    BY <1>0, <1>4
  <2>2. CASE Len(s) < Len(t)
    <3>1. Len(t) \in 1 .. Len(t) /\ Len(t) \notin 1 .. Len(s)
      BY <1>0, <2>2
    <3> QED
      BY <2>1, <3>1
  <2>3. CASE Len(t) < Len(s)
    <3>1. Len(s) \in 1 .. Len(s) /\ Len(s) \notin 1 .. Len(t)
      BY <1>0, <2>3
    <3> QED
      BY <2>1, <3>1
  <2> QED
    <3>1. Len(s) \in Nat /\ Len(t) \in Nat
      BY <1>0
    <3> QED
      BY <2>2, <2>3, <3>1
<1> QED
  BY <1>0, <1>4, <1>5

\* An ascending list of numbers of D, each of which has a key.
Keyed(D, list, key) ==
  /\ D \subseteq Nat /\ list \in Seq(D) /\ SortedBy(list, Before)
  /\ \A r \in D : key[r] \in Nat

\* By a key, and those of one key in ascending order.
KeyOrder(D, key) ==
  {pair \in D \X D : \/ key[pair[1]] < key[pair[2]]
                     \/ key[pair[1]] = key[pair[2]] /\ pair[1] < pair[2]}

LEMMA InKeyOrder ==
  ASSUME NEW D, NEW list, NEW key, Keyed(D, list, key), NEW x \in D, NEW y \in D
  PROVE  <<x, y>> \in KeyOrder(D, key) <=> key[x] < key[y] \/ (key[x] = key[y] /\ x < y)
BY DEF KeyOrder, Keyed

\* The elements of an ascending list that have one key.
OfKey(D, list, key, k) == Only(list, {r \in D : key[r] = k})

LEMMA OneKey ==
  ASSUME NEW D, NEW list, NEW key, Keyed(D, list, key), NEW k \in Nat
  PROVE  /\ OfKey(D, list, key, k) \in Seq(D)
         /\ SortedBy(OfKey(D, list, key, k), KeyOrder(D, key))
         /\ Elements(OfKey(D, list, key, k)) \subseteq Elements(list)
         /\ \A r \in Elements(list) : r \in Elements(OfKey(D, list, key, k)) <=> key[r] = k
<1> DEFINE K == {r \in D : key[r] = k}
<1> USE DEF Keyed
<1>0. PICK part : part = OfKey(D, list, key, k)
  OBVIOUS
<1>1. part \in Seq(D \cap K) /\ SortedBy(part, Before)
  BY <1>0, OnlyPicks, OnlySorted DEF OfKey
<1>2. \A i \in DOMAIN part : part[i] \in D /\ key[part[i]] = k
  BY <1>1, ElementOfSeq
<1>3. part \in Seq(D)
  BY <1>1, <1>2, LenProperties
<1>4. Elements(list) \subseteq D
  BY ElementOfSeq DEF Elements
<1>5. Elements(part) = Elements(list) \cap K
  BY <1>0, OnlyElements DEF OfKey
<1>6. SortedBy(part, KeyOrder(D, key))
  <2> SUFFICES ASSUME NEW i \in DOMAIN part, NEW j \in DOMAIN part, i < j
               PROVE  <<part[i], part[j]>> \in KeyOrder(D, key)
    BY DEF SortedBy
  <2>1. part[i] < part[j]
    BY <1>1 DEF SortedBy, Before
  <2>2. part[i] \in D /\ part[j] \in D /\ key[part[i]] = key[part[j]]
    BY <1>2
  <2> QED
    BY <2>1, <2>2, InKeyOrder
<1> QED
  BY <1>0, <1>3, <1>4, <1>5, <1>6

\* s has the elements of list whose key is below k, by their key.
UpTo(D, list, key, k, s) ==
  /\ s \in Seq(D) /\ SortedBy(s, KeyOrder(D, key))
  /\ Elements(s) \subseteq Elements(list)
  /\ \A r \in Elements(list) : r \in Elements(s) <=> key[r] < k

\* One key after the other sorts an ascending list by the key.
LEMMA KeysJoined ==
  ASSUME NEW D, NEW list, NEW key, Keyed(D, list, key), NEW k \in Nat,
         NEW s, UpTo(D, list, key, k, s)
  PROVE  UpTo(D, list, key, k + 1, s \o OfKey(D, list, key, k))
<1>0. PICK t : t = OfKey(D, list, key, k)
  OBVIOUS
<1>1. Elements(list) \subseteq D /\ \A r \in Elements(list) : key[r] \in Nat
  BY ElementOfSeq DEF Elements, Keyed
<1>2. /\ t \in Seq(D) /\ SortedBy(t, KeyOrder(D, key)) /\ Elements(t) \subseteq Elements(list)
      /\ \A r \in Elements(list) : r \in Elements(t) <=> key[r] = k
  <2>1. /\ OfKey(D, list, key, k) \in Seq(D)
        /\ SortedBy(OfKey(D, list, key, k), KeyOrder(D, key))
        /\ Elements(OfKey(D, list, key, k)) \subseteq Elements(list)
        /\ \A r \in Elements(list) : r \in Elements(OfKey(D, list, key, k)) <=> key[r] = k
    BY OneKey
  <2> QED
    BY <1>0, <2>1
<1>3. /\ s \in Seq(D) /\ SortedBy(s, KeyOrder(D, key)) /\ Elements(s) \subseteq Elements(list)
      /\ \A r \in Elements(list) : r \in Elements(s) <=> key[r] < k
  BY DEF UpTo
<1>4. \A x \in Elements(s), y \in Elements(t) : <<x, y>> \in KeyOrder(D, key)
  <2> SUFFICES ASSUME NEW x \in Elements(s), NEW y \in Elements(t)
               PROVE  <<x, y>> \in KeyOrder(D, key)
    OBVIOUS
  <2>1. x \in D /\ y \in D /\ key[x] < k /\ key[y] = k
    BY <1>1, <1>2, <1>3
  <2> QED
    BY <2>1, InKeyOrder
<1>5. /\ s \o t \in Seq(D) /\ SortedBy(s \o t, KeyOrder(D, key))
      /\ Elements(s \o t) = Elements(s) \cup Elements(t)
  BY <1>2, <1>3, <1>4, Concatenated, ConcatenatedSorted
<1>6. ASSUME NEW r \in Elements(list)
      PROVE  r \in Elements(s \o t) <=> key[r] < k + 1
  <2>1. key[r] \in Nat
    BY <1>1
  <2>2. key[r] < k + 1 <=> key[r] < k \/ key[r] = k
    BY <2>1
  <2> QED
    BY <1>2, <1>3, <1>5, <2>2
<1> QED
  BY <1>0, <1>2, <1>3, <1>5, <1>6 DEF UpTo

\* The elements with key 0, then those with key 1 and so on, as sorted() leaves them: a
\* list sorted by the key, and by the old order where the keys are equal.
THEOREM SortedByKey ==
  ASSUME NEW D, NEW list, NEW key, Keyed(D, list, key)
  PROVE  LET three == OfKey(D, list, key, 0) \o OfKey(D, list, key, 1) \o OfKey(D, list, key, 2)
         IN  /\ UpTo(D, list, key, 3, three)
             /\ UpTo(D, list, key, 4, three \o OfKey(D, list, key, 3))
<1>1. UpTo(D, list, key, 1, OfKey(D, list, key, 0))
  <2>0. 0 \in Nat
    OBVIOUS
  <2>1. PICK p : p = OfKey(D, list, key, 0)
    OBVIOUS
  <2>2. /\ p \in Seq(D) /\ SortedBy(p, KeyOrder(D, key)) /\ Elements(p) \subseteq Elements(list)
        /\ \A r \in Elements(list) : r \in Elements(p) <=> key[r] = 0
    <3>1. /\ OfKey(D, list, key, 0) \in Seq(D)
          /\ SortedBy(OfKey(D, list, key, 0), KeyOrder(D, key))
          /\ Elements(OfKey(D, list, key, 0)) \subseteq Elements(list)
          /\ \A r \in Elements(list) : r \in Elements(OfKey(D, list, key, 0)) <=> key[r] = 0
      BY <2>0, OneKey
    <3> QED
      BY <2>1, <3>1
  <2>3. ASSUME NEW r \in Elements(list)
        PROVE  key[r] < 1 <=> key[r] = 0
    <3>1. key[r] \in Nat
      <4>1. list \in Seq(D) /\ \A x \in D : key[x] \in Nat
        BY DEF Keyed
      <4>2. r \in D
        BY <4>1, ElementOfSeq DEF Elements
      <4> QED
        BY <4>1, <4>2
    <3> QED
      BY <3>1
  <2> QED
    BY <2>1, <2>2, <2>3 DEF UpTo
<1>2. ASSUME NEW k \in Nat, NEW s, UpTo(D, list, key, k, s)
      PROVE  UpTo(D, list, key, k + 1, s \o OfKey(D, list, key, k))
  BY <1>2, KeysJoined
<1>3. UpTo(D, list, key, 2, OfKey(D, list, key, 0) \o OfKey(D, list, key, 1))
  <2>1. 1 \in Nat /\ 1 + 1 = 2
    OBVIOUS
  <2> QED
    BY <1>1, <1>2, <2>1
<1>4. UpTo(D, list, key, 3,
           OfKey(D, list, key, 0) \o OfKey(D, list, key, 1) \o OfKey(D, list, key, 2))
  <2>1. 2 \in Nat /\ 2 + 1 = 3
    OBVIOUS
  <2> QED
    BY <1>2, <1>3, <2>1
<1>5. UpTo(D, list, key, 4,
           OfKey(D, list, key, 0) \o OfKey(D, list, key, 1) \o OfKey(D, list, key, 2)
             \o OfKey(D, list, key, 3))
  <2>1. 3 \in Nat /\ 3 + 1 = 4
    OBVIOUS
  <2> QED
    BY <1>2, <1>4, <2>1
<1> QED
  BY <1>4, <1>5
=============================================================================
