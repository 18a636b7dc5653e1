-------------------------- MODULE QueryResultProofs --------------------------
(***************************************************************************)
(* Proofs about the table of a query (QueryResult), for any number of      *)
(* types, features and rows: that SortFeature sorts the list of results    *)
(* and FindSorted finds what a sorted list has, that the list stays sorted *)
(* while rows are put into it, that each result goes from its feature to   *)
(* its ancestors, and that the table shows the rows the query asks for.    *)
(*                                                                         *)
(* The recursive definitions are functions. For each one there is a step,  *)
(* which says what it does with the values for smaller arguments; a lemma  *)
(* that some function is a fixed point of the step, by induction over the  *)
(* size of the argument; and by the same induction what its values are.    *)
(*                                                                         *)
(* For the rows that are shown, the list is compared with Taken, the rows  *)
(* read so far that met the conditions: of each feature the list holds     *)
(* one of these, on the query's own type all of them, and of a parent the  *)
(* last (LoadInv). At the end they are what is asked for (TakenAll).       *)
(***************************************************************************)
EXTENDS QueryResult, WellFoundedInduction, SequenceTheorems, FiniteSetTheorems, TLAPS

\* Induction over the numbers, for a set: the least number outside it.
LEMMA Induct ==
    ASSUME NEW S, \A n \in Nat : (\A m \in Nat : m < n => m \in S) => n \in S
    PROVE  \A n \in Nat : n \in S
  <1> DEFINE D == Nat \ S
  <1> SUFFICES ASSUME D # {} PROVE FALSE
    OBVIOUS
  <1>1. PICK d \in D : \A e \in D : ~(<<e, d>> \in OpToRel(<, Nat))
    <2>1. IsWellFoundedOn(OpToRel(<, Nat), Nat)
      BY NatLessThanWellFounded, Zenon
    <2>2. D \subseteq Nat
      OBVIOUS
    <2> QED
      BY <2>1, <2>2, WFMin, Zenon
  <1>2. \A m \in Nat : m < d => m \in S
    BY <1>1 DEF OpToRel
  <1> QED
    BY <1>2

\* The least and the greatest of some numbers up to B
LEMMA MinIs ==
    ASSUME NEW B \in Nat, NEW S \in SUBSET (0..B), S # {}
    PROVE  Min(S) \in S /\ \A n \in S : Min(S) <= n
  <1> DEFINE T == {n \in Nat : n \notin S}
  <1>0. \A n \in S : n \in Nat
    OBVIOUS
  <1>1. \E m \in S : \A n \in S : m <= n
    <2> SUFFICES ASSUME \A m \in S : \E n \in S : ~(m <= n) PROVE FALSE
      OBVIOUS
    <2>1. \A n \in Nat : (\A m \in Nat : m < n => m \in T) => n \in T
      BY <1>0
    <2> HIDE DEF T
    <2>2. \A n \in Nat : n \in T
      BY <2>1, Induct
    <2> QED
      BY <1>0, <2>2 DEF T
  <1>2. Min(S) = CHOOSE m \in S : \A n \in S : m <= n
    BY DEF Min
  <1> QED
    BY <1>1, <1>2

LEMMA MaxIs ==
    ASSUME NEW B \in Nat, NEW S \in SUBSET (0..B), S # {}
    PROVE  Max(S) \in S /\ \A n \in S : n <= Max(S)
  <1> DEFINE T == {B - n : n \in S}
  <1>0. T \in SUBSET (0..B) /\ T # {}
    <2>1. \A n \in S : n \in Nat /\ n <= B
      OBVIOUS
    <2>2. \A n \in S : B - n \in 0..B
      BY <2>1
    <2> QED
      BY <2>2
  <1>1. Min(T) \in T /\ \A n \in T : Min(T) <= n
    <2> HIDE DEF T
    <2> QED
      BY <1>0, MinIs
  <1>2. PICK m \in S : Min(T) = B - m
    BY <1>1
  <1>3. \A n \in S : B - n \in T
    OBVIOUS
  <1>4. \A n \in S : m >= n
    <2> SUFFICES ASSUME NEW n \in S PROVE m >= n
      OBVIOUS
    <2>1. B - m <= B - n
      BY <1>1, <1>2, <1>3
    <2>2. m \in Nat /\ n \in Nat
      OBVIOUS
    <2> HIDE DEF T
    <2> QED
      BY <2>1, <2>2
  <1>5. Max(S) = CHOOSE x \in S : \A n \in S : x >= n
    BY DEF Max
  <1>6. Max(S) \in S /\ \A n \in S : Max(S) >= n
    BY <1>4, <1>5
  <1> QED
    BY <1>6

-----------------------------------------------------------------------------
\* The rearrangements of the places in D that move those from lo to hi only
Perms(D, lo, hi) ==
    {p \in [D -> D] : /\ \A j, k \in D : p[j] = p[k] => j = k
                      /\ \A k \in D : \E j \in D : p[j] = k
                      /\ \A j \in D : j \notin lo..hi => p[j] = j}

\* u is t with its elements from lo to hi rearranged.
Rearranged(u, t, lo, hi) ==
    /\ DOMAIN u = DOMAIN t
    /\ \E p \in Perms(DOMAIN t, lo, hi) : \A j \in DOMAIN t : u[j] = t[p[j]]

\* A list of results, by number
IsList(s) == /\ \E n \in Nat : DOMAIN s = 1..n
             /\ s = [j \in DOMAIN s |-> s[j]]
             /\ \A j \in DOMAIN s : s[j].active \in Int

LEMMA RearrangedSame ==
    ASSUME NEW t, NEW lo, NEW hi
    PROVE  Rearranged(t, t, lo, hi)
  <1> DEFINE p == [j \in DOMAIN t |-> j]
  <1>1. p \in Perms(DOMAIN t, lo, hi)
    BY DEF Perms
  <1>2. \A j \in DOMAIN t : t[j] = t[p[j]]
    OBVIOUS
  <1> HIDE DEF p
  <1> QED
    BY <1>1, <1>2 DEF Rearranged

LEMMA RearrangedSwap ==
    ASSUME NEW t, NEW lo, NEW hi, NEW a \in DOMAIN t, NEW b \in DOMAIN t,
           a \in lo..hi, b \in lo..hi, NEW u, DOMAIN u = DOMAIN t,
           u[a] = t[b], u[b] = t[a],
           \A j \in DOMAIN t \ {a, b} : u[j] = t[j]
    PROVE  Rearranged(u, t, lo, hi)
  <1> DEFINE p == [j \in DOMAIN t |-> IF j = a THEN b ELSE IF j = b THEN a ELSE j]
  <1>1. p \in Perms(DOMAIN t, lo, hi)
    BY DEF Perms
  <1>2. \A j \in DOMAIN t : u[j] = t[p[j]]
    OBVIOUS
  <1> HIDE DEF p
  <1> QED
    BY <1>1, <1>2 DEF Rearranged

LEMMA RearrangedTwice ==
    ASSUME NEW t, NEW u, NEW v, NEW lo, NEW hi,
           Rearranged(v, u, lo, hi), Rearranged(u, t, lo, hi)
    PROVE  Rearranged(v, t, lo, hi)
  <1> DEFINE D == DOMAIN t
  <1>1. DOMAIN u = D /\ DOMAIN v = D
    BY DEF Rearranged
  <1>2. PICK p \in Perms(D, lo, hi) : \A j \in D : u[j] = t[p[j]]
    BY DEF Rearranged
  <1>3. PICK q \in Perms(D, lo, hi) : \A j \in D : v[j] = u[q[j]]
    BY <1>1 DEF Rearranged
  <1> HIDE DEF D
  <1>4. /\ p \in [D -> D] /\ \A j, k \in D : p[j] = p[k] => j = k
        /\ \A k \in D : \E j \in D : p[j] = k
        /\ \A j \in D : j \notin lo..hi => p[j] = j
    BY <1>2 DEF Perms
  <1>5. /\ q \in [D -> D] /\ \A j, k \in D : q[j] = q[k] => j = k
        /\ \A k \in D : \E j \in D : q[j] = k
        /\ \A j \in D : j \notin lo..hi => q[j] = j
    BY <1>3 DEF Perms
  <1> DEFINE r == [j \in D |-> p[q[j]]]
  <1>6. r \in [D -> D] /\ \A j \in D : r[j] = p[q[j]]
    BY <1>4, <1>5
  <1> HIDE DEF r
  <1>7. \A k \in D : \E j \in D : r[j] = k
    BY <1>4, <1>5, <1>6
  <1>8. \A j, k \in D : r[j] = r[k] => j = k
    BY <1>4, <1>5, <1>6
  <1>9. \A j \in D : j \notin lo..hi => r[j] = j
    BY <1>4, <1>5, <1>6
  <1>10. r \in Perms(D, lo, hi)
    BY <1>6, <1>7, <1>8, <1>9 DEF Perms
  <1>11. \A j \in D : v[j] = t[r[j]]
    BY <1>2, <1>3, <1>5, <1>6
  <1> QED
    BY <1>1, <1>10, <1>11 DEF D, Rearranged

\* What is rearranged within a part is rearranged within the whole.
LEMMA RearrangedWider ==
    ASSUME NEW t, NEW u, NEW lo \in Int, NEW hi \in Int, NEW a \in Int, NEW b \in Int,
           Rearranged(u, t, a, b), lo <= a, b <= hi
    PROVE  Rearranged(u, t, lo, hi)
  <1>1. \A j : j \in a..b => j \in lo..hi
    OBVIOUS
  <1> QED
    BY <1>1 DEF Rearranged, Perms

\* Each element comes from the part, or is where it was.
LEMMA RearrangedFrom ==
    ASSUME NEW t, NEW u, NEW lo, NEW hi, Rearranged(u, t, lo, hi)
    PROVE  /\ DOMAIN u = DOMAIN t
           /\ \A j \in DOMAIN t : j \notin lo..hi => u[j] = t[j]
           /\ \A j \in DOMAIN t : j \in lo..hi =>
                 \E k \in DOMAIN t : k \in lo..hi /\ u[j] = t[k]
           /\ \A j \in DOMAIN t : \E k \in DOMAIN t : u[j] = t[k]
  <1>1. PICK p \in Perms(DOMAIN t, lo, hi) : \A j \in DOMAIN t : u[j] = t[p[j]]
    BY DEF Rearranged
  <1>2. /\ p \in [DOMAIN t -> DOMAIN t]
        /\ \A j, k \in DOMAIN t : p[j] = p[k] => j = k
        /\ \A j \in DOMAIN t : j \notin lo..hi => p[j] = j
    BY DEF Perms
  <1>3. \A j \in DOMAIN t : j \in lo..hi => p[j] \in lo..hi
    BY <1>2
  <1> QED
    BY <1>1, <1>2, <1>3 DEF Rearranged

-----------------------------------------------------------------------------
(* Partition *)

\* The greatest place of a smaller element than p, lo if there is none, and
\* the least of a greater one, hi if there is none
Smaller(t, p, lo, hi) == Max({lo} \cup {j \in lo + 1..hi : t[j].active < p.active})
Greater(t, p, lo, hi) == Min({hi} \cup {j \in lo + 1..hi - 1 : t[j].active > p.active})

PartStep(p, g, x) ==
    LET t == x[1]
        lo == x[2]
        r == Smaller(t, p, lo, x[3])
        t1 == SetAt(t, lo, t[r])
        l == Greater(t1, p, lo, r)
        t2 == SetAt(t1, r, t1[l])
    IN  IF r = lo THEN <<SetAt(t, lo, p), lo>>
        ELSE IF l = r THEN <<SetAt(t1, r, p), r>>
        ELSE g[<<t2, l, r - 1>>]

LEMMA PartitionDef ==
    ASSUME NEW s, NEW left, NEW right
    PROVE  Partition(s, left, right) =
              (CHOOSE g : g = [x \in Parts(s) |-> PartStep(s[left], g, x)])[<<s, left, right>>]
  BY DEF Partition, PartStep, Smaller, Greater

LEMMA SmallerIs ==
    ASSUME NEW n \in Nat, NEW t, NEW p, NEW lo \in 1..n, NEW hi \in 1..n,
           NEW r, r = Smaller(t, p, lo, hi)
    PROVE  /\ r \in lo..n
           /\ r # lo => r <= hi
           /\ r # lo => t[r].active < p.active
           /\ \A j \in lo + 1..hi : t[j].active < p.active => j <= r
  <1> DEFINE S == {lo} \cup {j \in lo + 1..hi : t[j].active < p.active}
  <1>1. S \in SUBSET (0..n) /\ S # {}
    OBVIOUS
  <1>2. r = Max(S)
    BY DEF Smaller
  <1> HIDE DEF S
  <1>3. r \in S /\ \A j \in S : j <= r
    BY <1>1, <1>2, MaxIs
  <1> QED
    BY <1>3 DEF S

LEMMA GreaterIs ==
    ASSUME NEW n \in Nat, NEW t, NEW p, NEW lo \in 1..n, NEW hi \in 1..n, lo < hi,
           NEW l, l = Greater(t, p, lo, hi)
    PROVE  /\ l \in lo + 1..hi /\ (l = hi \/ t[l].active > p.active)
           /\ \A j \in lo + 1..hi - 1 : t[j].active > p.active => l <= j
  <1> DEFINE S == {hi} \cup {j \in lo + 1..hi - 1 : t[j].active > p.active}
  <1>1. S \in SUBSET (0..n) /\ S # {}
    OBVIOUS
  <1>2. l = Min(S)
    BY DEF Greater
  <1> HIDE DEF S
  <1>3. Min(S) \in S /\ \A j \in S : Min(S) <= j
    BY <1>1, MinIs
  <1>4. l \in S /\ \A j \in S : l <= j
    BY <1>2, <1>3
  <1> QED
    BY <1>4 DEF S

LEMMA SetAtIs ==
    ASSUME NEW s, NEW k, NEW e
    PROVE  /\ DOMAIN SetAt(s, k, e) = DOMAIN s
           /\ \A j \in DOMAIN s : SetAt(s, k, e)[j] = IF j = k THEN e ELSE s[j]
  BY DEF SetAt

LEMMA SetAtList ==
    ASSUME NEW s, NEW t \in Lists(s), NEW k, NEW e, \E j \in DOMAIN s : e = s[j]
    PROVE  SetAt(t, k, e) \in Lists(s)
  BY DEF SetAt, Lists

\* A list is one of its own, and so are the lists made of it.
LEMMA ListsIs ==
    ASSUME NEW s, IsList(s)
    PROVE  /\ s \in Lists(s)
           /\ \A t \in Lists(s) : /\ DOMAIN t = DOMAIN s /\ IsList(t)
                                  /\ Lists(t) \subseteq Lists(s)
                                  /\ \A j \in DOMAIN s : \E k \in DOMAIN s : t[j] = s[k]
  <1>1. s \in Lists(s)
    BY DEF Lists, IsList
  <1>2. ASSUME NEW t \in Lists(s)
        PROVE  /\ DOMAIN t = DOMAIN s /\ IsList(t)
               /\ Lists(t) \subseteq Lists(s)
               /\ \A j \in DOMAIN s : \E k \in DOMAIN s : t[j] = s[k]
    <2>1. /\ DOMAIN t = DOMAIN s /\ t = [j \in DOMAIN s |-> t[j]]
          /\ \A j \in DOMAIN s : \E k \in DOMAIN s : t[j] = s[k]
      BY DEF Lists
    <2>2. IsList(t)
      BY <2>1 DEF IsList
    <2>3. {t[j] : j \in DOMAIN t} \subseteq {s[j] : j \in DOMAIN s}
      BY <2>1
    <2>4. Lists(t) \subseteq Lists(s)
      BY <2>1, <2>3 DEF Lists
    <2> QED
      BY <2>1, <2>2, <2>4
  <1> QED
    BY <1>1, <1>2

\* The places of a step, and the lists it makes
LEMMA PartLeft ==
    ASSUME NEW n \in Nat, NEW t, NEW p, NEW lo \in 1..n, NEW hi \in 1..n
    PROVE  /\ Smaller(t, p, lo, hi) \in 1..n
           /\ lo <= Smaller(t, p, lo, hi)
           /\ lo = Smaller(t, p, lo, hi) \/ Smaller(t, p, lo, hi) <= hi
  <1>1. Smaller(t, p, lo, hi) \in lo..n
    BY SmallerIs
  <1>2. Smaller(t, p, lo, hi) # lo => Smaller(t, p, lo, hi) <= hi
    BY SmallerIs
  <1> QED
    BY <1>1, <1>2

LEMMA PartRight ==
    ASSUME NEW n \in Nat, NEW t, NEW p, NEW lo \in 1..n, NEW hi \in 1..n, lo < hi
    PROVE  /\ Greater(t, p, lo, hi) \in 1..n
           /\ lo < Greater(t, p, lo, hi) /\ Greater(t, p, lo, hi) <= hi
  <1>1. Greater(t, p, lo, hi) \in lo + 1..hi
    BY GreaterIs
  <1> QED
    BY <1>1

\* The part that is left to a step is smaller.
LEMMA PartSmaller ==
    ASSUME NEW s, IsList(s), NEW p, \E j \in DOMAIN s : p = s[j],
           NEW t \in Lists(s), NEW lo \in DOMAIN s, NEW hi \in DOMAIN s,
           NEW r, r = Smaller(t, p, lo, hi), r # lo,
           NEW t1, t1 = SetAt(t, lo, t[r]),
           NEW l, l = Greater(t1, p, lo, r), l # r
    PROVE  /\ SetAt(t1, r, t1[l]) \in Lists(s)
           /\ l \in DOMAIN s /\ r - 1 \in DOMAIN s
           /\ lo < l /\ l < r /\ r <= hi
  <1>1. PICK n \in Nat : DOMAIN s = 1..n
    BY DEF IsList
  <1>0. lo \in 1..n /\ hi \in 1..n
    BY <1>1
  <1>2. r \in 1..n /\ lo < r /\ r <= hi
    BY <1>0, <1>1, PartLeft
  <1>3. \A u : /\ Greater(u, p, lo, r) \in 1..n
               /\ lo < Greater(u, p, lo, r) /\ Greater(u, p, lo, r) <= r
    <2> SUFFICES ASSUME NEW u
                 PROVE /\ Greater(u, p, lo, r) \in 1..n
                       /\ lo < Greater(u, p, lo, r) /\ Greater(u, p, lo, r) <= r
      OBVIOUS
    <2> QED
      BY <1>0, <1>2, PartRight, Zenon
  <1>4. l \in DOMAIN s /\ r \in DOMAIN s /\ r - 1 \in DOMAIN s /\ lo < l /\ l < r /\ r <= hi
    BY <1>0, <1>1, <1>2, <1>3
  <1>5. t1 \in Lists(s)
    BY <1>4, ListsIs, SetAtList
  <1>6. SetAt(t1, r, t1[l]) \in Lists(s)
    BY <1>4, <1>5, ListsIs, SetAtList
  <1> QED
    BY <1>4, <1>6

\* So a step looks at g for smaller parts only.
LEMMA PartSame ==
    ASSUME NEW s, IsList(s), NEW p, \E j \in DOMAIN s : p = s[j],
           NEW t \in Lists(s), NEW lo \in DOMAIN s, NEW hi \in DOMAIN s,
           NEW g, NEW h,
           \A u \in Lists(s), a \in DOMAIN s, b \in DOMAIN s :
               b - a < hi - lo => g[<<u, a, b>>] = h[<<u, a, b>>]
    PROVE  PartStep(p, g, <<t, lo, hi>>) = PartStep(p, h, <<t, lo, hi>>)
  <1> DEFINE r == Smaller(t, p, lo, hi)
             t1 == SetAt(t, lo, t[r])
             l == Greater(t1, p, lo, r)
             t2 == SetAt(t1, r, t1[l])
  <1>1. ASSUME r # lo, l # r
        PROVE  g[<<t2, l, r - 1>>] = h[<<t2, l, r - 1>>]
    <2>1. /\ t2 \in Lists(s) /\ l \in DOMAIN s /\ r - 1 \in DOMAIN s
          /\ lo < l /\ l < r /\ r <= hi
      BY <1>1, PartSmaller
    <2> HIDE DEF r, t1, l, t2
    <2>2. PICK n \in Nat : DOMAIN s = 1..n
      BY DEF IsList
    <2>3. r \in Int
      <3>1. lo \in 1..n /\ hi \in 1..n
        BY <2>2
      <3>2. r \in lo..n
        BY <3>1, SmallerIs DEF r
      <3> QED
        BY <3>1, <3>2
    <2>4. (r - 1) - l < hi - lo
      BY <2>1, <2>2, <2>3
    <2> QED
      BY <2>1, <2>4
  <1>2. \A f : PartStep(p, f, <<t, lo, hi>>) = IF r = lo THEN <<SetAt(t, lo, p), lo>>
                                    ELSE IF l = r THEN <<SetAt(t1, r, p), r>>
                                    ELSE f[<<t2, l, r - 1>>]
    BY DEF PartStep
  <1> HIDE DEF r, t1, l, t2
  <1> QED
    BY <1>1, <1>2

\* The recursion has a solution, as it goes to smaller parts.
LEMMA PartExists ==
    ASSUME NEW s, IsList(s), NEW p, \E j \in DOMAIN s : p = s[j]
    PROVE  \E g : g = [x \in Parts(s) |-> PartStep(p, g, x)]
  <1>0. PICK N \in Nat : DOMAIN s = 1..N
    BY DEF IsList
  <1> DEFINE D == DOMAIN s
             L == Lists(s)
             Solves(g, n) == \A t \in L, a \in D, b \in D :
                b - a + N <= n => g[<<t, a, b>>] = PartStep(p, g, <<t, a, b>>)
             S == {n \in Nat : \E g : Solves(g, n)}
  <1>a. \A a \in D, b \in D : a \in Int /\ b \in Int /\ b - a + N > 0 /\ b - a + N <= N + N
    BY <1>0
  <1>b. Parts(s) = L \X D \X D
    BY DEF Parts
  <1>1. ASSUME NEW n \in Nat, \A m \in Nat : m < n => m \in S
        PROVE  n \in S
    <2>1. PICK h : \A t \in L, a \in D, b \in D :
                b - a + N < n => h[<<t, a, b>>] = PartStep(p, h, <<t, a, b>>)
      <3>1. CASE n = 0
        BY <3>1, <1>a
      <3>2. CASE n # 0
        <4>1. n - 1 \in Nat /\ n - 1 < n
          BY <3>2
        <4>2. PICK g : Solves(g, n - 1)
          BY <1>1, <4>1
        <4>3. \A a \in D, b \in D : b - a + N < n => b - a + N <= n - 1
          BY <1>0, <1>a
        <4> QED
          BY <4>2, <4>3
      <3> QED
        BY <3>1, <3>2
    <2> DEFINE g == [x \in Parts(s) |-> PartStep(p, h, x)]
    <2>3. \A t \in L, a \in D, b \in D : g[<<t, a, b>>] = PartStep(p, h, <<t, a, b>>)
      BY <1>b
    <2>2. \A t \in L, a \in D, b \in D :
                b - a + N < n => g[<<t, a, b>>] = h[<<t, a, b>>]
      BY <2>1, <2>3
    <2> HIDE DEF g
    <2>4. ASSUME NEW t \in L, NEW a \in D, NEW b \in D, b - a + N <= n
          PROVE  g[<<t, a, b>>] = PartStep(p, g, <<t, a, b>>)
      <3>1. \A u \in L, c \in D, d \in D : d - c < b - a => d - c + N < n
        BY <1>0, <1>a, <2>4
      <3>2. \A u \in L, c \in D, d \in D : d - c < b - a =>
                g[<<u, c, d>>] = h[<<u, c, d>>]
        BY <2>2, <3>1
      <3>3. PartStep(p, g, <<t, a, b>>) = PartStep(p, h, <<t, a, b>>)
        BY <3>2, PartSame
      <3> QED
        BY <2>3, <3>3
    <2> QED
      BY <2>4
  <1>2. N + N \in S
    <2> HIDE DEF S
    <2> QED
      BY <1>0, <1>1, Induct
  <1>3. PICK g : Solves(g, N + N)
    BY <1>2
  <1>4. \A t \in L, a \in D, b \in D : g[<<t, a, b>>] = PartStep(p, g, <<t, a, b>>)
    BY <1>a, <1>3
  <1> DEFINE f == [x \in Parts(s) |-> g[x]]
  <1>5. \A t \in L, a \in D, b \in D : f[<<t, a, b>>] = g[<<t, a, b>>]
    BY <1>b
  <1>6. f = [x \in Parts(s) |-> f[x]]
    OBVIOUS
  <1> HIDE DEF f
  <1>7. ASSUME NEW t \in L, NEW a \in D, NEW b \in D
        PROVE  f[<<t, a, b>>] = PartStep(p, f, <<t, a, b>>)
    <2>1. PartStep(p, f, <<t, a, b>>) = PartStep(p, g, <<t, a, b>>)
      BY <1>5, PartSame
    <2> QED
      BY <1>4, <1>5, <2>1
  <1>8. \A x \in Parts(s) : f[x] = PartStep(p, f, x)
    <2>1. \A x \in Parts(s) : \E t \in L, a \in D, b \in D : x = <<t, a, b>>
      BY <1>b
    <2> QED
      BY <1>7, <2>1
  <1>9. f = [x \in Parts(s) |-> PartStep(p, f, x)]
    BY <1>6, <1>8
  <1> QED
    BY <1>9

\* What a step makes of the part from lo to hi of t, where p is to take the
\* place lo: the elements rearranged, p at its place, none greater before it
\* and none smaller after it.
Parted(s, t, p, lo, hi, q) ==
    /\ q[1] \in Lists(s) /\ q[2] \in lo..hi
    /\ Rearranged(q[1], SetAt(t, lo, p), lo, hi)
    /\ q[1][q[2]] = p
    /\ \A j \in DOMAIN s : lo <= j /\ j <= q[2] => q[1][j].active <= p.active
    /\ \A j \in DOMAIN s : q[2] <= j /\ j <= hi => q[1][j].active >= p.active

\* No element is smaller: the first stays.
LEMMA PartFirst ==
    ASSUME NEW s, IsList(s), NEW p, \E j \in DOMAIN s : p = s[j],
           NEW t \in Lists(s), NEW lo \in DOMAIN s, NEW hi \in DOMAIN s, lo <= hi,
           \A j \in lo + 1..hi : ~(t[j].active < p.active)
    PROVE  Parted(s, t, p, lo, hi, <<SetAt(t, lo, p), lo>>)
  <1>1. PICK n \in Nat : DOMAIN s = 1..n
    BY DEF IsList
  <1> DEFINE w == SetAt(t, lo, p)
  <1>2. w \in Lists(s) /\ DOMAIN t = DOMAIN s /\ p.active \in Int
    BY ListsIs, SetAtList DEF IsList
  <1>3. w[lo] = p /\ \A j \in DOMAIN s : j # lo => w[j] = t[j]
    BY <1>2, SetAtIs
  <1>4. DOMAIN w = DOMAIN s /\ \A j \in DOMAIN s : w[j].active \in Int
    BY <1>2, ListsIs DEF IsList
  <1>5. Rearranged(w, w, lo, hi)
    BY RearrangedSame
  <1>6. lo \in lo..hi /\ \A j \in DOMAIN s : lo <= j /\ j <= lo => j = lo
    BY <1>1
  <1>7. \A j \in DOMAIN s : lo <= j /\ j <= hi /\ j # lo => j \in lo + 1..hi
    BY <1>1
  <1> HIDE DEF w
  <1>8. \A j \in DOMAIN s : lo <= j /\ j <= lo => w[j].active <= p.active
    BY <1>2, <1>3, <1>6
  <1>9. \A j \in DOMAIN s : lo <= j /\ j <= hi => w[j].active >= p.active
    BY <1>2, <1>3, <1>4, <1>7
  <1>10. Parted(s, t, p, lo, hi, <<w, lo>>)
    BY <1>2, <1>3, <1>5, <1>6, <1>8, <1>9 DEF Parted, w
  <1> QED
    BY <1>10 DEF w

\* All from the smaller one at r down are no greater: p takes its place.
LEMMA PartLast ==
    ASSUME NEW s, IsList(s), NEW p, \E j \in DOMAIN s : p = s[j],
           NEW t \in Lists(s), NEW lo \in DOMAIN s, NEW hi \in DOMAIN s,
           NEW r \in DOMAIN s, lo < r, r <= hi,
           t[r].active < p.active,
           \A j \in DOMAIN s : r < j /\ j <= hi => ~(t[j].active < p.active),
           \A j \in DOMAIN s : lo < j /\ j < r => ~(t[j].active > p.active),
           NEW u \in Lists(s), u[r] = p, u[lo] = t[r],
           \A j \in DOMAIN s \ {lo, r} : u[j] = t[j]
    PROVE  Parted(s, t, p, lo, hi, <<u, r>>)
  <1>1. PICK n \in Nat : DOMAIN s = 1..n
    BY DEF IsList
  <1> DEFINE w == SetAt(t, lo, p)
  <1>2. w \in Lists(s) /\ DOMAIN t = DOMAIN s /\ p.active \in Int
    <2>1. w \in Lists(s)
      BY SetAtList
    <2>2. DOMAIN t = DOMAIN s
      BY ListsIs
    <2>3. p.active \in Int
      BY DEF IsList
    <2> QED
      BY <2>1, <2>2, <2>3
  <1>3. w[lo] = p /\ \A j \in DOMAIN s : j # lo => w[j] = t[j]
    BY <1>2, SetAtIs
  <1>4. DOMAIN w = DOMAIN s /\ DOMAIN u = DOMAIN s
    BY <1>2, ListsIs
  <1>5. \A j \in DOMAIN s : u[j].active \in Int /\ t[j].active \in Int
    BY <1>4, ListsIs DEF IsList
  <1>6. lo \in lo..hi /\ r \in lo..hi /\ r # lo
    BY <1>1
  <1> HIDE DEF w
  <1>7. Rearranged(u, w, lo, hi)
    <2>1. u[lo] = w[r] /\ u[r] = w[lo]
      BY <1>3, <1>6
    <2>2. \A j \in DOMAIN w \ {lo, r} : u[j] = w[j]
      BY <1>3, <1>4
    <2> QED
      BY <1>4, <1>6, <2>1, <2>2, RearrangedSwap
  <1>8. \A j \in DOMAIN s : lo <= j /\ j <= r => u[j].active <= p.active
    <2> SUFFICES ASSUME NEW j \in DOMAIN s, lo <= j, j <= r PROVE u[j].active <= p.active
      OBVIOUS
    <2>1. j = lo \/ j = r \/ (lo < j /\ j < r)
      BY <1>1
    <2> QED
      BY <1>2, <1>5, <2>1
  <1>9. \A j \in DOMAIN s : r <= j /\ j <= hi => u[j].active >= p.active
    <2> SUFFICES ASSUME NEW j \in DOMAIN s, r <= j, j <= hi PROVE u[j].active >= p.active
      OBVIOUS
    <2>1. j = r \/ (r < j /\ j # lo)
      BY <1>1
    <2> QED
      BY <1>2, <1>5, <2>1
  <1> QED
    BY <1>6, <1>7, <1>8, <1>9 DEF Parted, w

\* Else the greater one at l takes the place of the smaller one at r, and what
\* is between them is parted.
LEMMA PartBetween ==
    ASSUME NEW s, IsList(s), NEW p, \E j \in DOMAIN s : p = s[j],
           NEW t \in Lists(s), NEW lo \in DOMAIN s, NEW hi \in DOMAIN s,
           NEW r \in DOMAIN s, lo < r, r <= hi,
           t[r].active < p.active,
           \A j \in DOMAIN s : r < j /\ j <= hi => ~(t[j].active < p.active),
           NEW l \in DOMAIN s, lo < l, l < r, t[l].active > p.active,
           \A j \in DOMAIN s : lo < j /\ j < l => ~(t[j].active > p.active),
           NEW u \in Lists(s), u[r] = t[l], u[lo] = t[r],
           \A j \in DOMAIN s \ {lo, r} : u[j] = t[j],
           NEW q, Parted(s, u, p, l, r - 1, q)
    PROVE  Parted(s, t, p, lo, hi, q)
  <1>1. PICK n \in Nat : DOMAIN s = 1..n
    BY DEF IsList
  <1> DEFINE w == SetAt(t, lo, p)
             v == SetAt(u, l, p)
             m == SetAt(u, r, p)
             f == q[1]
  <1>2. /\ w \in Lists(s) /\ v \in Lists(s) /\ m \in Lists(s) /\ f \in Lists(s)
        /\ p.active \in Int
    BY ListsIs, SetAtList DEF IsList, Parted
  <1>3. /\ DOMAIN w = DOMAIN s /\ DOMAIN u = DOMAIN s /\ DOMAIN t = DOMAIN s
        /\ DOMAIN v = DOMAIN s /\ DOMAIN m = DOMAIN s /\ DOMAIN f = DOMAIN s
    BY <1>2, ListsIs
  <1>4. /\ w[lo] = p /\ \A j \in DOMAIN s : j # lo => w[j] = t[j]
        /\ v[l] = p /\ \A j \in DOMAIN s : j # l => v[j] = u[j]
        /\ m[r] = p /\ \A j \in DOMAIN s : j # r => m[j] = u[j]
    BY <1>3, SetAtIs
  <1>5. \A j \in DOMAIN s : f[j].active \in Int /\ t[j].active \in Int
    BY <1>2, <1>3, ListsIs DEF IsList
  <1>6. /\ lo \in lo..hi /\ r \in lo..hi /\ l \in lo..hi /\ r # lo /\ l # lo /\ l # r
        /\ r - 1 <= hi /\ lo <= l
        /\ lo \in Int /\ hi \in Int /\ l \in Int /\ r - 1 \in Int
    BY <1>1
  <1>7. /\ q[2] \in l..r - 1 /\ Rearranged(f, v, l, r - 1) /\ f[q[2]] = p
        /\ \A j \in DOMAIN s : l <= j /\ j <= q[2] => f[j].active <= p.active
        /\ \A j \in DOMAIN s : q[2] <= j /\ j <= r - 1 => f[j].active >= p.active
    BY DEF Parted
  <1> HIDE DEF w, v, m, f
  <1>8. Rearranged(f, w, lo, hi)
    <2>1. Rearranged(m, w, lo, hi)
      <3>1. m[lo] = w[r] /\ m[r] = w[lo]
        BY <1>4, <1>6
      <3>2. \A j \in DOMAIN w \ {lo, r} : m[j] = w[j]
        BY <1>3, <1>4
      <3> QED
        BY <1>3, <1>6, <3>1, <3>2, RearrangedSwap
    <2>2. Rearranged(v, m, lo, hi)
      <3>1. v[l] = m[r] /\ v[r] = m[l]
        BY <1>4, <1>6
      <3>2. \A j \in DOMAIN m \ {l, r} : v[j] = m[j]
        BY <1>3, <1>4
      <3> QED
        BY <1>3, <1>6, <3>1, <3>2, RearrangedSwap
    <2>3. Rearranged(f, v, lo, hi)
      BY <1>6, <1>7, RearrangedWider
    <2>4. Rearranged(v, w, lo, hi)
      BY <2>1, <2>2, RearrangedTwice
    <2> QED
      BY <2>3, <2>4, RearrangedTwice
  <1>9. \A j \in DOMAIN s : j \notin l..r - 1 => f[j] = u[j]
    <2>1. \A j \in DOMAIN v : j \notin l..r - 1 => f[j] = v[j]
      BY <1>7, RearrangedFrom
    <2> QED
      BY <1>3, <1>4, <1>6, <2>1
  <1>10. \A j \in DOMAIN s : lo <= j /\ j <= q[2] => f[j].active <= p.active
    <2> SUFFICES ASSUME NEW j \in DOMAIN s, lo <= j, j <= q[2] PROVE f[j].active <= p.active
      OBVIOUS
    <2>1. CASE l <= j
      BY <1>7, <2>1
    <2>2. CASE j < l
      <3>1. j \notin l..r - 1 /\ (j = lo \/ (lo < j /\ j # r))
        BY <1>1, <1>6, <2>2
      <3>2. f[j] = u[j]
        BY <1>9, <3>1
      <3> QED
        BY <1>2, <1>5, <1>6, <2>2, <3>1, <3>2
    <2> QED
      BY <1>1, <2>1, <2>2
  <1>11. \A j \in DOMAIN s : q[2] <= j /\ j <= hi => f[j].active >= p.active
    <2> SUFFICES ASSUME NEW j \in DOMAIN s, q[2] <= j, j <= hi PROVE f[j].active >= p.active
      OBVIOUS
    <2>1. CASE j <= r - 1
      BY <1>7, <2>1
    <2>2. CASE ~(j <= r - 1)
      <3>1. j \notin l..r - 1 /\ j # lo /\ (j = r \/ r < j)
        BY <1>1, <1>6, <2>2
      <3>2. f[j] = u[j]
        BY <1>9, <3>1
      <3> QED
        BY <1>2, <1>5, <1>6, <3>1, <3>2
    <2> QED
      BY <1>1, <2>1, <2>2
  <1>12. q[2] \in lo..hi
    BY <1>1, <1>7
  <1> QED
    BY <1>2, <1>7, <1>8, <1>10, <1>11, <1>12 DEF Parted, w, f

LEMMA PartStepParts ==
    ASSUME NEW s, IsList(s), NEW p, \E j \in DOMAIN s : p = s[j],
           NEW t \in Lists(s), NEW lo \in DOMAIN s, NEW hi \in DOMAIN s, lo <= hi,
           NEW g,
           \A u \in Lists(s), a \in DOMAIN s, b \in DOMAIN s :
               a <= b /\ b - a < hi - lo => Parted(s, u, p, a, b, g[<<u, a, b>>])
    PROVE  Parted(s, t, p, lo, hi, PartStep(p, g, <<t, lo, hi>>))
  <1>1. PICK n \in Nat : DOMAIN s = 1..n
    BY DEF IsList
  <1>2. lo \in 1..n /\ hi \in 1..n
    BY <1>1
  <1> DEFINE r == Smaller(t, p, lo, hi)
             t1 == SetAt(t, lo, t[r])
             l == Greater(t1, p, lo, r)
             t2 == SetAt(t1, r, t1[l])
  <1>3. PartStep(p, g, <<t, lo, hi>>) = IF r = lo THEN <<SetAt(t, lo, p), lo>>
                                ELSE IF l = r THEN <<SetAt(t1, r, p), r>>
                                ELSE g[<<t2, l, r - 1>>]
    BY DEF PartStep
  <1>4. /\ r \in lo..n /\ (r = lo \/ (r <= hi /\ t[r].active < p.active))
        /\ \A j \in lo + 1..hi : t[j].active < p.active => j <= r
    <2>1. r \in lo..n
      BY <1>2, SmallerIs
    <2>2. ASSUME r # lo PROVE r <= hi /\ t[r].active < p.active
      <3>1. r <= hi
        BY <1>2, <2>2, PartLeft
      <3>2. t[r].active < p.active
        BY <1>2, <2>2, SmallerIs
      <3> QED
        BY <3>1, <3>2
    <2>3. \A j \in lo + 1..hi : t[j].active < p.active => j <= r
      BY <1>2, SmallerIs, ZenonT(60)
    <2> QED
      BY <2>1, <2>2, <2>3
  <1>5. CASE r = lo
    <2>1. \A j \in lo + 1..hi : ~(t[j].active < p.active)
      BY <1>2, <1>4, <1>5
    <2>2. Parted(s, t, p, lo, hi, <<SetAt(t, lo, p), lo>>)
      BY <2>1, PartFirst
    <2> HIDE DEF r
    <2> QED
      BY <1>3, <1>5, <2>2
  <1>6. CASE r # lo
    <2>1. r \in DOMAIN s /\ lo < r /\ r <= hi /\ t[r].active < p.active
      BY <1>1, <1>2, <1>4, <1>6
    <2>2. \A j \in DOMAIN s : r < j /\ j <= hi => ~(t[j].active < p.active)
      <3>1. \A j \in DOMAIN s : r < j /\ j <= hi => j \in lo + 1..hi /\ ~(j <= r)
        BY <1>1, <1>2, <2>1
      <3> QED
        BY <1>4, <3>1
    <2> HIDE DEF r
    <2>3. /\ DOMAIN t = DOMAIN s /\ t1 \in Lists(s) /\ DOMAIN t1 = DOMAIN s
          /\ t1[lo] = t[r] /\ \A j \in DOMAIN s : j # lo => t1[j] = t[j]
      <3>1. DOMAIN t = DOMAIN s /\ t1 \in Lists(s)
        BY <2>1, ListsIs, SetAtList
      <3> QED
        BY <3>1, SetAtIs
    <2>4. /\ l \in lo + 1..r /\ (l = r \/ t1[l].active > p.active)
          /\ \A j \in lo + 1..r - 1 : t1[j].active > p.active => l <= j
      <3>1. r \in 1..n
        BY <1>1, <2>1
      <3> HIDE DEF t1
      <3>2. l \in lo + 1..r
        BY <1>2, <2>1, <3>1, GreaterIs
      <3>3. l = r \/ t1[l].active > p.active
        BY <1>2, <2>1, <3>1, GreaterIs
      <3>4. \A j \in lo + 1..r - 1 : t1[j].active > p.active => l <= j
        BY <1>2, <2>1, <3>1, GreaterIs
      <3> QED
        BY <3>2, <3>3, <3>4
    <2> HIDE DEF t1, l
    <2>5. l \in DOMAIN s /\ lo < l /\ l <= r
      BY <1>1, <1>2, <2>1, <2>4
    <2>6. \A j \in DOMAIN s : lo < j /\ j < l => ~(t[j].active > p.active)
      <3>1. \A j \in DOMAIN s : lo < j /\ j < l => j \in lo + 1..r - 1 /\ j # lo /\ ~(l <= j)
        BY <1>1, <1>2, <2>1, <2>5
      <3> QED
        BY <2>3, <2>4, <3>1
    <2>7. CASE l = r
      <3> DEFINE u == SetAt(t1, r, p)
      <3>1. u \in Lists(s)
        BY <2>3, SetAtList
      <3>2. u[r] = p /\ \A j \in DOMAIN s : j # r => u[j] = t1[j]
        BY <2>1, <2>3, SetAtIs
      <3> HIDE DEF u
      <3>3. u[lo] = t[r] /\ \A j \in DOMAIN s \ {lo, r} : u[j] = t[j]
        BY <1>6, <2>3, <3>2
      <3>4. Parted(s, t, p, lo, hi, <<u, r>>)
        BY <2>1, <2>2, <2>6, <2>7, <3>1, <3>2, <3>3, PartLast
      <3> QED
        BY <1>3, <1>6, <2>7, <3>4 DEF u
    <2>8. CASE l # r
      <3>0. l < r /\ l # lo /\ t1[l] = t[l] /\ t[l].active > p.active
        BY <1>1, <2>1, <2>3, <2>4, <2>5, <2>8
      <3>1. t2 \in Lists(s)
        BY <2>3, <2>5, ListsIs, SetAtList
      <3>2. t2[r] = t1[l] /\ \A j \in DOMAIN s : j # r => t2[j] = t1[j]
        BY <2>1, <2>3, SetAtIs
      <3> HIDE DEF t2
      <3>3. /\ t2[r] = t[l] /\ t2[lo] = t[r]
            /\ \A j \in DOMAIN s \ {lo, r} : t2[j] = t[j]
        BY <1>6, <2>3, <3>0, <3>2
      <3>4. r - 1 \in DOMAIN s /\ l <= r - 1 /\ (r - 1) - l < hi - lo
        BY <1>1, <1>2, <2>1, <2>5, <3>0
      <3>5. Parted(s, t2, p, l, r - 1, g[<<t2, l, r - 1>>])
        <4> DEFINE b == r - 1
        <4>1. b \in DOMAIN s /\ l <= b /\ b - l < hi - lo
          BY <3>4
        <4> HIDE DEF b
        <4>2. Parted(s, t2, p, l, b, g[<<t2, l, b>>])
          BY <2>5, <3>1, <4>1, Zenon
        <4> QED
          BY <4>2 DEF b
      <3> DEFINE q == g[<<t2, l, r - 1>>]
      <3>6. Parted(s, t2, p, l, r - 1, q)
        BY <3>5
      <3> HIDE DEF q
      <3>7. \E j \in DOMAIN s : p = s[j]
        OBVIOUS
      <3>8. Parted(s, t, p, lo, hi, q)
        BY <2>1, <2>2, <2>5, <2>6, <3>0, <3>1, <3>3, <3>6, <3>7, PartBetween
      <3> QED
        BY <1>3, <1>6, <2>8, <3>8 DEF q
    <2> QED
      BY <2>7, <2>8
  <1> QED
    BY <1>5, <1>6

\* What Partition returns
LEMMA PartitionIs ==
    ASSUME NEW s, IsList(s), NEW left \in DOMAIN s, NEW right \in DOMAIN s, left <= right
    PROVE  Parted(s, s, s[left], left, right, Partition(s, left, right))
  <1>0. PICK N \in Nat : DOMAIN s = 1..N
    BY DEF IsList
  <1> DEFINE p == s[left]
             g == CHOOSE f : f = [x \in Parts(s) |-> PartStep(p, f, x)]
  <1>1. g = [x \in Parts(s) |-> PartStep(p, g, x)]
    BY PartExists
  <1>2. Partition(s, left, right) = g[<<s, left, right>>]
    BY PartitionDef
  <1> DEFINE S == {n \in Nat : \A t \in Lists(s), a \in DOMAIN s, b \in DOMAIN s :
                      a <= b /\ b - a = n => Parted(s, t, p, a, b, g[<<t, a, b>>])}
  <1> HIDE DEF g
  <1>3. ASSUME NEW n \in Nat, \A m \in Nat : m < n => m \in S
        PROVE  n \in S
    <2> SUFFICES ASSUME NEW t \in Lists(s), NEW a \in DOMAIN s, NEW b \in DOMAIN s,
                        a <= b, b - a = n
                 PROVE  Parted(s, t, p, a, b, g[<<t, a, b>>])
      OBVIOUS
    <2>1. \A u \in Lists(s), c \in DOMAIN s, d \in DOMAIN s :
               c <= d /\ d - c < b - a => Parted(s, u, p, c, d, g[<<u, c, d>>])
      <3> SUFFICES ASSUME NEW u \in Lists(s), NEW c \in DOMAIN s, NEW d \in DOMAIN s,
                          c <= d, d - c < b - a
                   PROVE  Parted(s, u, p, c, d, g[<<u, c, d>>])
        OBVIOUS
      <3>1. d - c \in Nat /\ d - c < n
        BY <1>0
      <3>2. d - c \in S
        BY <1>3, <3>1
      <3> QED
        BY <3>2
    <2>2. Parted(s, t, p, a, b, PartStep(p, g, <<t, a, b>>))
      BY <2>1, PartStepParts
    <2>3. <<t, a, b>> \in Parts(s)
      BY DEF Parts
    <2>4. g[<<t, a, b>>] = PartStep(p, g, <<t, a, b>>)
      BY <1>1, <2>3
    <2> QED
      BY <2>2, <2>4
  <1>4. right - left \in Nat
    BY <1>0
  <1>5. right - left \in S
    <2> HIDE DEF S
    <2> QED
      BY <1>3, <1>4, Induct
  <1>6. s \in Lists(s)
    BY ListsIs
  <1> QED
    BY <1>2, <1>5, <1>6

LEMMA SetAtSame ==
    ASSUME NEW s, NEW t \in Lists(s), NEW k
    PROVE  SetAt(t, k, t[k]) = t
  <1>1. DOMAIN t = DOMAIN s /\ t = [j \in DOMAIN s |-> t[j]]
    BY DEF Lists
  <1>2. SetAt(t, k, t[k]) = [j \in DOMAIN s |-> t[j]]
    BY <1>1 DEF SetAt
  <1> QED
    BY <1>1, <1>2

\* The lists that are made, the place of p, and the order it brings
LEMMA PartitionMakes ==
    ASSUME NEW s, IsList(s), NEW t \in Lists(s),
           NEW lo \in DOMAIN s, NEW hi \in DOMAIN s, lo <= hi,
           NEW u, NEW m, u = Partition(t, lo, hi)[1], m = Partition(t, lo, hi)[2]
    PROVE  /\ u \in Lists(s) /\ m \in DOMAIN s /\ lo <= m /\ m <= hi
           /\ Rearranged(u, t, lo, hi)
           /\ \A j \in DOMAIN s : lo <= j /\ j <= m => u[j].active <= u[m].active
           /\ \A j \in DOMAIN s : m <= j /\ j <= hi => u[m].active <= u[j].active
  <1>1. IsList(t) /\ DOMAIN t = DOMAIN s /\ Lists(t) \subseteq Lists(s)
    BY ListsIs
  <1>2. Parted(t, t, t[lo], lo, hi, Partition(t, lo, hi))
    BY <1>1, PartitionIs
  <1>3. SetAt(t, lo, t[lo]) = t
    BY SetAtSame
  <1>4. /\ u \in Lists(t) /\ m \in lo..hi /\ Rearranged(u, t, lo, hi) /\ u[m] = t[lo]
        /\ \A j \in DOMAIN t : lo <= j /\ j <= m => u[j].active <= t[lo].active
        /\ \A j \in DOMAIN t : m <= j /\ j <= hi => u[j].active >= t[lo].active
    BY <1>2, <1>3 DEF Parted
  <1>5. PICK n \in Nat : DOMAIN s = 1..n
    BY DEF IsList
  <1>6. m \in DOMAIN s /\ lo <= m /\ m <= hi
    BY <1>4, <1>5
  <1>7. DOMAIN u = DOMAIN s /\ (\A j \in DOMAIN s : u[j].active \in Int) /\ t[lo].active \in Int
    <2>1. DOMAIN u = DOMAIN t /\ IsList(u)
      BY <1>1, <1>4, ListsIs
    <2> QED
      BY <1>1, <2>1 DEF IsList
  <1>8. \A j \in DOMAIN s : m <= j /\ j <= hi => u[m].active <= u[j].active
    BY <1>1, <1>4, <1>7
  <1>9. u \in Lists(s)
    BY <1>1, <1>4
  <1> QED
    BY <1>1, <1>4, <1>6, <1>8, <1>9

\* Nothing is done to an empty part.
LEMMA PartitionNone ==
    ASSUME NEW s, IsList(s), NEW left \in DOMAIN s, NEW right \in DOMAIN s, right < left
    PROVE  Partition(s, left, right)[1] = s /\ Partition(s, left, right)[2] = left
  <1>0. PICK N \in Nat : DOMAIN s = 1..N
    BY DEF IsList
  <1> DEFINE p == s[left]
             g == CHOOSE f : f = [x \in Parts(s) |-> PartStep(p, f, x)]
  <1>1. g = [x \in Parts(s) |-> PartStep(p, g, x)]
    BY PartExists
  <1>2. Partition(s, left, right) = g[<<s, left, right>>]
    BY PartitionDef
  <1> HIDE DEF g
  <1>3. s \in Lists(s)
    BY ListsIs
  <1>4. <<s, left, right>> \in Parts(s)
    BY <1>3 DEF Parts
  <1>5. Partition(s, left, right) = PartStep(p, g, <<s, left, right>>)
    BY <1>1, <1>2, <1>4
  <1>6. left \in 1..N /\ right \in 1..N
    BY <1>0
  <1>7. Smaller(s, p, left, right) = left
    BY <1>6, PartLeft
  <1>8. PartStep(p, g, <<s, left, right>>) = <<SetAt(s, left, p), left>>
    BY <1>7 DEF PartStep
  <1>9. SetAt(s, left, p) = s
    BY <1>3, SetAtSame
  <1> QED
    BY <1>5, <1>8, <1>9

-----------------------------------------------------------------------------
(* SortFeature *)

SortStep(g, x) ==
    LET q == Partition(x[1], x[2], x[3])
        pivot == q[2]
        low == IF x[2] < pivot THEN g[<<q[1], x[2], pivot - 1>>] ELSE q[1]
    IN  IF x[3] > pivot THEN g[<<low, pivot + 1, x[3]>>] ELSE low

LEMMA SortFeatureDef ==
    ASSUME NEW s, NEW left, NEW right
    PROVE  SortFeature(s, left, right) =
              (CHOOSE g : g = [x \in Parts(s) |-> SortStep(g, x)])[<<s, left, right>>]
  BY DEF SortFeature, SortStep

\* The elements from lo to hi are sorted.
SortedPart(s, u, lo, hi) ==
    \A j, k \in DOMAIN s : lo <= j /\ j < k /\ k <= hi => u[j].active <= u[k].active

\* u is t with the part from lo to hi sorted.
SortedFrom(s, t, lo, hi, u) ==
    u \in Lists(s) /\ Rearranged(u, t, lo, hi) /\ SortedPart(s, u, lo, hi)

\* The list in which the elements before the place m are sorted, and then those
\* after it, is sorted.
LEMMA SortBoth ==
    ASSUME NEW s, IsList(s), NEW t \in Lists(s), NEW u \in Lists(s), NEW v \in Lists(s),
           NEW w \in Lists(s),
           NEW lo \in DOMAIN s, NEW hi \in DOMAIN s, NEW m \in DOMAIN s, lo <= m, m <= hi,
           Rearranged(u, t, lo, hi),
           \A j \in DOMAIN s : lo <= j /\ j <= m => u[j].active <= u[m].active,
           \A j \in DOMAIN s : m <= j /\ j <= hi => u[m].active <= u[j].active,
           IF lo < m THEN SortedFrom(s, u, lo, m - 1, v) ELSE v = u,
           IF m < hi THEN SortedFrom(s, v, m + 1, hi, w) ELSE w = v
    PROVE  SortedFrom(s, t, lo, hi, w)
  <1>1. PICK n \in Nat : DOMAIN s = 1..n
    BY DEF IsList
  <1>0. /\ lo \in Int /\ hi \in Int /\ m \in Int /\ m - 1 \in Int /\ m + 1 \in Int
        /\ m - 1 <= hi /\ lo <= m + 1 /\ lo <= lo /\ hi <= hi
    BY <1>1
  <1>2. /\ DOMAIN t = DOMAIN s /\ DOMAIN u = DOMAIN s /\ DOMAIN v = DOMAIN s
        /\ DOMAIN w = DOMAIN s
        /\ \A j \in DOMAIN s : /\ u[j].active \in Int /\ v[j].active \in Int
                               /\ w[j].active \in Int
    BY ListsIs DEF IsList
  <1>3. Rearranged(v, u, lo, m - 1)
    BY RearrangedSame DEF SortedFrom
  <1>4. Rearranged(w, v, m + 1, hi)
    BY RearrangedSame DEF SortedFrom
  <1>5. Rearranged(w, t, lo, hi)
    <2>1. Rearranged(v, u, lo, hi) /\ Rearranged(w, v, lo, hi)
      BY <1>0, <1>3, <1>4, RearrangedWider
    <2>2. Rearranged(w, u, lo, hi)
      BY <2>1, RearrangedTwice
    <2> QED
      BY <2>2, RearrangedTwice
  <1>6. /\ \A j \in DOMAIN s : j \notin lo..m - 1 => v[j] = u[j]
        /\ \A j \in DOMAIN s : j \in lo..m - 1 =>
              \E k \in DOMAIN s : k \in lo..m - 1 /\ v[j] = u[k]
    <2>1. \A j \in DOMAIN u : j \notin lo..m - 1 => v[j] = u[j]
      BY <1>3, RearrangedFrom
    <2>2. \A j \in DOMAIN u : j \in lo..m - 1 =>
              \E k \in DOMAIN u : k \in lo..m - 1 /\ v[j] = u[k]
      BY <1>3, RearrangedFrom
    <2> QED
      BY <1>2, <2>1, <2>2
  <1>7. /\ \A j \in DOMAIN s : j \notin m + 1..hi => w[j] = v[j]
        /\ \A j \in DOMAIN s : j \in m + 1..hi =>
              \E k \in DOMAIN s : k \in m + 1..hi /\ w[j] = v[k]
    <2>1. \A j \in DOMAIN v : j \notin m + 1..hi => w[j] = v[j]
      BY <1>4, RearrangedFrom
    <2>2. \A j \in DOMAIN v : j \in m + 1..hi =>
              \E k \in DOMAIN v : k \in m + 1..hi /\ w[j] = v[k]
      BY <1>4, RearrangedFrom
    <2> QED
      BY <1>2, <2>1, <2>2
  <1>8. w[m] = u[m]
    <2>1. m \notin lo..m - 1 /\ m \notin m + 1..hi
      BY <1>0
    <2> QED
      BY <1>6, <1>7, <2>1
  <1>9. ASSUME NEW j \in DOMAIN s, lo <= j, j < m
        PROVE  w[j] = v[j] /\ w[j].active <= w[m].active
    <2>1. j \in lo..m - 1 /\ j \notin m + 1..hi
      BY <1>0, <1>1, <1>9
    <2>2. PICK k \in DOMAIN s : k \in lo..m - 1 /\ v[j] = u[k]
      BY <1>6, <2>1
    <2>3. lo <= k /\ k <= m
      BY <1>0, <2>2
    <2> QED
      BY <1>7, <1>8, <2>1, <2>2, <2>3
  <1>10. ASSUME NEW j \in DOMAIN s, m < j, j <= hi
         PROVE  w[m].active <= w[j].active
    <2>1. j \in m + 1..hi
      BY <1>0, <1>1, <1>10
    <2>2. PICK k \in DOMAIN s : k \in m + 1..hi /\ w[j] = v[k]
      BY <1>7, <2>1
    <2>3. m <= k /\ k <= hi /\ k \notin lo..m - 1
      BY <1>0, <2>2
    <2>4. w[j] = u[k]
      BY <1>6, <2>2, <2>3
    <2> QED
      BY <1>8, <2>3, <2>4
  <1>11. ASSUME NEW j \in DOMAIN s, NEW k \in DOMAIN s, lo <= j, j < k, k <= hi
         PROVE  w[j].active <= w[k].active
    <2>1. CASE k < m
      <3>1. j < m /\ lo <= k /\ lo < m /\ k <= m - 1
        BY <1>0, <1>1, <1>11, <2>1
      <3>2. v[j].active <= v[k].active
        BY <1>11, <3>1 DEF SortedFrom, SortedPart
      <3>3. w[j] = v[j] /\ w[k] = v[k]
        BY <1>9, <1>11, <2>1, <3>1
      <3> QED
        BY <3>2, <3>3
    <2>2. CASE m < j
      <3>1. m < hi /\ m + 1 <= j
        BY <1>0, <1>1, <1>11, <2>2
      <3> QED
        BY <1>11, <3>1 DEF SortedFrom, SortedPart
    <2>3. CASE j <= m /\ m <= k
      <3>1. w[j].active <= w[m].active
        <4>1. j = m \/ j < m
          BY <1>1, <2>3
        <4> QED
          BY <1>2, <1>9, <1>11, <4>1
      <3>2. w[m].active <= w[k].active
        <4>1. k = m \/ m < k
          BY <1>1, <2>3
        <4> QED
          BY <1>2, <1>10, <1>11, <4>1
      <3> QED
        BY <1>2, <3>1, <3>2
    <2> QED
      BY <1>1, <2>1, <2>2, <2>3
  <1> QED
    BY <1>5, <1>11 DEF SortedFrom, SortedPart

\* A step looks at g for smaller parts only, and if these are sorted so is what
\* it makes.
LEMMA SortSame ==
    ASSUME NEW s, IsList(s), NEW t \in Lists(s), NEW lo \in DOMAIN s, NEW hi \in DOMAIN s,
           NEW g, NEW h,
           \A u \in Lists(s), a \in DOMAIN s, b \in DOMAIN s :
               b - a < hi - lo => g[<<u, a, b>>] = h[<<u, a, b>>],
           \A u \in Lists(s), a \in DOMAIN s, b \in DOMAIN s :
               a <= b /\ b - a < hi - lo => SortedFrom(s, u, a, b, h[<<u, a, b>>])
    PROVE  /\ SortStep(g, <<t, lo, hi>>) = SortStep(h, <<t, lo, hi>>)
           /\ lo <= hi => SortedFrom(s, t, lo, hi, SortStep(h, <<t, lo, hi>>))
  <1>0. PICK n \in Nat : DOMAIN s = 1..n
    BY DEF IsList
  <1> DEFINE u == Partition(t, lo, hi)[1]
             m == Partition(t, lo, hi)[2]
             v == IF lo < m THEN h[<<u, lo, m - 1>>] ELSE u
             w == IF m < hi THEN h[<<v, m + 1, hi>>] ELSE v
             v1 == IF lo < m THEN g[<<u, lo, m - 1>>] ELSE u
             w1 == IF m < hi THEN g[<<v1, m + 1, hi>>] ELSE v1
  <1>a. lo \in Int /\ hi \in Int
    BY <1>0
  <1>1. CASE lo <= hi
    <2>1. /\ u \in Lists(s) /\ m \in DOMAIN s /\ lo <= m /\ m <= hi
          /\ Rearranged(u, t, lo, hi)
          /\ \A j \in DOMAIN s : lo <= j /\ j <= m => u[j].active <= u[m].active
          /\ \A j \in DOMAIN s : m <= j /\ j <= hi => u[m].active <= u[j].active
      BY <1>1, PartitionMakes
    <2>2. SortStep(h, <<t, lo, hi>>) = w
      <3>1. m < hi <=> hi > m
        BY <1>0, <2>1
      <3> QED
        BY <3>1 DEF SortStep
    <2>3. SortStep(g, <<t, lo, hi>>) = w1
      <3>1. m < hi <=> hi > m
        BY <1>0, <2>1
      <3> QED
        BY <3>1 DEF SortStep
    <2> HIDE DEF u, m
    <2>4. /\ lo < m => /\ m - 1 \in DOMAIN s /\ lo <= m - 1 /\ (m - 1) - lo < hi - lo
          /\ m < hi => /\ m + 1 \in DOMAIN s /\ m + 1 <= hi /\ hi - (m + 1) < hi - lo
      BY <1>0, <1>a, <2>1
    <2>5. /\ IF lo < m THEN SortedFrom(s, u, lo, m - 1, v) ELSE v = u
          /\ v \in Lists(s) /\ v = v1
      <3>1. CASE lo < m
        <4> DEFINE b == m - 1
        <4>1. b \in DOMAIN s /\ lo <= b /\ b - lo < hi - lo
          BY <2>4, <3>1
        <4> HIDE DEF b
        <4>2. SortedFrom(s, u, lo, b, h[<<u, lo, b>>])
          BY <2>1, <4>1
        <4>3. g[<<u, lo, b>>] = h[<<u, lo, b>>]
          BY <2>1, <4>1
        <4>4. v = h[<<u, lo, b>>] /\ v1 = g[<<u, lo, b>>]
          BY <3>1 DEF b
        <4> QED
          BY <3>1, <4>2, <4>3, <4>4 DEF SortedFrom, b
      <3>2. CASE ~(lo < m)
        BY <2>1, <3>2
      <3> QED
        BY <3>1, <3>2
    <2> HIDE DEF v, v1
    <2>6. /\ IF m < hi THEN SortedFrom(s, v, m + 1, hi, w) ELSE w = v
          /\ w \in Lists(s) /\ w = w1
      <3>1. CASE m < hi
        <4> DEFINE a == m + 1
        <4>1. a \in DOMAIN s /\ a <= hi /\ hi - a < hi - lo
          BY <2>4, <3>1
        <4> HIDE DEF a
        <4>2. SortedFrom(s, v, a, hi, h[<<v, a, hi>>])
          BY <2>5, <4>1
        <4>3. g[<<v, a, hi>>] = h[<<v, a, hi>>]
          BY <2>5, <4>1
        <4>4. w = h[<<v, a, hi>>] /\ w1 = g[<<v, a, hi>>]
          BY <2>5, <3>1 DEF a
        <4> QED
          BY <3>1, <4>2, <4>3, <4>4 DEF SortedFrom, a
      <3>2. CASE ~(m < hi)
        BY <2>5, <3>2
      <3> QED
        BY <3>1, <3>2
    <2> HIDE DEF w, w1
    <2>7. SortedFrom(s, t, lo, hi, w)
      BY <1>1, <2>1, <2>5, <2>6, SortBoth
    <2> QED
      BY <2>2, <2>3, <2>6, <2>7
  <1>2. CASE ~(lo <= hi)
    <2>1. IsList(t) /\ DOMAIN t = DOMAIN s
      BY ListsIs
    <2>2. u = t /\ m = lo
      BY <1>a, <1>2, <2>1, PartitionNone
    <2>3. ~(lo < lo) /\ ~(hi > lo)
      BY <1>a, <1>2
    <2>4. SortStep(g, <<t, lo, hi>>) = t /\ SortStep(h, <<t, lo, hi>>) = t
      BY <2>2, <2>3 DEF SortStep
    <2> QED
      BY <1>2, <2>4
  <1> QED
    BY <1>1, <1>2

\* The recursion has a solution, which sorts.
LEMMA SortExists ==
    ASSUME NEW s, IsList(s)
    PROVE  \E g : /\ g = [x \in Parts(s) |-> SortStep(g, x)]
                  /\ \A t \in Lists(s), a \in DOMAIN s, b \in DOMAIN s :
                        a <= b => SortedFrom(s, t, a, b, g[<<t, a, b>>])
  <1>0. PICK N \in Nat : DOMAIN s = 1..N
    BY DEF IsList
  <1> DEFINE D == DOMAIN s
             L == Lists(s)
             Solves(g, n) == \A t \in L, a \in D, b \in D :
                b - a + N <= n =>
                    /\ g[<<t, a, b>>] = SortStep(g, <<t, a, b>>)
                    /\ a <= b => SortedFrom(s, t, a, b, g[<<t, a, b>>])
             S == {n \in Nat : \E g : Solves(g, n)}
  <1>a. \A a \in D, b \in D : a \in Int /\ b \in Int /\ b - a + N > 0 /\ b - a + N <= N + N
    BY <1>0
  <1>b. Parts(s) = L \X D \X D
    BY DEF Parts
  <1>1. ASSUME NEW n \in Nat, \A m \in Nat : m < n => m \in S
        PROVE  n \in S
    <2>1. PICK h : \A t \in L, a \in D, b \in D :
                b - a + N < n =>
                    /\ h[<<t, a, b>>] = SortStep(h, <<t, a, b>>)
                    /\ a <= b => SortedFrom(s, t, a, b, h[<<t, a, b>>])
      <3>1. CASE n = 0
        BY <3>1, <1>a
      <3>2. CASE n # 0
        <4>1. n - 1 \in Nat /\ n - 1 < n
          BY <3>2
        <4>2. PICK g : Solves(g, n - 1)
          BY <1>1, <4>1
        <4>3. \A a \in D, b \in D : b - a + N < n => b - a + N <= n - 1
          BY <1>0, <1>a
        <4> QED
          BY <4>2, <4>3
      <3> QED
        BY <3>1, <3>2
    <2> DEFINE g == [x \in Parts(s) |-> SortStep(h, x)]
    <2>3. \A t \in L, a \in D, b \in D : g[<<t, a, b>>] = SortStep(h, <<t, a, b>>)
      BY <1>b
    <2>2. \A t \in L, a \in D, b \in D :
                b - a + N < n => g[<<t, a, b>>] = h[<<t, a, b>>]
      BY <2>1, <2>3
    <2> HIDE DEF g
    <2>4. ASSUME NEW t \in L, NEW a \in D, NEW b \in D, b - a + N <= n
          PROVE  /\ g[<<t, a, b>>] = SortStep(g, <<t, a, b>>)
                 /\ a <= b => SortedFrom(s, t, a, b, g[<<t, a, b>>])
      <3>1. \A u \in L, c \in D, d \in D : d - c < b - a => d - c + N < n
        BY <1>0, <1>a, <2>4
      <3>2. \A u \in L, c \in D, d \in D : d - c < b - a =>
                g[<<u, c, d>>] = h[<<u, c, d>>]
        BY <2>2, <3>1
      <3>3. \A u \in L, c \in D, d \in D : c <= d /\ d - c < b - a =>
                SortedFrom(s, u, c, d, h[<<u, c, d>>])
        BY <2>1, <3>1
      <3>4. SortStep(g, <<t, a, b>>) = SortStep(h, <<t, a, b>>)
        BY <3>2, <3>3, SortSame
      <3>5. a <= b => SortedFrom(s, t, a, b, SortStep(h, <<t, a, b>>))
        BY <3>2, <3>3, SortSame
      <3> QED
        BY <2>3, <3>4, <3>5
    <2> QED
      BY <2>4
  <1>2. N + N \in S
    <2> HIDE DEF S
    <2> QED
      BY <1>0, <1>1, Induct
  <1>3. PICK g : Solves(g, N + N)
    BY <1>2
  <1>4. \A t \in L, a \in D, b \in D :
            /\ g[<<t, a, b>>] = SortStep(g, <<t, a, b>>)
            /\ a <= b => SortedFrom(s, t, a, b, g[<<t, a, b>>])
    BY <1>a, <1>3
  <1> DEFINE f == [x \in Parts(s) |-> g[x]]
  <1>5. \A t \in L, a \in D, b \in D : f[<<t, a, b>>] = g[<<t, a, b>>]
    BY <1>b
  <1>6. f = [x \in Parts(s) |-> f[x]]
    OBVIOUS
  <1> HIDE DEF f
  <1>7. ASSUME NEW t \in L, NEW a \in D, NEW b \in D
        PROVE  f[<<t, a, b>>] = SortStep(f, <<t, a, b>>)
    <2>1. SortStep(f, <<t, a, b>>) = SortStep(g, <<t, a, b>>)
      BY <1>4, <1>5, SortSame
    <2> QED
      BY <1>4, <1>5, <2>1
  <1>8. \A x \in Parts(s) : f[x] = SortStep(f, x)
    <2>1. \A x \in Parts(s) : \E t \in L, a \in D, b \in D : x = <<t, a, b>>
      BY <1>b
    <2> QED
      BY <1>7, <2>1
  <1>9. f = [x \in Parts(s) |-> SortStep(f, x)]
    BY <1>6, <1>8
  <1>10. \A t \in L, a \in D, b \in D :
            a <= b => SortedFrom(s, t, a, b, f[<<t, a, b>>])
    BY <1>4, <1>5
  <1> HIDE DEF L, D
  <1> QED
    BY <1>9, <1>10 DEF L, D

LEMMA SortStepEq ==
    ASSUME NEW s, IsList(s), NEW f, NEW g,
           \A x \in Parts(s) : f[x] = SortStep(f, x),
           \A x \in Parts(s) : g[x] = SortStep(g, x),
           \A t \in Lists(s), a \in DOMAIN s, b \in DOMAIN s :
                        a <= b => SortedFrom(s, t, a, b, g[<<t, a, b>>])
    PROVE  \A t \in Lists(s), a \in DOMAIN s, b \in DOMAIN s :
                        f[<<t, a, b>>] = g[<<t, a, b>>]
  <1>0. PICK N \in Nat : DOMAIN s = 1..N
    BY DEF IsList
  <1> DEFINE S == {n \in Nat : \A t \in Lists(s), a \in DOMAIN s, b \in DOMAIN s :
                      b - a + N = n => f[<<t, a, b>>] = g[<<t, a, b>>]}
  <1>a. \A a \in DOMAIN s, b \in DOMAIN s : b - a + N \in Nat /\ b - a \in Int
    BY <1>0
  <1>1. ASSUME NEW n \in Nat, \A m \in Nat : m < n => m \in S
        PROVE  n \in S
    <2> SUFFICES ASSUME NEW t \in Lists(s), NEW a \in DOMAIN s, NEW b \in DOMAIN s,
                        b - a + N = n
                 PROVE  f[<<t, a, b>>] = g[<<t, a, b>>]
      OBVIOUS
    <2>1. \A u \in Lists(s), c \in DOMAIN s, d \in DOMAIN s :
               d - c < b - a => f[<<u, c, d>>] = g[<<u, c, d>>]
      <3> SUFFICES ASSUME NEW u \in Lists(s), NEW c \in DOMAIN s, NEW d \in DOMAIN s,
                          d - c < b - a
                   PROVE  f[<<u, c, d>>] = g[<<u, c, d>>]
        OBVIOUS
      <3>1. d - c + N \in Nat /\ d - c + N < n
        BY <1>0, <1>a
      <3>2. d - c + N \in S
        BY <1>1, <3>1
      <3> QED
        BY <3>2
    <2>4. \A u \in Lists(s), c \in DOMAIN s, d \in DOMAIN s :
             c <= d /\ d - c < b - a => SortedFrom(s, u, c, d, g[<<u, c, d>>])
      OBVIOUS
    <2>2. SortStep(f, <<t, a, b>>) = SortStep(g, <<t, a, b>>)
      BY <2>1, <2>4, SortSame
    <2>3. <<t, a, b>> \in Parts(s)
      BY DEF Parts
    <2> QED
      BY <2>2, <2>3
  <1>2. \A n \in Nat : n \in S
    <2> HIDE DEF S
    <2> QED
      BY <1>1, Induct
  <1> QED
    BY <1>a, <1>2

\* SortFeature sorts.
LEMMA SortFeatureIs ==
    ASSUME NEW s, IsList(s), NEW left \in DOMAIN s, NEW right \in DOMAIN s, left <= right
    PROVE  SortedFrom(s, s, left, right, SortFeature(s, left, right))
  <1> DEFINE f == CHOOSE g : g = [x \in Parts(s) |-> SortStep(g, x)]
  <1>1. PICK g : /\ g = [x \in Parts(s) |-> SortStep(g, x)]
                 /\ \A t \in Lists(s), a \in DOMAIN s, b \in DOMAIN s :
                        a <= b => SortedFrom(s, t, a, b, g[<<t, a, b>>])
    BY SortExists
  <1>2. f = [x \in Parts(s) |-> SortStep(f, x)]
    BY <1>1
  <1>3. SortFeature(s, left, right) = f[<<s, left, right>>]
    BY SortFeatureDef
  <1> HIDE DEF f
  <1>4. s \in Lists(s)
    BY ListsIs
  <1>5. f[<<s, left, right>>] = g[<<s, left, right>>]
    <2>1. \A x \in Parts(s) : g[x] = SortStep(g, x)
      BY <1>1
    <2>2. \A x \in Parts(s) : f[x] = SortStep(f, x)
      BY <1>2
    <2> QED
      BY <1>1, <1>4, <2>1, <2>2, SortStepEq
  <1> QED
    BY <1>1, <1>3, <1>4, <1>5

-----------------------------------------------------------------------------
(* FindSorted *)

SearchStep(s, id, g, x) ==
    LET mid == (x[1] + x[2]) \div 2
    IN  IF x[1] > x[2] THEN 0
        ELSE IF id > s[mid].active THEN g[<<mid + 1, x[2]>>]
        ELSE IF id < s[mid].active THEN g[<<x[1], mid - 1>>]
        ELSE mid

\* From where to where it searches
Spans(n) == (1..n + 1) \X (0..n)

LEMMA FindSortedDef ==
    ASSUME NEW s, NEW id
    PROVE  FindSorted(s, id) =
              (CHOOSE g : g = [x \in Spans(Len(s)) |-> SearchStep(s, id, g, x)])[<<1, Len(s)>>]
  BY DEF FindSorted, SearchStep, Spans

LEMMA Middle ==
    ASSUME NEW n \in Nat, NEW a \in 1..n + 1, NEW b \in 0..n, a <= b,
           NEW m, m = (a + b) \div 2
    PROVE  /\ m \in 1..n /\ a <= m /\ m <= b
           /\ m + 1 \in 1..n + 1 /\ b - (m + 1) < b - a
           /\ m - 1 \in 0..n /\ (m - 1) - a < b - a
  <1>1. m \in Int /\ a <= m /\ m <= b
    OBVIOUS
  <1> QED
    BY <1>1

LEMMA SearchSame ==
    ASSUME NEW n \in Nat, NEW s, NEW id, NEW a \in 1..n + 1, NEW b \in 0..n,
           NEW g, NEW h,
           \A c \in 1..n + 1, d \in 0..n : d - c < b - a => g[<<c, d>>] = h[<<c, d>>]
    PROVE  SearchStep(s, id, g, <<a, b>>) = SearchStep(s, id, h, <<a, b>>)
  <1> DEFINE m == (a + b) \div 2
  <1>1. /\ SearchStep(s, id, g, <<a, b>>) =
              IF a > b THEN 0
              ELSE IF id > s[m].active THEN g[<<m + 1, b>>]
              ELSE IF id < s[m].active THEN g[<<a, m - 1>>]
              ELSE m
        /\ SearchStep(s, id, h, <<a, b>>) =
              IF a > b THEN 0
              ELSE IF id > s[m].active THEN h[<<m + 1, b>>]
              ELSE IF id < s[m].active THEN h[<<a, m - 1>>]
              ELSE m
    BY DEF SearchStep
  <1>2. CASE a > b
    BY <1>1, <1>2
  <1>3. CASE ~(a > b)
    <2>1. /\ m + 1 \in 1..n + 1 /\ b - (m + 1) < b - a
          /\ m - 1 \in 0..n /\ (m - 1) - a < b - a
      BY <1>3, Middle
    <2> HIDE DEF m
    <2>2. g[<<m + 1, b>>] = h[<<m + 1, b>>]
      <3> DEFINE c == m + 1
      <3>1. c \in 1..n + 1 /\ b - c < b - a
        BY <2>1
      <3> HIDE DEF c
      <3>2. g[<<c, b>>] = h[<<c, b>>]
        BY <3>1
      <3> QED
        BY <3>2 DEF c
    <2>3. g[<<a, m - 1>>] = h[<<a, m - 1>>]
      <3> DEFINE d == m - 1
      <3>1. d \in 0..n /\ d - a < b - a
        BY <2>1
      <3> HIDE DEF d
      <3>2. g[<<a, d>>] = h[<<a, d>>]
        BY <3>1
      <3> QED
        BY <3>2 DEF d
    <2> QED
      BY <1>1, <2>2, <2>3
  <1> QED
    BY <1>2, <1>3

LEMMA SearchExists ==
    ASSUME NEW n \in Nat, NEW s, NEW id
    PROVE  \E g : g = [x \in Spans(n) |-> SearchStep(s, id, g, x)]
  <1> DEFINE A == 1..n + 1
             B == 0..n
             Solves(g, k) == \A a \in A, b \in B :
                b - a + n + 1 <= k => g[<<a, b>>] = SearchStep(s, id, g, <<a, b>>)
             S == {k \in Nat : \E g : Solves(g, k)}
  <1>a. \A a \in A, b \in B : a \in Int /\ b \in Int /\ b - a + n + 1 >= 0
                              /\ b - a + n + 1 <= n + n
    OBVIOUS
  <1>b. Spans(n) = A \X B
    BY DEF Spans
  <1>1. ASSUME NEW k \in Nat, \A m \in Nat : m < k => m \in S
        PROVE  k \in S
    <2>1. PICK h : \A a \in A, b \in B :
                b - a + n + 1 < k => h[<<a, b>>] = SearchStep(s, id, h, <<a, b>>)
      <3>1. CASE k = 0
        BY <3>1, <1>a
      <3>2. CASE k # 0
        <4>1. k - 1 \in Nat /\ k - 1 < k
          BY <3>2
        <4>2. PICK g : Solves(g, k - 1)
          BY <1>1, <4>1
        <4>3. \A a \in A, b \in B : b - a + n + 1 < k => b - a + n + 1 <= k - 1
          BY <1>a
        <4> QED
          BY <4>2, <4>3
      <3> QED
        BY <3>1, <3>2
    <2> DEFINE g == [x \in Spans(n) |-> SearchStep(s, id, h, x)]
    <2>3. \A a \in A, b \in B : g[<<a, b>>] = SearchStep(s, id, h, <<a, b>>)
      BY <1>b
    <2>2. \A a \in A, b \in B : b - a + n + 1 < k => g[<<a, b>>] = h[<<a, b>>]
      BY <2>1, <2>3
    <2> HIDE DEF g
    <2>4. ASSUME NEW a \in A, NEW b \in B, b - a + n + 1 <= k
          PROVE  g[<<a, b>>] = SearchStep(s, id, g, <<a, b>>)
      <3>1. \A c \in A, d \in B : d - c < b - a => d - c + n + 1 < k
        BY <1>a, <2>4
      <3>2. \A c \in A, d \in B : d - c < b - a => g[<<c, d>>] = h[<<c, d>>]
        BY <2>2, <3>1
      <3>3. SearchStep(s, id, g, <<a, b>>) = SearchStep(s, id, h, <<a, b>>)
        <4>1. a \in 1..n + 1 /\ b \in 0..n
          OBVIOUS
        <4>2. \A c \in 1..n + 1, d \in 0..n : d - c < b - a => g[<<c, d>>] = h[<<c, d>>]
          BY <3>2
        <4> HIDE DEF A, B
        <4> QED
          BY <4>1, <4>2, SearchSame, SMTT(20)
      <3> QED
        BY <2>3, <3>3
    <2> QED
      BY <2>4
  <1>2. n + n \in S
    <2> HIDE DEF S
    <2>1. n + n \in Nat
      OBVIOUS
    <2> QED
      BY <2>1, <1>1, Induct
  <1>3. PICK g : Solves(g, n + n)
    BY <1>2
  <1>4. \A a \in A, b \in B : g[<<a, b>>] = SearchStep(s, id, g, <<a, b>>)
    BY <1>a, <1>3
  <1> DEFINE f == [x \in Spans(n) |-> g[x]]
  <1>5. \A a \in A, b \in B : f[<<a, b>>] = g[<<a, b>>]
    BY <1>b
  <1>6. f = [x \in Spans(n) |-> f[x]]
    OBVIOUS
  <1> HIDE DEF f
  <1>7. ASSUME NEW a \in A, NEW b \in B
        PROVE  f[<<a, b>>] = SearchStep(s, id, f, <<a, b>>)
    <2>1. SearchStep(s, id, f, <<a, b>>) = SearchStep(s, id, g, <<a, b>>)
      BY <1>5, SearchSame
    <2> QED
      BY <1>4, <1>5, <2>1
  <1>8. \A x \in Spans(n) : f[x] = SearchStep(s, id, f, x)
    <2>1. \A x \in Spans(n) : \E a \in A, b \in B : x = <<a, b>>
      BY <1>b
    <2> QED
      BY <1>7, <2>1
  <1>9. f = [x \in Spans(n) |-> SearchStep(s, id, f, x)]
    BY <1>6, <1>8
  <1> QED
    BY <1>9

\* FindSorted finds what a sorted list has.
LEMMA FindSortedIs ==
    ASSUME NEW T, NEW s \in Seq(T), NEW id \in Int,
           \A j \in DOMAIN s : s[j].active \in Int, Sorted(s),
           NEW j \in DOMAIN s, s[j].active = id
    PROVE  /\ FindSorted(s, id) \in DOMAIN s
           /\ s[FindSorted(s, id)].active = id
  <1> DEFINE n == Len(s)
             g == CHOOSE f : f = [x \in Spans(Len(s)) |-> SearchStep(s, id, f, x)]
  <1>0. n \in Nat /\ DOMAIN s = 1..n
    BY LenProperties
  <1>1. g = [x \in Spans(n) |-> SearchStep(s, id, g, x)]
    BY <1>0, SearchExists
  <1>2. FindSorted(s, id) = g[<<1, n>>]
    BY FindSortedDef
  <1> HIDE DEF g, n
  <1> DEFINE S == {k \in Nat : \A a \in 1..n + 1, b \in 0..n :
                      a <= j /\ j <= b /\ b - a = k =>
                          g[<<a, b>>] \in DOMAIN s /\ s[g[<<a, b>>]].active = id}
  <1>3. ASSUME NEW k \in Nat, \A m \in Nat : m < k => m \in S
        PROVE  k \in S
    <2> SUFFICES ASSUME NEW a \in 1..n + 1, NEW b \in 0..n,
                        a <= j, j <= b, b - a = k
                 PROVE  g[<<a, b>>] \in DOMAIN s /\ s[g[<<a, b>>]].active = id
      OBVIOUS
    <2>0. \A c \in 1..n + 1, d \in 0..n : c <= j /\ j <= d /\ d - c < b - a =>
             g[<<c, d>>] \in DOMAIN s /\ s[g[<<c, d>>]].active = id
      <3> SUFFICES ASSUME NEW c \in 1..n + 1, NEW d \in 0..n,
                          c <= j, j <= d, d - c < b - a
                   PROVE  g[<<c, d>>] \in DOMAIN s /\ s[g[<<c, d>>]].active = id
        OBVIOUS
      <3>1. d - c \in Nat /\ d - c < k
        BY <1>0
      <3>2. d - c \in S
        BY <1>3, <3>1
      <3> QED
        BY <3>2
    <2> DEFINE m == (a + b) \div 2
    <2>1. <<a, b>> \in Spans(n)
      BY DEF Spans
    <2>2. g[<<a, b>>] = SearchStep(s, id, g, <<a, b>>)
      BY <1>1, <2>1
    <2>3. a <= b
      BY <1>0
    <2>4. g[<<a, b>>] = IF id > s[m].active THEN g[<<m + 1, b>>]
                        ELSE IF id < s[m].active THEN g[<<a, m - 1>>]
                        ELSE m
      <3>1. ~(a > b)
        BY <2>3
      <3> QED
        BY <2>2, <3>1 DEF SearchStep
    <2>5. /\ m \in DOMAIN s /\ a <= m /\ m <= b
          /\ m + 1 \in 1..n + 1 /\ b - (m + 1) < b - a
          /\ m - 1 \in 0..n /\ (m - 1) - a < b - a
      BY <1>0, <2>3, Middle
    <2> HIDE DEF m
    <2>6. s[m].active \in Int /\ s[j].active \in Int
      BY <2>5
    <2>7. CASE id > s[m].active
      <3>1. m < j
        <4> SUFFICES ASSUME ~(m < j) PROVE FALSE
          OBVIOUS
        <4>1. j = m \/ j < m
          BY <1>0, <2>5
        <4>2. s[j].active <= s[m].active
          BY <2>5, <2>6, <4>1, SMTT(30) DEF Sorted
        <4> QED
          BY <2>6, <2>7, <4>2
      <3> DEFINE c == m + 1
      <3>2. c \in 1..n + 1 /\ c <= j /\ b - c < b - a
        BY <1>0, <2>5, <3>1
      <3> HIDE DEF c
      <3>3. g[<<c, b>>] \in DOMAIN s /\ s[g[<<c, b>>]].active = id
        BY <2>0, <3>2
      <3> QED
        BY <2>4, <2>7, <3>3 DEF c
    <2>8. CASE id < s[m].active
      <3>1. j < m
        <4> SUFFICES ASSUME ~(j < m) PROVE FALSE
          OBVIOUS
        <4>1. j = m \/ m < j
          BY <1>0, <2>5
        <4>2. s[m].active <= s[j].active
          BY <2>5, <2>6, <4>1, SMTT(30) DEF Sorted
        <4> QED
          BY <2>6, <2>8, <4>2
      <3> DEFINE d == m - 1
      <3>2. d \in 0..n /\ j <= d /\ d - a < b - a
        BY <1>0, <2>5, <3>1
      <3> HIDE DEF d
      <3>3. g[<<a, d>>] \in DOMAIN s /\ s[g[<<a, d>>]].active = id
        BY <2>0, <3>2
      <3>4. ~(id > s[m].active)
        BY <2>6, <2>8
      <3> QED
        BY <2>4, <2>8, <3>3, <3>4 DEF d
    <2>9. CASE ~(id > s[m].active) /\ ~(id < s[m].active)
      BY <2>4, <2>5, <2>6, <2>9, SMTT(30)
    <2> QED
      BY <2>7, <2>8, <2>9
  <1>4. n - 1 \in Nat /\ 1 \in 1..n + 1 /\ n \in 0..n /\ 1 <= j /\ j <= n
    BY <1>0
  <1>5. n - 1 \in S
    <2> HIDE DEF S
    <2> QED
      BY <1>3, <1>4, Induct
  <1> QED
    BY <1>2, <1>4, <1>5

-----------------------------------------------------------------------------
(* What the database returns *)

\* Rows of features, told apart by RowBefore
IsTable(S, T) ==
    /\ IsFiniteSet(S) /\ S \subseteq T
    /\ \A x, y \in S : x # y => RowBefore(x, y) \/ RowBefore(y, x)
    /\ \A x, y \in S : ~(RowBefore(x, y) /\ RowBefore(y, x))
    /\ \A x, y, z \in S : RowBefore(x, y) /\ RowBefore(y, z) => RowBefore(x, z)
    /\ \A x \in S : ~RowBefore(x, x)

\* So many come before each of them, that there is one for each number.
LEMMA InOrderIs ==
    ASSUME NEW S, NEW T, IsTable(S, T)
    PROVE  /\ InOrder(S) \in [1..Cardinality(S) -> S]
           /\ \A j, k \in 1..Cardinality(S) :
                 j < k => RowBefore(InOrder(S)[j], InOrder(S)[k])
           /\ \A x \in S : \E k \in 1..Cardinality(S) : InOrder(S)[k] = x
  <1> DEFINE n == Cardinality(S)
             Below(x) == {y \in S : RowBefore(y, x)}
             place == [x \in S |-> Cardinality(Below(x))]
             N == 0..n - 1
  <1>1. n \in Nat /\ IsFiniteSet(S)
    BY FS_CardinalityType DEF IsTable
  <1>2. \A x \in S : IsFiniteSet(Below(x)) /\ Cardinality(Below(x)) \in Nat
    BY <1>1, FS_Subset, FS_CardinalityType
  <1>3. \A x, y \in S : RowBefore(x, y) => Cardinality(Below(x)) < Cardinality(Below(y))
    <2> SUFFICES ASSUME NEW x \in S, NEW y \in S, RowBefore(x, y)
                 PROVE  Cardinality(Below(x)) < Cardinality(Below(y))
      OBVIOUS
    <2>1. Below(x) \subseteq Below(y) /\ x \in Below(y) /\ x \notin Below(x)
      BY DEF IsTable
    <2>2. IsFiniteSet(Below(y)) /\ Below(x) \in SUBSET Below(y) /\ Below(x) # Below(y)
      BY <1>2, <2>1
    <2> HIDE DEF Below
    <2>3. /\ Cardinality(Below(x)) <= Cardinality(Below(y))
          /\ Cardinality(Below(x)) # Cardinality(Below(y))
      BY <2>2, FS_Subset
    <2> QED
      BY <1>2, <2>3
  <1>4. \A x \in S : Cardinality(Below(x)) \in N
    <2> SUFFICES ASSUME NEW x \in S PROVE Cardinality(Below(x)) \in N
      OBVIOUS
    <2>1. Below(x) \in SUBSET S /\ Below(x) # S
      BY DEF IsTable
    <2> HIDE DEF Below
    <2>2. Cardinality(Below(x)) <= n /\ n # Cardinality(Below(x))
      BY <1>1, <2>1, FS_Subset
    <2> QED
      BY <1>1, <1>2, <2>2
  <1>5. IsFiniteSet(N) /\ Cardinality(N) = n
    <2>1. 0 \in Int /\ n - 1 \in Int
      BY <1>1
    <2> HIDE DEF n
    <2>2. IsFiniteSet(N) /\ Cardinality(N) = IF 0 > n - 1 THEN 0 ELSE (n - 1) - 0 + 1
      BY <2>1, FS_Interval
    <2>3. n \in Nat
      BY <1>1 DEF n
    <2> QED
      BY <2>2, <2>3
  <1> HIDE DEF Below
  <1>6. place \in Injection(S, N)
    <2>1. place \in [S -> N]
      BY <1>4
    <2>2. \A x, y \in S : x # y => place[x] # place[y]
      <3> SUFFICES ASSUME NEW x \in S, NEW y \in S, x # y
                   PROVE  place[x] # place[y]
        OBVIOUS
      <3>1. RowBefore(x, y) \/ RowBefore(y, x)
        BY DEF IsTable
      <3>2. Cardinality(Below(x)) # Cardinality(Below(y))
        BY <1>2, <1>3, <3>1
      <3> QED
        BY <3>2
    <2> QED
      BY <2>1, <2>2 DEF Injection, IsInjective
  <1>7. place \in Surjection(S, N)
    <2> HIDE DEF place, N, n
    <2>1. Cardinality(S) = Cardinality(N)
      BY <1>5 DEF n
    <2> QED
      BY <1>5, <1>6, <2>1, FS_Injection
  <1>8. \A k \in N : \E x \in S : Cardinality(Below(x)) = k
    BY <1>7 DEF Surjection
  <1> DEFINE sorted == [k \in 1..n |-> CHOOSE x \in S : Cardinality(Below(x)) = k - 1]
  <1>9. ASSUME NEW k \in 1..n
        PROVE  sorted[k] \in S /\ Cardinality(Below(sorted[k])) = k - 1
    <2>1. k - 1 \in N
      BY <1>1, <1>9
    <2>2. \E x \in S : Cardinality(Below(x)) = k - 1
      BY <1>8, <2>1
    <2> QED
      BY <2>2
  <1>10. InOrder(S) = sorted /\ DOMAIN sorted = 1..n
    BY DEF InOrder, Below
  <1>11. sorted \in [1..n -> S]
    BY <1>9
  <1> HIDE DEF sorted, n
  <1>12. ASSUME NEW j \in 1..n, NEW k \in 1..n, j < k
         PROVE  RowBefore(sorted[j], sorted[k])
    <2> DEFINE x == sorted[j]
               y == sorted[k]
    <2>1. /\ x \in S /\ y \in S
          /\ Cardinality(Below(x)) = j - 1 /\ Cardinality(Below(y)) = k - 1
      BY <1>9
    <2> HIDE DEF x, y
    <2>2. Cardinality(Below(x)) < Cardinality(Below(y))
      BY <1>1, <1>12, <2>1
    <2>3. ~(Cardinality(Below(y)) < Cardinality(Below(x))) /\ x # y
      BY <1>2, <2>1, <2>2
    <2>4. RowBefore(x, y)
      BY <1>3, <2>1, <2>3 DEF IsTable
    <2> QED
      BY <2>4 DEF x, y
  <1>13. ASSUME NEW x \in S
         PROVE  \E k \in 1..n : sorted[k] = x
    <2> DEFINE k == Cardinality(Below(x)) + 1
    <2>1. Cardinality(Below(x)) \in N
      BY <1>4
    <2>2. k \in 1..n /\ k - 1 = Cardinality(Below(x))
      BY <1>1, <2>1
    <2> HIDE DEF k
    <2> DEFINE y == sorted[k]
    <2>3. y \in S /\ Cardinality(Below(y)) = Cardinality(Below(x))
      BY <1>9, <2>2
    <2> HIDE DEF y
    <2>4. x = y
      <3> SUFFICES ASSUME x # y PROVE FALSE
        OBVIOUS
      <3>1. RowBefore(x, y) \/ RowBefore(y, x)
        BY <2>3 DEF IsTable
      <3> QED
        BY <1>2, <1>3, <2>3, <3>1
    <2> QED
      BY <2>2, <2>4 DEF y
  <1> QED
    BY <1>10, <1>11, <1>12, <1>13 DEF n

Flat(s, g, i) == IF i = 1 THEN s[i] ELSE g[i - 1] \o s[i]

LEMMA FlattenSeqDef ==
    ASSUME NEW s
    PROVE  FlattenSeq(s) =
              IF Len(s) = 0 THEN s
              ELSE (CHOOSE g : g = [i \in 1..Len(s) |-> Flat(s, g, i)])[Len(s)]
  BY DEF FlattenSeq, Flat

LEMMA FlattenSeqExists ==
    ASSUME NEW s, Len(s) \in Nat
    PROVE  \E e : /\ \A i \in 1..Len(s) : e[i] = Flat(s, e, i)
                  /\ FlattenSeq(s) = IF Len(s) = 0 THEN s ELSE e[Len(s)]
  <1> DEFINE n == Len(s)
             Solves(g, k) == \A i \in 1..n : i <= k => g[i] = Flat(s, g, i)
             S == {k \in Nat : \E g : Solves(g, k)}
  <1>0. n \in Nat
    OBVIOUS
  <1> HIDE DEF n
  <1>1. ASSUME NEW k \in Nat, \A m \in Nat : m < k => m \in S
        PROVE  k \in S
    <2>1. PICK h : \A i \in 1..n : i < k => h[i] = Flat(s, h, i)
      <3>1. CASE k = 0
        BY <3>1
      <3>2. CASE k # 0
        <4>1. k - 1 \in Nat /\ k - 1 < k
          BY <3>2
        <4>2. PICK g : Solves(g, k - 1)
          BY <1>1, <4>1
        <4>3. \A i \in 1..n : i < k => i <= k - 1
          OBVIOUS
        <4> QED
          BY <4>2, <4>3
      <3> QED
        BY <3>1, <3>2
    <2> DEFINE g == [i \in 1..n |-> Flat(s, h, i)]
    <2>2. \A i \in 1..n : g[i] = Flat(s, h, i)
      OBVIOUS
    <2> HIDE DEF g
    <2>3. ASSUME NEW i \in 1..n, i <= k
          PROVE  g[i] = Flat(s, g, i)
      <3>1. CASE i = 1
        BY <2>2, <3>1 DEF Flat
      <3>2. CASE i # 1
        <4>1. i - 1 \in 1..n /\ i - 1 < k
          BY <1>0, <2>3, <3>2
        <4>2. g[i - 1] = h[i - 1]
          BY <2>1, <2>2, <4>1
        <4> QED
          BY <2>2, <3>2, <4>2 DEF Flat
      <3> QED
        BY <3>1, <3>2
    <2> QED
      BY <2>3
  <1>2. n \in S
    <2> HIDE DEF S
    <2> QED
      BY <1>0, <1>1, Induct
  <1>3. PICK g : Solves(g, n)
    BY <1>2
  <1> DEFINE f == [i \in 1..n |-> g[i]]
  <1>4. \A i \in 1..n : f[i] = Flat(s, f, i)
    <2>1. \A i \in 1..n : f[i] = g[i]
      OBVIOUS
    <2>2. f = [i \in 1..n |-> f[i]]
      OBVIOUS
    <2> HIDE DEF f
    <2> SUFFICES ASSUME NEW i \in 1..n PROVE f[i] = Flat(s, f, i)
      OBVIOUS
    <2>3. g[i] = Flat(s, g, i)
      BY <1>3
    <2>4. CASE i = 1
      BY <2>1, <2>3, <2>4 DEF Flat
    <2>5. CASE i # 1
      <3>1. i - 1 \in 1..n
        BY <1>0, <2>5
      <3>2. f[i - 1] = g[i - 1]
        BY <2>1, <3>1
      <3> QED
        BY <2>1, <2>3, <2>5, <3>2 DEF Flat
    <2> QED
      BY <2>4, <2>5
  <1>5. f = [i \in 1..n |-> f[i]]
    OBVIOUS
  <1> HIDE DEF f
  <1>6. f = [i \in 1..n |-> Flat(s, f, i)]
    BY <1>4, <1>5
  <1> DEFINE e == CHOOSE h : h = [i \in 1..n |-> Flat(s, h, i)]
  <1>7. e = [i \in 1..n |-> Flat(s, e, i)]
    BY <1>6
  <1> HIDE DEF e
  <1>8. \A i \in 1..n : e[i] = Flat(s, e, i)
    BY <1>7
  <1> QED
    BY <1>8, FlattenSeqDef DEF n, e

LEMMA FlattenSeqType ==
    ASSUME NEW T, NEW s \in Seq(Seq(T))
    PROVE  FlattenSeq(s) \in Seq(T)
  <1> DEFINE n == Len(s)
  <1>0. n \in Nat /\ DOMAIN s = 1..n /\ \A i \in 1..n : s[i] \in Seq(T)
    BY LenProperties, ElementOfSeq
  <1>8. PICK e : /\ \A i \in 1..n : e[i] = Flat(s, e, i)
                 /\ FlattenSeq(s) = IF n = 0 THEN s ELSE e[n]
    BY <1>0, FlattenSeqExists
  <1> HIDE DEF n
  <1> DEFINE U == {k \in Nat : k \in 1..n => e[k] \in Seq(T)}
  <1>9. ASSUME NEW k \in Nat, \A m \in Nat : m < k => m \in U
        PROVE  k \in U
    <2> SUFFICES ASSUME k \in 1..n PROVE e[k] \in Seq(T)
      OBVIOUS
    <2>1. CASE k = 1
      BY <1>0, <1>8, <2>1 DEF Flat
    <2>2. CASE k # 1
      <3>1. k - 1 \in Nat /\ k - 1 < k /\ k - 1 \in 1..n
        BY <1>0, <2>2
      <3>2. e[k - 1] \in Seq(T)
        BY <1>9, <3>1
      <3>3. e[k] = e[k - 1] \o s[k]
        BY <1>8, <2>2 DEF Flat
      <3> QED
        BY <1>0, <3>2, <3>3, ConcatProperties
    <2> QED
      BY <2>1, <2>2
  <1>10. \A k \in Nat : k \in U
    <2> HIDE DEF U
    <2> QED
      BY <1>9, Induct
  <1>11. CASE n = 0
    <2>1. Len(s) = 0
      BY <1>11 DEF n
    <2>2. s = << >>
      BY <2>1, EmptySeq
    <2>3. FlattenSeq(s) = s
      BY <1>8, <1>11
    <2>4. << >> \in Seq(T)
      BY EmptySeq
    <2> QED
      BY <2>2, <2>3, <2>4
  <1>12. CASE n # 0
    <2>1. n \in 1..n
      BY <1>0, <1>12
    <2>2. e[n] \in Seq(T)
      BY <1>10, <2>1
    <2> QED
      BY <1>8, <1>12, <2>2
  <1> QED
    BY <1>11, <1>12

Read(table) ==
    UNION {{[feature |-> id, row |-> r] : r \in table[id]} : id \in DOMAIN table}

LEMMA ReadIsTable ==
    ASSUME NEW D \in SUBSET Ids, NEW table, DOMAIN table = D,
           \A id \in D : /\ IsFiniteSet(table[id]) /\ table[id] \subseteq Row
                         /\ \A q, r \in table[id] :
                               q.date = r.date /\ q.order = r.order => q = r
    PROVE  IsTable(Read(table), [feature : Ids, row : Row])
  <1> DEFINE S == Read(table)
             W == UNION {table[id] : id \in D}
             R == {[feature |-> x[1], row |-> x[2]] : x \in D \X W}
  <1>1. MaxId \in Nat /\ Ids = 1..MaxId
    BY QueryResultAssumption DEF Ids
  <1>2. IsFiniteSet(D)
    <2>1. IsFiniteSet(1..MaxId)
      BY <1>1, FS_Interval
    <2> QED
      BY <1>1, <2>1, FS_Subset
  <1>3. IsFiniteSet(W)
    <2> DEFINE Q == {table[id] : id \in D}
               f == [id \in D |-> table[id]]
    <2>1. f \in Surjection(D, Q)
      BY DEF Surjection
    <2>2. \A q \in Q : IsFiniteSet(q)
      OBVIOUS
    <2> HIDE DEF f, Q
    <2>3. IsFiniteSet(Q)
      BY <1>2, <2>1, FS_Surjection
    <2>4. IsFiniteSet(UNION Q)
      BY <2>2, <2>3, FS_UNION
    <2> QED
      BY <2>4 DEF Q
  <1>4. IsFiniteSet(R)
    <2> HIDE DEF W
    <2> DEFINE P == D \X W
               f == [x \in P |-> [feature |-> x[1], row |-> x[2]]]
    <2>1. f \in Surjection(P, R)
      BY DEF Surjection
    <2>2. IsFiniteSet(P)
      BY <1>2, <1>3, FS_Product
    <2> HIDE DEF f, R, P
    <2> QED
      BY <2>1, <2>2, FS_Surjection
  <1>5. S \subseteq R
    <2> SUFFICES ASSUME NEW id \in D, NEW r \in table[id]
                 PROVE  [feature |-> id, row |-> r] \in R
      <3>1. \A x \in S : \E id \in D : \E r \in table[id] : x = [feature |-> id, row |-> r]
        BY DEF Read
      <3> HIDE DEF S, R
      <3> QED
        BY <3>1
    <2> DEFINE x == <<id, r>>
    <2>1. x \in D \X W /\ x[1] = id /\ x[2] = r
      OBVIOUS
    <2> HIDE DEF W, x
    <2>2. [feature |-> x[1], row |-> x[2]] \in R
      BY <2>1
    <2> QED
      BY <2>1, <2>2
  <1>6. IsFiniteSet(S)
    <2> HIDE DEF R, S
    <2> QED
      BY <1>4, <1>5, FS_Subset
  <1>7. \A x \in S : /\ x \in [feature : Ids, row : Row]
                     /\ x.feature \in D /\ x.row \in table[x.feature]
    BY DEF Read
  <1>8. \A x \in S : x.feature \in Int /\ x.row.date \in Int /\ x.row.order \in Int
    <2> SUFFICES ASSUME NEW x \in S
                 PROVE  x.feature \in Int /\ x.row.date \in Int /\ x.row.order \in Int
      OBVIOUS
    <2>1. x.feature \in Ids /\ x.row \in Row
      BY <1>7
    <2>2. x.row.date \in 1..99 /\ x.row.order \in Nat
      BY <2>1 DEF Row, Dates
    <2>3. x.feature \in Int
      BY <1>1, <2>1
    <2>4. x.row.date \in Int /\ x.row.order \in Int
      <3>1. \A d \in 1..99 : d \in Int
        OBVIOUS
      <3> QED
        BY <2>2, <3>1
    <2> QED
      BY <2>3, <2>4
  <1> HIDE DEF S
  <1>9. ASSUME NEW x \in S, NEW y \in S, x # y
        PROVE  RowBefore(x, y) \/ RowBefore(y, x)
    <2>1. CASE x.feature # y.feature
      BY <1>8, <2>1 DEF RowBefore
    <2>2. CASE x.feature = y.feature
      <3>1. x.row # y.row
        BY <1>7, <1>9, <2>2
      <3>2. x.row.date # y.row.date \/ x.row.order # y.row.order
        BY <1>7, <2>2, <3>1
      <3> QED
        BY <1>8, <2>2, <3>2 DEF RowBefore
    <2> QED
      BY <2>1, <2>2
  <1>10. \A x, y \in S : ~(RowBefore(x, y) /\ RowBefore(y, x))
    BY <1>8 DEF RowBefore
  <1>11. \A x, y, z \in S : RowBefore(x, y) /\ RowBefore(y, z) => RowBefore(x, z)
    BY <1>8 DEF RowBefore
  <1>12. \A x \in S : ~RowBefore(x, x)
    BY <1>8 DEF RowBefore
  <1>13. IsTable(S, [feature : Ids, row : Row])
    BY <1>6, <1>7, <1>9, <1>10, <1>11, <1>12 DEF IsTable
  <1> QED
    BY <1>13 DEF S

LEMMA JoinedType ==
    ASSUME NEW S, IsFiniteSet(S), NEW r
    PROVE  Joined(S, r) \in Nat
  <1> DEFINE same == {q \in Window(S) : Padded(q.date) = Padded(r.date)}
  <1>1. same \in SUBSET S
    BY DEF Window
  <1> HIDE DEF same
  <1>2. Cardinality(same) \in Nat
    BY <1>1, FS_Subset, FS_CardinalityType
  <1> QED
    BY <1>2 DEF Joined, same

LEMMA BDAttributeCondType ==
    ASSUME NEW D \in SUBSET Ids, NEW table, DOMAIN table = D,
           \A id \in D : /\ IsFiniteSet(table[id]) /\ table[id] \subseteq Row
                         /\ \A q, r \in table[id] :
                               q.date = r.date /\ q.order = r.order => q = r
    PROVE  BDAttributeCond(table) \in Seq([feature : Ids, row : Row])
  <1> DEFINE T == [feature : Ids, row : Row]
             S == Read(table)
             sorted == InOrder(S)
             parts == [k \in DOMAIN sorted |->
                         [c \in 1..Joined(table[sorted[k].feature], sorted[k].row) |->
                             sorted[k]]]
  <1>1. IsTable(S, T)
    BY ReadIsTable
  <1>2. sorted \in [1..Cardinality(S) -> S]
    BY <1>1, InOrderIs
  <1>3. Cardinality(S) \in Nat /\ S \subseteq T
    BY <1>1, FS_CardinalityType DEF IsTable
  <1>4. \A x \in S : x.feature \in D
    BY DEF Read
  <1>5. BDAttributeCond(table) = FlattenSeq(parts)
    BY DEF BDAttributeCond, Read
  <1> HIDE DEF S, sorted
  <1>6. \A k \in 1..Cardinality(S) : parts[k] \in Seq(T)
    <2> SUFFICES ASSUME NEW k \in 1..Cardinality(S) PROVE parts[k] \in Seq(T)
      OBVIOUS
    <2> DEFINE n == Joined(table[sorted[k].feature], sorted[k].row)
    <2>1. sorted[k] \in S /\ sorted[k] \in T /\ sorted[k].feature \in D
      BY <1>2, <1>3, <1>4
    <2>2. n \in Nat
      BY <2>1, JoinedType
    <2>3. parts[k] = [c \in 1..n |-> sorted[k]]
      BY <1>2
    <2> HIDE DEF n, T
    <2>4. [c \in 1..n |-> sorted[k]] \in Seq(T)
      BY <2>1, <2>2
    <2> QED
      BY <2>3, <2>4
  <1>7. DOMAIN parts = 1..Cardinality(S) /\ parts = [k \in 1..Cardinality(S) |-> parts[k]]
    BY <1>2
  <1> HIDE DEF parts, T
  <1>8. parts \in Seq(Seq(T))
    BY <1>3, <1>6, <1>7
  <1> QED
    BY <1>5, <1>8, FlattenSeqType DEF T

KeptStep(s, K, g, k) == IF k = 0 THEN <<>>
                        ELSE IF k \in K THEN Append(g[k - 1], s[k])
                        ELSE g[k - 1]

LEMMA KeptDef ==
    ASSUME NEW s, NEW K
    PROVE  Kept(s, K) =
              (CHOOSE g : g = [k \in 0..Len(s) |-> KeptStep(s, K, g, k)])[Len(s)]
  BY DEF Kept, KeptStep

LEMMA KeptExists ==
    ASSUME NEW s, NEW K, Len(s) \in Nat
    PROVE  \E e : /\ \A k \in 0..Len(s) : e[k] = KeptStep(s, K, e, k)
                  /\ Kept(s, K) = e[Len(s)]
  <1> DEFINE n == Len(s)
             Solves(g, k) == \A i \in 0..n : i <= k => g[i] = KeptStep(s, K, g, i)
             S == {k \in Nat : \E g : Solves(g, k)}
  <1>0. n \in Nat
    OBVIOUS
  <1> HIDE DEF n
  <1>1. ASSUME NEW k \in Nat, \A m \in Nat : m < k => m \in S
        PROVE  k \in S
    <2>1. PICK h : \A i \in 0..n : i < k => h[i] = KeptStep(s, K, h, i)
      <3>1. CASE k = 0
        BY <1>0, <3>1
      <3>2. CASE k # 0
        <4>1. k - 1 \in Nat /\ k - 1 < k
          BY <3>2
        <4>2. PICK g : Solves(g, k - 1)
          BY <1>1, <4>1
        <4>3. \A i \in 0..n : i < k => i <= k - 1
          OBVIOUS
        <4> QED
          BY <4>2, <4>3
      <3> QED
        BY <3>1, <3>2
    <2> DEFINE g == [i \in 0..n |-> KeptStep(s, K, h, i)]
    <2>2. \A i \in 0..n : g[i] = KeptStep(s, K, h, i)
      OBVIOUS
    <2> HIDE DEF g
    <2>3. ASSUME NEW i \in 0..n, i <= k
          PROVE  g[i] = KeptStep(s, K, g, i)
      <3>1. CASE i = 0
        BY <2>2, <3>1 DEF KeptStep
      <3>2. CASE i # 0
        <4>1. i - 1 \in 0..n /\ i - 1 < k
          BY <1>0, <2>3, <3>2
        <4>2. g[i - 1] = h[i - 1]
          BY <2>1, <2>2, <4>1
        <4> QED
          BY <2>2, <3>2, <4>2 DEF KeptStep
      <3> QED
        BY <3>1, <3>2
    <2> QED
      BY <2>3
  <1>2. n \in S
    <2> HIDE DEF S
    <2> QED
      BY <1>0, <1>1, Induct
  <1>3. PICK g : Solves(g, n)
    BY <1>2
  <1> DEFINE f == [i \in 0..n |-> g[i]]
  <1>4. \A i \in 0..n : f[i] = KeptStep(s, K, f, i)
    <2>1. \A i \in 0..n : f[i] = g[i]
      OBVIOUS
    <2> HIDE DEF f
    <2> SUFFICES ASSUME NEW i \in 0..n PROVE f[i] = KeptStep(s, K, f, i)
      OBVIOUS
    <2>3. g[i] = KeptStep(s, K, g, i)
      BY <1>0, <1>3
    <2>4. CASE i = 0
      BY <2>1, <2>3, <2>4 DEF KeptStep
    <2>5. CASE i # 0
      <3>1. i - 1 \in 0..n
        BY <1>0, <2>5
      <3>2. f[i - 1] = g[i - 1]
        BY <2>1, <3>1
      <3> QED
        BY <2>1, <2>3, <2>5, <3>2 DEF KeptStep
    <2> QED
      BY <2>4, <2>5
  <1>5. f = [i \in 0..n |-> f[i]]
    OBVIOUS
  <1> HIDE DEF f
  <1>6. f = [i \in 0..n |-> KeptStep(s, K, f, i)]
    BY <1>4, <1>5
  <1> DEFINE e == CHOOSE h : h = [i \in 0..n |-> KeptStep(s, K, h, i)]
  <1>7. e = [i \in 0..n |-> KeptStep(s, K, e, i)]
    BY <1>6
  <1> HIDE DEF e
  <1>8. \A i \in 0..n : e[i] = KeptStep(s, K, e, i)
    BY <1>7
  <1> QED
    BY <1>8, KeptDef DEF n, e

LEMMA KeptType ==
    ASSUME NEW T, NEW s \in Seq(T), NEW K
    PROVE  Kept(s, K) \in Seq(T)
  <1> DEFINE n == Len(s)
  <1>0. n \in Nat /\ DOMAIN s = 1..n /\ \A i \in 1..n : s[i] \in T
    BY LenProperties, ElementOfSeq
  <1>8. PICK e : (\A k \in 0..n : e[k] = KeptStep(s, K, e, k)) /\ Kept(s, K) = e[n]
    BY <1>0, KeptExists
  <1> HIDE DEF n
  <1> DEFINE U == {k \in Nat : k \in 0..n => e[k] \in Seq(T)}
  <1>9. ASSUME NEW k \in Nat, \A m \in Nat : m < k => m \in U
        PROVE  k \in U
    <2> SUFFICES ASSUME k \in 0..n PROVE e[k] \in Seq(T)
      OBVIOUS
    <2>1. CASE k = 0
      <3>1. << >> \in Seq(T)
        BY EmptySeq
      <3> QED
        BY <1>8, <2>1, <3>1 DEF KeptStep
    <2>2. CASE k # 0
      <3>1. k - 1 \in Nat /\ k - 1 < k /\ k - 1 \in 0..n /\ k \in 1..n
        BY <1>0, <2>2
      <3>2. e[k - 1] \in Seq(T) /\ s[k] \in T
        BY <1>0, <1>9, <3>1
      <3>3. e[k] = IF k \in K THEN Append(e[k - 1], s[k]) ELSE e[k - 1]
        BY <1>8, <2>2 DEF KeptStep
      <3>4. Append(e[k - 1], s[k]) \in Seq(T)
        BY <3>2, AppendProperties
      <3> QED
        BY <3>2, <3>3, <3>4
    <2> QED
      BY <2>1, <2>2
  <1>10. \A k \in Nat : k \in U
    <2> HIDE DEF U
    <2> QED
      BY <1>9, Induct
  <1>11. e[n] \in Seq(T)
    BY <1>0, <1>10
  <1> QED
    BY <1>8, <1>11

\* u is s, of elements of T, with e put in at the place i.
Inserted(u, s, i, e, T) ==
    /\ u \in Seq(T) /\ Len(u) = Len(s) + 1
    /\ \A j \in 1..Len(s) + 1 :
          u[j] = IF j < i THEN s[j] ELSE IF j = i THEN e ELSE s[j - 1]

LEMMA InsertAtIs ==
    ASSUME NEW T, NEW s \in Seq(T), NEW i \in 1..Len(s) + 1, NEW e \in T,
           NEW u, u = InsertAt(s, i, e)
    PROVE  Inserted(u, s, i, e, T)
  <1> DEFINE n == Len(s)
             a == SubSeq(s, 1, i - 1)
             b == SubSeq(s, i, n)
             c == a \o <<e>>
  <1>0. n \in Nat /\ \A j \in 1..n : s[j] \in T
    BY LenProperties, ElementOfSeq
  <1>1. i \in Int /\ i - 1 \in Int /\ 1 <= i /\ i <= n + 1
    BY <1>0
  <1>2. u = c \o b
    BY DEF InsertAt
  <1> HIDE DEF n
  <1>3. /\ a \in Seq(T) /\ Len(a) = i - 1
        /\ \A j \in 1..i - 1 : a[j] = s[j]
    <2>1. \A j \in 1..i - 1 : s[j] \in T
      BY <1>0, <1>1
    <2>2. /\ a \in Seq(T) /\ Len(a) = IF 1 <= i - 1 THEN (i - 1) - 1 + 1 ELSE 0
          /\ \A j \in 1..(i - 1) - 1 + 1 : a[j] = s[1 + j - 1]
      BY <1>1, <2>1, SubSeqProperties
    <2> HIDE DEF a
    <2>3. \A j \in 1..i - 1 : 1 + j - 1 = j /\ j \in 1..(i - 1) - 1 + 1
      BY <1>1
    <2> QED
      BY <1>1, <2>2, <2>3
  <1>4. /\ b \in Seq(T) /\ Len(b) = n - i + 1
        /\ \A j \in 1..n - i + 1 : b[j] = s[i + j - 1]
    <2>1. \A j \in i..n : s[j] \in T
      BY <1>0, <1>1
    <2>2. /\ b \in Seq(T) /\ Len(b) = IF i <= n THEN n - i + 1 ELSE 0
          /\ \A j \in 1..n - i + 1 : b[j] = s[i + j - 1]
      BY <1>0, <1>1, <2>1, SubSeqProperties
    <2> HIDE DEF b
    <2> QED
      BY <1>0, <1>1, <2>2
  <1> HIDE DEF a, b
  <1>5. /\ c \in Seq(T) /\ Len(c) = i
        /\ \A j \in 1..i : c[j] = IF j <= i - 1 THEN a[j] ELSE e
    <2>1. <<e>> \in Seq(T) /\ Len(<<e>>) = 1 /\ <<e>>[1] = e
      OBVIOUS
    <2>2. /\ c \in Seq(T) /\ Len(c) = Len(a) + 1
          /\ \A j \in 1..Len(a) + 1 : c[j] = IF j <= Len(a) THEN a[j] ELSE <<e>>[j - Len(a)]
      BY <1>3, <2>1, ConcatProperties
    <2>3. \A j \in 1..i : ~(j <= i - 1) => j - (i - 1) = 1
      BY <1>1
    <2> HIDE DEF c
    <2> QED
      BY <1>1, <1>3, <2>1, <2>2, <2>3
  <1> HIDE DEF c
  <1>6. /\ c \o b \in Seq(T) /\ Len(c \o b) = i + (n - i + 1)
        /\ \A j \in 1..i + (n - i + 1) : (c \o b)[j] = IF j <= i THEN c[j] ELSE b[j - i]
    <2>1. /\ c \o b \in Seq(T) /\ Len(c \o b) = Len(c) + Len(b)
          /\ \A j \in 1..Len(c) + Len(b) :
                (c \o b)[j] = IF j <= Len(c) THEN c[j] ELSE b[j - Len(c)]
      BY <1>4, <1>5, ConcatProperties
    <2> DEFINE d == c \o b
    <2> HIDE DEF d
    <2>2. /\ d \in Seq(T) /\ Len(d) = i + (n - i + 1)
          /\ \A j \in 1..i + (n - i + 1) : d[j] = IF j <= i THEN c[j] ELSE b[j - i]
      BY <1>4, <1>5, <2>1 DEF d
    <2> QED
      BY <2>2 DEF d
  <1>7. i + (n - i + 1) = n + 1
    BY <1>0, <1>1
  <1>8. ASSUME NEW j \in 1..n + 1
        PROVE  (c \o b)[j] = IF j < i THEN s[j] ELSE IF j = i THEN e ELSE s[j - 1]
    <2> DEFINE d == c \o b
    <2>0. \A m \in 1..n + 1 : d[m] = IF m <= i THEN c[m] ELSE b[m - i]
      BY <1>6, <1>7
    <2> HIDE DEF d
    <2> SUFFICES d[j] = IF j < i THEN s[j] ELSE IF j = i THEN e ELSE s[j - 1]
      BY DEF d
    <2>1. CASE j < i
      <3>1. j \in 1..i /\ j <= i /\ j <= i - 1 /\ j \in 1..i - 1
        BY <1>0, <1>1, <2>1
      <3> QED
        BY <1>3, <1>5, <2>0, <2>1, <3>1
    <2>2. CASE j = i
      <3>1. j \in 1..i /\ j <= i /\ ~(j <= i - 1) /\ ~(j < i)
        BY <1>0, <1>1, <2>2
      <3> QED
        BY <1>5, <2>0, <2>2, <3>1
    <2>3. CASE i < j
      <3>1. ~(j <= i) /\ j - i \in 1..n - i + 1 /\ i + (j - i) - 1 = j - 1
            /\ ~(j < i) /\ j # i
        BY <1>0, <1>1, <2>3
      <3>2. b[j - i] = s[i + (j - i) - 1]
        BY <1>4, <3>1
      <3> QED
        BY <2>0, <3>1, <3>2
    <2> QED
      BY <1>0, <1>1, <2>1, <2>2, <2>3
  <1> QED
    BY <1>2, <1>6, <1>7, <1>8 DEF n, Inserted

-----------------------------------------------------------------------------
(* Types *)

LEMMA Constants ==
    /\ Depth \in Nat \ {0} /\ Levels = 1..Depth /\ MaxId \in Nat \ {0} /\ Ids = 1..MaxId
    /\ Queries \subseteq Query
    /\ \A l \in Levels : \A S \in RowSets[l] :
          /\ IsFiniteSet(S) /\ S \subseteq Row
          /\ \A q, r \in S : q.date = r.date /\ q.order = r.order => q = r
  BY QueryResultAssumption DEF Levels, Ids

LEMMA ResultFields ==
    ASSUME NEW r \in Result
    PROVE  /\ r.active \in Ids /\ r.next \in Ids /\ r.name \in Ids \cup {NoName}
           /\ r.names \in [Levels -> Ids \cup {NoName}]
           /\ r.data \in [Levels -> Row \cup {NoRow}]
           /\ r.date \in Dates \cup {NoDate} /\ r.met \in BOOLEAN
           /\ r.self \in Ids /\ r.parent \in Ids
  BY DEF Result

LEMMA WithName ==
    ASSUME NEW r \in Result, NEW l \in Levels, NEW x, x = [r EXCEPT !.names[l] = r.name]
    PROVE  /\ x \in Result /\ x.names[l] = r.name
           /\ x.active = r.active /\ x.next = r.next /\ x.name = r.name
           /\ x.self = r.self /\ x.parent = r.parent
  BY DEF Result

LEMMA WithMet ==
    ASSUME NEW r \in Result, NEW b \in BOOLEAN, NEW x, x = [r EXCEPT !.met = b]
    PROVE  /\ x \in Result /\ x.names = r.names
           /\ x.active = r.active /\ x.next = r.next /\ x.name = r.name
           /\ x.self = r.self /\ x.parent = r.parent
  BY DEF Result

LEMMA ReplaceIs ==
    ASSUME NEW r \in Result, level \in Levels, NEW row \in Row, NEW x, x = Replace(r, row)
    PROVE  /\ x \in Result /\ x.names = r.names
           /\ x.active = r.active /\ x.next = r.next /\ x.name = r.name
           /\ x.self = r.self /\ x.parent = r.parent
  <1>1. row.date \in Dates
    BY DEF Row
  <1> QED
    BY <1>1 DEF Result, Replace

LEMMA CopyIs ==
    ASSUME NEW r \in Result, level \in Levels, NEW row \in Row, NEW x, x = Copy(r, row)
    PROVE  /\ x \in Result /\ x.names = r.names
           /\ x.active = r.active /\ x.next = r.next /\ x.name = r.name
           /\ x.self = r.self /\ x.parent = r.parent
  <1>1. row.date \in Dates
    BY DEF Row
  <1> QED
    BY <1>1 DEF Result, Copy

LEMMA WithoutDate ==
    ASSUME NEW r \in Result, NEW x, x = [r EXCEPT !.date = NoDate]
    PROVE  /\ x \in Result /\ x.names = r.names
           /\ x.active = r.active /\ x.next = r.next /\ x.name = r.name
           /\ x.self = r.self /\ x.parent = r.parent
  BY DEF Result

LEMMA MovedIs ==
    ASSUME NEW r \in Result, NEW x, x = Moved(r)
    PROVE  /\ x \in Result /\ x.names = r.names
           /\ x.active = r.next /\ x.next = r.next /\ x.name = NoName
           /\ x.self = r.parent /\ x.parent = r.parent
  BY DEF Result, Moved

\* Lists of results
LEMMA ResultList ==
    ASSUME NEW s \in Seq(Result)
    PROVE  /\ Len(s) \in Nat /\ DOMAIN s = 1..Len(s)
           /\ \A j \in DOMAIN s : s[j] \in Result
           /\ IsList(s)
  <1>1. /\ Len(s) \in Nat /\ DOMAIN s = 1..Len(s) /\ s \in [1..Len(s) -> Result]
        /\ \A j \in DOMAIN s : s[j] \in Result
    BY LenProperties, ElementOfSeq
  <1>2. \A j \in DOMAIN s : s[j].active \in Int
    BY <1>1, ResultFields, Constants
  <1>3. s = [j \in DOMAIN s |-> s[j]]
    BY <1>1
  <1> QED
    BY <1>1, <1>2, <1>3 DEF IsList

LEMMA MapList ==
    ASSUME NEW s \in Seq(Result), NEW t, DOMAIN t = DOMAIN s,
           t = [j \in DOMAIN t |-> t[j]], \A j \in DOMAIN s : t[j] \in Result
    PROVE  t \in Seq(Result) /\ Len(t) = Len(s)
  <1>1. Len(s) \in Nat /\ DOMAIN s = 1..Len(s)
    BY ResultList
  <1>2. t \in [1..Len(s) -> Result]
    BY <1>1
  <1> QED
    BY <1>1, <1>2

LEMMA ListsList ==
    ASSUME NEW s \in Seq(Result), NEW t \in Lists(s)
    PROVE  t \in Seq(Result)
  <1>1. DOMAIN t = DOMAIN s /\ t = [j \in DOMAIN t |-> t[j]]
    BY DEF Lists
  <1>2. \A j \in DOMAIN s : t[j] \in Result
    <2>1. \A j \in DOMAIN s : \E k \in DOMAIN s : t[j] = s[k]
      BY DEF Lists
    <2> QED
      BY <2>1, ResultList
  <1> QED
    BY <1>1, <1>2, MapList

\* The list sorted for LoadDataAll
LEMMA SortAll ==
    ASSUME NEW s \in Seq(Result), s # << >>, NEW t, t = SortFeature(s, 1, Len(s))
    PROVE  /\ t \in Seq(Result) /\ Sorted(t) /\ DOMAIN t = DOMAIN s
           /\ \A j \in DOMAIN t : \E k \in DOMAIN s : t[j] = s[k]
  <1>1. IsList(s) /\ Len(s) \in Nat /\ DOMAIN s = 1..Len(s)
    BY ResultList
  <1>2. Len(s) # 0
    BY EmptySeq
  <1>3. 1 \in DOMAIN s /\ Len(s) \in DOMAIN s /\ 1 <= Len(s)
    BY <1>1, <1>2
  <1>4. SortedFrom(s, s, 1, Len(s), t)
    BY <1>1, <1>3, SortFeatureIs
  <1>5. t \in Lists(s)
    BY <1>4 DEF SortedFrom
  <1>6. DOMAIN t = DOMAIN s /\ \A j \in DOMAIN s : \E k \in DOMAIN s : t[j] = s[k]
    BY <1>1, <1>5, ListsIs, ZenonT(60)
  <1>7. \A j, k \in DOMAIN s : j < k => t[j].active <= t[k].active
    <2>1. \A j \in DOMAIN s : 1 <= j /\ j <= Len(s)
      BY <1>1
    <2> QED
      BY <1>4, <2>1 DEF SortedFrom, SortedPart
  <1>8. t \in Seq(Result)
    BY <1>5, ListsList
  <1> QED
    BY <1>6, <1>7, <1>8 DEF Sorted

\* A result as to where it is
Same(x, r) == /\ x.names = r.names
              /\ x.active = r.active /\ x.next = r.next /\ x.name = r.name
              /\ x.self = r.self /\ x.parent = r.parent

\* Each result of t is where one of s is.
Keeps(t, s) == \A j \in DOMAIN t : \E k \in DOMAIN s : Same(t[j], s[k])

NamesActive(s) == \A j \in DOMAIN s : s[j].name \in {s[j].active, NoName}
LevelActive(s, l) == \A j \in DOMAIN s : s[j].names[l] \in {s[j].active, NoName}
OnSelf(s) == \A j \in DOMAIN s : /\ s[j].active = s[j].self
                                 /\ s[j].next = s[j].parent
                                 /\ s[j].name = s[j].self

LEMMA KeepsAll ==
    ASSUME NEW t, NEW s, Keeps(t, s)
    PROVE  /\ NamesActive(s) => NamesActive(t)
           /\ \A l : LevelActive(s, l) => LevelActive(t, l)
           /\ OnSelf(s) => OnSelf(t)
  <1>1. \A j \in DOMAIN t : \E k \in DOMAIN s :
              /\ t[j].names = s[k].names
              /\ t[j].active = s[k].active /\ t[j].next = s[k].next /\ t[j].name = s[k].name
              /\ t[j].self = s[k].self /\ t[j].parent = s[k].parent
    BY DEF Keeps, Same
  <1>2. NamesActive(s) => NamesActive(t)
    BY <1>1 DEF NamesActive
  <1>3. \A l : LevelActive(s, l) => LevelActive(t, l)
    <2> SUFFICES ASSUME NEW l, LevelActive(s, l), NEW j \in DOMAIN t
                 PROVE  t[j].names[l] \in {t[j].active, NoName}
      BY DEF LevelActive
    <2>1. PICK k \in DOMAIN s : t[j].names = s[k].names /\ t[j].active = s[k].active
      BY <1>1
    <2>2. s[k].names[l] \in {s[k].active, NoName}
      BY DEF LevelActive
    <2> QED
      BY <2>1, <2>2
  <1>4. OnSelf(s) => OnSelf(t)
    BY <1>1 DEF OnSelf
  <1> QED
    BY <1>2, <1>3, <1>4

\* A list with the same results, but for what they hold
LEMMA KeepsSame ==
    ASSUME NEW s \in Seq(Result), NEW t, DOMAIN t = DOMAIN s,
           t = [j \in DOMAIN t |-> t[j]],
           \A j \in DOMAIN s : t[j] \in Result /\ Same(t[j], s[j])
    PROVE  /\ t \in Seq(Result) /\ Len(t) = Len(s) /\ Keeps(t, s)
           /\ Sorted(s) => Sorted(t)
  <1>1. t \in Seq(Result) /\ Len(t) = Len(s)
    BY MapList
  <1>2. Keeps(t, s)
    BY DEF Keeps
  <1>3. \A j \in DOMAIN s : t[j].active = s[j].active
    BY DEF Same
  <1>4. Sorted(s) => Sorted(t)
    BY <1>3 DEF Sorted
  <1> QED
    BY <1>1, <1>2, <1>4

\* The copy of a result beside it
LEMMA KeepsInsert ==
    ASSUME NEW s \in Seq(Result), NEW m \in DOMAIN s, NEW e \in Result, Same(e, s[m]),
           NEW t, t = InsertAt(s, m + 1, e)
    PROVE  t \in Seq(Result) /\ Keeps(t, s) /\ (Sorted(s) => Sorted(t))
  <1>1. Len(s) \in Nat /\ DOMAIN s = 1..Len(s)
    BY ResultList
  <1>2. m + 1 \in 1..Len(s) + 1 /\ m \in Int
    BY <1>1
  <1>a. Inserted(t, s, m + 1, e, Result)
    BY <1>2, InsertAtIs
  <1>3. /\ t \in Seq(Result) /\ Len(t) = Len(s) + 1
        /\ \A j \in 1..Len(s) + 1 :
              t[j] = IF j < m + 1 THEN s[j] ELSE IF j = m + 1 THEN e ELSE s[j - 1]
    BY <1>a DEF Inserted
  <1>4. DOMAIN t = 1..Len(s) + 1
    BY <1>3, LenProperties
  <1> HIDE DEF Result
  <1> DEFINE at == [j \in DOMAIN t |-> IF j < m + 1 THEN j ELSE j - 1]
  <1>5. \A j \in DOMAIN t : at[j] \in DOMAIN s /\ (j # m + 1 => t[j] = s[at[j]])
                            /\ (j = m + 1 => at[j] = m /\ t[j] = e)
    BY <1>1, <1>2, <1>3, <1>4
  <1>6. \A j, k \in DOMAIN t : j < k => at[j] = at[k] \/ at[j] < at[k]
    BY <1>1, <1>2, <1>4
  <1> HIDE DEF at
  <1>7. \A j \in DOMAIN t : Same(t[j], s[at[j]])
    <2> SUFFICES ASSUME NEW j \in DOMAIN t PROVE Same(t[j], s[at[j]])
      OBVIOUS
    <2>1. CASE j = m + 1
      BY <1>5, <2>1
    <2>2. CASE j # m + 1
      BY <1>5, <2>2 DEF Same
    <2> QED
      BY <2>1, <2>2
  <1>8. Keeps(t, s)
    BY <1>5, <1>7 DEF Keeps
  <1>9. ASSUME Sorted(s), NEW j \in DOMAIN t, NEW k \in DOMAIN t, j < k
        PROVE  t[j].active <= t[k].active
    <2>1. t[j].active = s[at[j]].active /\ t[k].active = s[at[k]].active
      BY <1>7 DEF Same
    <2>2. \A i \in DOMAIN s : s[i].active \in Int
      BY ResultList DEF IsList
    <2>3. s[at[j]].active <= s[at[k]].active
      BY <1>5, <1>6, <1>9, <2>2 DEF Sorted
    <2> QED
      BY <2>1, <2>3
  <1> QED
    BY <1>3, <1>8, <1>9 DEF Sorted

LEMMA MatchesIn ==
    ASSUME NEW s, NEW id
    PROVE  Matches(s, id) \subseteq DOMAIN s
  BY DEF Matches, From

\* What GetNext does to the list
LEMMA GetNextResults ==
    ASSUME TypeOK, GetNext
    PROVE  /\ results' \in Seq(Result) /\ Keeps(results', results)
           /\ Sorted(results) => Sorted(results')
           /\ rows' \in Seq([feature : Ids, row : Row]) /\ ok' \in BOOLEAN
  <1> DEFINE row == Head(rows).row
             all == Matches(results, Head(rows).feature)
             new == {j \in all : Status(row.date, results[j]) = "new"}
             at == IF new = {} THEN all ELSE {j \in all : j <= Min(new)}
             took == [j \in DOMAIN results |->
                       IF j \notin at THEN results[j]
                       ELSE IF Status(row.date, results[j]) = "replace"
                       THEN Replace(results[j], row)
                       ELSE [results[j] EXCEPT !.met = TRUE]]
  <1>1. /\ results \in Seq(Result) /\ level \in Levels /\ ok \in BOOLEAN
        /\ rows \in Seq([feature : Ids, row : Row]) /\ rows # << >>
    BY DEF TypeOK, GetNext
  <1>2. rows' = Tail(rows)
    BY DEF GetNext
  <1>3. row \in Row /\ Tail(rows) \in Seq([feature : Ids, row : Row])
    <2>1. Head(rows) \in [feature : Ids, row : Row]
      BY <1>1, HeadTailProperties
    <2> QED
      BY <1>1, <2>1, HeadTailProperties
  <1>4. /\ \/ results' = results /\ ok' = ok
           \/ /\ results' = IF new = {} THEN took
                            ELSE InsertAt(took, Min(new) + 1, Copy(took[Min(new)], row))
              /\ ok' \in BOOLEAN
    BY DEF GetNext
  <1>5. all \subseteq DOMAIN results
    BY MatchesIn
  <1>6. new \subseteq DOMAIN results
    BY <1>5
  <1>7. Len(results) \in Nat /\ DOMAIN results = 1..Len(results)
        /\ \A j \in DOMAIN results : results[j] \in Result
    BY <1>1, ResultList
  <1> HIDE DEF row, at, new
  <1>8. \A j \in DOMAIN results : took[j] \in Result /\ Same(took[j], results[j])
    <2> SUFFICES ASSUME NEW j \in DOMAIN results
                 PROVE  took[j] \in Result /\ Same(took[j], results[j])
      OBVIOUS
    <2> DEFINE r == results[j]
    <2>1. r \in Result
      BY <1>7
    <2> HIDE DEF r
    <2>2. took[j] = IF j \notin at THEN r
                    ELSE IF Status(row.date, r) = "replace"
                    THEN Replace(r, row)
                    ELSE [r EXCEPT !.met = TRUE]
      BY DEF r
    <2> HIDE DEF took
    <2>3. CASE took[j] = r
      BY <2>1, <2>3 DEF Same, r
    <2>4. CASE took[j] = Replace(r, row)
      <3>1. took[j] \in Result /\ Same(took[j], r)
        BY <1>1, <1>3, <2>1, <2>4, ReplaceIs DEF Same
      <3> QED
        BY <3>1 DEF r
    <2>5. CASE took[j] = [r EXCEPT !.met = TRUE]
      <3> DEFINE x == took[j]
      <3>2. x = [r EXCEPT !.met = TRUE]
        BY <2>5
      <3> HIDE DEF x
      <3>3. /\ x \in Result /\ x.names = r.names
            /\ x.active = r.active /\ x.next = r.next /\ x.name = r.name
            /\ x.self = r.self /\ x.parent = r.parent
        BY <2>1, <3>2, WithMet
      <3>1. took[j] \in Result /\ Same(took[j], r)
        BY <3>3 DEF Same, x
      <3> QED
        BY <3>1 DEF r
    <2> QED
      BY <2>2, <2>3, <2>4, <2>5
  <1>9. DOMAIN took = DOMAIN results /\ took = [j \in DOMAIN took |-> took[j]]
    OBVIOUS
  <1> HIDE DEF took
  <1>10. /\ took \in Seq(Result) /\ Len(took) = Len(results) /\ Keeps(took, results)
         /\ Sorted(results) => Sorted(took)
    BY <1>1, <1>8, <1>9, KeepsSame
  <1>11. CASE results' = results /\ ok' = ok
    <2>1. Keeps(results, results)
      BY DEF Keeps, Same
    <2> QED
      BY <1>1, <1>2, <1>3, <1>11, <2>1
  <1>12. CASE results' = took /\ ok' \in BOOLEAN
    BY <1>2, <1>3, <1>10, <1>12
  <1>13. CASE /\ new # {} /\ ok' \in BOOLEAN
              /\ results' = InsertAt(took, Min(new) + 1, Copy(took[Min(new)], row))
    <2> DEFINE m == Min(new)
               e == Copy(took[m], row)
    <2>1. m \in DOMAIN results
      <3>1. new \in SUBSET (0..Len(results))
        BY <1>6, <1>7
      <3>2. m \in new
        BY <1>7, <1>13, <3>1, MinIs
      <3> QED
        BY <1>6, <3>2
    <2> HIDE DEF m
    <2>2. e \in Result /\ Same(e, took[m])
      <3> DEFINE r == took[m]
      <3>1. r \in Result
        BY <1>8, <2>1
      <3>2. e = Copy(r, row)
        OBVIOUS
      <3> HIDE DEF r, e
      <3>3. /\ e \in Result /\ e.names = r.names
            /\ e.active = r.active /\ e.next = r.next /\ e.name = r.name
            /\ e.self = r.self /\ e.parent = r.parent
        BY <1>1, <1>3, <3>1, <3>2, CopyIs
      <3> QED
        BY <3>3 DEF Same, r
    <2>3. m \in DOMAIN took
      BY <1>9, <2>1
    <2>4. results' = InsertAt(took, m + 1, e)
      BY <1>13 DEF m
    <2> HIDE DEF e
    <2>5. /\ results' \in Seq(Result) /\ Keeps(results', took)
          /\ Sorted(took) => Sorted(results')
      BY <1>10, <2>2, <2>3, <2>4, KeepsInsert
    <2>6. Keeps(results', results)
      <3> SUFFICES ASSUME NEW j \in DOMAIN results'
                   PROVE  \E k \in DOMAIN results : Same(results'[j], results[k])
        BY DEF Keeps
      <3>1. PICK i \in DOMAIN took : Same(results'[j], took[i])
        BY <2>5 DEF Keeps
      <3>2. PICK k \in DOMAIN results : Same(took[i], results[k])
        BY <1>10 DEF Keeps
      <3> QED
        BY <3>1, <3>2 DEF Same
    <2> QED
      BY <1>2, <1>3, <1>10, <1>13, <2>5, <2>6
  <1> QED
    BY <1>4, <1>11, <1>12, <1>13

LEMMA TypeInit == Init => TypeOK
  <1> SUFFICES ASSUME Init PROVE TypeOK
    OBVIOUS
  <1>1. 1 \in Levels
    BY Constants
  <1>2. results = << >> /\ before = << >> /\ rows = << >> /\ data = << >>
    BY DEF Init
  <1>3. results \in Seq(Result) /\ before \in Seq(Result)
        /\ rows \in Seq([feature : Ids, row : Row])
    BY <1>2, EmptySeq
  <1>4. \A id \in DOMAIN data : id \in Ids /\ data[id] \subseteq Row
    BY <1>2
  <1> QED
    BY <1>1, <1>3, <1>4 DEF Init, TypeOK

\* A list of new results
LEMMA InitFeaturesResults ==
    ASSUME InitFeatures
    PROVE  results' \in Seq(Result) /\ NamesActive(results') /\ OnSelf(results')
  <1>1. PICK n \in Ids, up \in [Ids -> Ids] : \E ids \in [1..n -> Ids] :
          results' = [j \in 1..n |->
                            [active |-> ids[j], next |-> up[ids[j]],
                             name |-> ids[j],
                             names |-> [l \in Levels |-> NoName],
                             data |-> [l \in Levels |-> NoRow],
                             date |-> NoDate, met |-> FALSE,
                             self |-> ids[j], parent |-> up[ids[j]]]]
    BY DEF InitFeatures
  <1>2. PICK ids \in [1..n -> Ids] :
          results' = [j \in 1..n |->
                            [active |-> ids[j], next |-> up[ids[j]],
                             name |-> ids[j],
                             names |-> [l \in Levels |-> NoName],
                             data |-> [l \in Levels |-> NoRow],
                             date |-> NoDate, met |-> FALSE,
                             self |-> ids[j], parent |-> up[ids[j]]]]
    BY <1>1
  <1> DEFINE s == results'
  <1>3. n \in Nat /\ DOMAIN s = 1..n /\ s = [j \in 1..n |-> s[j]]
    BY <1>2, Constants
  <1>4. \A j \in 1..n : s[j] =
                            [active |-> ids[j], next |-> up[ids[j]],
                             name |-> ids[j],
                             names |-> [l \in Levels |-> NoName],
                             data |-> [l \in Levels |-> NoRow],
                             date |-> NoDate, met |-> FALSE,
                             self |-> ids[j], parent |-> up[ids[j]]]
    BY <1>2
  <1> HIDE DEF s
  <1>5. \A j \in 1..n : ids[j] \in Ids /\ up[ids[j]] \in Ids
    OBVIOUS
  <1>6. \A j \in 1..n : /\ s[j] \in Result
                        /\ s[j].active = s[j].self /\ s[j].next = s[j].parent
                        /\ s[j].name = s[j].self /\ s[j].name = s[j].active
    <2> SUFFICES ASSUME NEW j \in 1..n, NEW x, x = s[j]
                 PROVE  /\ x \in Result /\ x.active = x.self /\ x.next = x.parent
                        /\ x.name = x.self /\ x.name = x.active
      OBVIOUS
    <2> DEFINE a == ids[j]
               u == up[a]
    <2>1. a \in Ids /\ u \in Ids
      BY <1>5
    <2>2. x = [active |-> a, next |-> u, name |-> a,
               names |-> [l \in Levels |-> NoName], data |-> [l \in Levels |-> NoRow],
               date |-> NoDate, met |-> FALSE, self |-> a, parent |-> u]
      BY <1>4
    <2> HIDE DEF a, u
    <2> QED
      BY <2>1, <2>2 DEF Result
  <1>7. s \in Seq(Result)
    <2> HIDE DEF Result
    <2> QED
      BY <1>3, <1>6
  <1>9. NamesActive(s) /\ OnSelf(s)
    BY <1>3, <1>6 DEF NamesActive, OnSelf
  <1> QED
    BY <1>7, <1>9 DEF s

\* What LoadDataAll does to the list: the names, and for data the order
LEMMA LoadDataAllResults ==
    ASSUME TypeOK, LoadDataAll
    PROVE  /\ results' \in Seq(Result)
           /\ phase' = "load" => Sorted(results')
           /\ NamesActive(results) => NamesActive(results') /\ LevelActive(results', level)
           /\ OnSelf(results) => OnSelf(results')
  <1> DEFINE named == [j \in DOMAIN results |->
                        [results[j] EXCEPT !.names[level] = results[j].name]]
             s == [j \in DOMAIN named |-> [named[j] EXCEPT !.met = FALSE]]
  <1>1. results \in Seq(Result) /\ level \in Levels /\ results # << >>
    BY DEF TypeOK, LoadDataAll
  <1>2. /\ Len(results) \in Nat /\ DOMAIN results = 1..Len(results)
        /\ \A j \in DOMAIN results : results[j] \in Result
    BY <1>1, ResultList
  <1>3. \/ results' = SortFeature(s, 1, Len(named)) /\ phase' = "load"
        \/ results' = named /\ phase' = "skipped"
    BY DEF LoadDataAll
  <1>4. \A j \in DOMAIN results :
           /\ named[j] \in Result /\ named[j].names[level] = results[j].name
           /\ named[j].active = results[j].active /\ named[j].next = results[j].next
           /\ named[j].name = results[j].name
           /\ named[j].self = results[j].self /\ named[j].parent = results[j].parent
    <2> SUFFICES ASSUME NEW j \in DOMAIN results, NEW x, x = named[j]
                 PROVE  /\ x \in Result /\ x.names[level] = results[j].name
                        /\ x.active = results[j].active /\ x.next = results[j].next
                        /\ x.name = results[j].name
                        /\ x.self = results[j].self /\ x.parent = results[j].parent
      OBVIOUS
    <2> DEFINE r == results[j]
    <2>1. r \in Result /\ r.name \in Ids \cup {NoName}
      BY <1>2, ResultFields
    <2>2. x = [r EXCEPT !.names[level] = r.name]
      OBVIOUS
    <2> HIDE DEF r
    <2>3. /\ x \in Result /\ x.names[level] = r.name
          /\ x.active = r.active /\ x.next = r.next /\ x.name = r.name
          /\ x.self = r.self /\ x.parent = r.parent
      BY <1>1, <2>1, <2>2, WithName, ZenonT(60)
    <2> QED
      BY <2>3 DEF r
  <1>5. DOMAIN named = DOMAIN results /\ named = [j \in DOMAIN named |-> named[j]]
    OBVIOUS
  <1> HIDE DEF named
  <1>6. named \in Seq(Result) /\ Len(named) = Len(results)
    BY <1>1, <1>4, <1>5, MapList
  <1>7. NamesActive(results) => NamesActive(named) /\ LevelActive(named, level)
    BY <1>4, <1>5 DEF NamesActive, LevelActive
  <1>8. OnSelf(results) => OnSelf(named)
    BY <1>4, <1>5 DEF OnSelf
  <1>9. \A j \in DOMAIN named : s[j] \in Result /\ Same(s[j], named[j])
    <2> SUFFICES ASSUME NEW j \in DOMAIN named
                 PROVE  s[j] \in Result /\ Same(s[j], named[j])
      OBVIOUS
    <2> DEFINE r == named[j]
               x == [r EXCEPT !.met = FALSE]
    <2>1. r \in Result /\ s[j] = x
      BY <1>4, <1>5
    <2> HIDE DEF r, s
    <2>2. /\ x \in Result /\ x.names = r.names
          /\ x.active = r.active /\ x.next = r.next /\ x.name = r.name
          /\ x.self = r.self /\ x.parent = r.parent
      BY <2>1, WithMet
    <2> HIDE DEF x
    <2>3. s[j] \in Result /\ Same(s[j], r)
      BY <2>1, <2>2 DEF Same
    <2> QED
      BY <2>3 DEF r
  <1>10. DOMAIN s = DOMAIN named /\ s = [j \in DOMAIN s |-> s[j]]
    OBVIOUS
  <1> HIDE DEF s
  <1>11. s \in Seq(Result) /\ Len(s) = Len(named) /\ Keeps(s, named)
    BY <1>6, <1>9, <1>10, KeepsSame
  <1>12. CASE results' = named /\ phase' = "skipped"
    BY <1>6, <1>7, <1>8, <1>12
  <1>13. CASE results' = SortFeature(s, 1, Len(named)) /\ phase' = "load"
    <2>1. s # << >>
      <3>1. Len(results) # 0
        BY <1>1, EmptySeq
      <3>2. Len(s) # 0
        BY <1>6, <1>11, <3>1
      <3> QED
        BY <3>2, EmptySeq
    <2>2. results' = SortFeature(s, 1, Len(s))
      BY <1>11, <1>13
    <2> DEFINE t == results'
    <2> HIDE DEF t
    <2>3. /\ t \in Seq(Result) /\ Sorted(t) /\ DOMAIN t = DOMAIN s
          /\ \A j \in DOMAIN t : \E k \in DOMAIN s : t[j] = s[k]
      BY <1>11, <2>1, <2>2, SortAll DEF t
    <2>4. Keeps(t, s)
      <3>1. \A j \in DOMAIN t : \E k \in DOMAIN s : Same(t[j], s[k])
        <4> SUFFICES ASSUME NEW j \in DOMAIN t
                     PROVE  \E k \in DOMAIN s : Same(t[j], s[k])
          OBVIOUS
        <4>1. PICK k \in DOMAIN s : t[j] = s[k]
          BY <2>3
        <4>2. Same(t[j], s[k])
          BY <4>1 DEF Same
        <4> QED
          BY <4>2
      <3> QED
        BY <3>1 DEF Keeps
    <2>5. /\ NamesActive(named) => NamesActive(t)
          /\ LevelActive(named, level) => LevelActive(t, level)
          /\ OnSelf(named) => OnSelf(t)
      BY <1>11, <2>4, KeepsAll
    <2> QED
      BY <1>7, <1>8, <2>3, <2>5 DEF t
  <1> QED
    BY <1>3, <1>12, <1>13

\* What RemoveUnmet leaves
LEMMA RemoveUnmetResults ==
    ASSUME TypeOK, RemoveUnmet
    PROVE  results' \in Seq(Result) /\ Keeps(results', results)
  <1>1. results \in Seq(Result)
    BY DEF TypeOK
  <1> DEFINE T == {results[j] : j \in DOMAIN results}
  <1>2. Len(results) \in Nat /\ DOMAIN results = 1..Len(results)
        /\ \A j \in DOMAIN results : results[j] \in Result
    BY <1>1, ResultList
  <1>3. results' = results \/ results' = Met(results)
    BY DEF RemoveUnmet
  <1>4. results \in Seq(T)
    <2>1. results = [j \in 1..Len(results) |-> results[j]]
      BY <1>1, LenProperties
    <2>2. \A j \in 1..Len(results) : results[j] \in T
      BY <1>2
    <2> HIDE DEF T
    <2> QED
      BY <1>2, <2>1, <2>2
  <1>5. T \subseteq Result
    BY <1>2
  <1>6. \A x \in T : \E k \in DOMAIN results : x = results[k]
    OBVIOUS
  <1> HIDE DEF T
  <1>7. results' \in Seq(T)
    BY <1>3, <1>4, KeptType DEF Met
  <1>8. results' \in Seq(Result)
    BY <1>5, <1>7, SeqMonotonic
  <1>9. \A j \in DOMAIN results' : results'[j] \in T
    BY <1>7, LenProperties, ElementOfSeq
  <1>10. Keeps(results', results)
    <2> SUFFICES ASSUME NEW j \in DOMAIN results'
                 PROVE  \E k \in DOMAIN results : Same(results'[j], results[k])
      BY DEF Keeps
    <2>1. PICK k \in DOMAIN results : results'[j] = results[k]
      BY <1>6, <1>9
    <2>2. Same(results'[j], results[k])
      BY <2>1 DEF Same
    <2> QED
      BY <2>2
  <1> QED
    BY <1>8, <1>10

LEMMA DatelessList ==
    ASSUME NEW s \in Seq(Result)
    PROVE  Dateless(s) \in Seq(Result) /\ Keeps(Dateless(s), s)
  <1> DEFINE t == Dateless(s)
  <1>1. DOMAIN t = DOMAIN s /\ t = [j \in DOMAIN t |-> t[j]]
    BY DEF Dateless
  <1>2. \A j \in DOMAIN s : t[j] \in Result /\ Same(t[j], s[j])
    <2> SUFFICES ASSUME NEW j \in DOMAIN s PROVE t[j] \in Result /\ Same(t[j], s[j])
      OBVIOUS
    <2> DEFINE r == s[j]
               x == [r EXCEPT !.date = NoDate]
    <2>1. r \in Result /\ t[j] = x
      BY ResultList DEF Dateless
    <2> HIDE DEF r, t
    <2>2. /\ x \in Result /\ x.names = r.names
          /\ x.active = r.active /\ x.next = r.next /\ x.name = r.name
          /\ x.self = r.self /\ x.parent = r.parent
      BY <2>1, WithoutDate
    <2> HIDE DEF x
    <2>3. t[j] \in Result /\ Same(t[j], r)
      BY <2>1, <2>2 DEF Same
    <2> QED
      BY <2>3 DEF r
  <1> HIDE DEF t
  <1>3. t \in Seq(Result) /\ Keeps(t, s)
    BY <1>1, <1>2, KeepsSame
  <1> QED
    BY <1>3 DEF t

\* The list after the parents were looked for: every name is that of the active
\* feature, and if the parents are in their order, each once, they are found.
LEMMA ParentsList ==
    ASSUME results \in Seq(Result), NEW up \in [Ids -> Ids]
    PROVE  /\ Parents(up) \in Seq(Result) /\ NamesActive(Parents(up))
           /\ OnSelf(results)
              /\ (\A j, k \in DOMAIN results : j < k => results[j].next < results[k].next)
              => OnSelf(Parents(up))
  <1> DEFINE moved == [j \in DOMAIN results |-> Moved(results[j])]
             found == {j \in DOMAIN moved :
                     LET k == FindSorted(moved, moved[j].active)
                     IN  k # 0 /\ j \in From(moved, k)}
             t == Parents(up)
  <1>1. /\ Len(results) \in Nat /\ DOMAIN results = 1..Len(results)
        /\ \A j \in DOMAIN results : results[j] \in Result
    BY ResultList
  <1>2. \A j \in DOMAIN results :
           /\ moved[j] \in Result /\ moved[j].active = results[j].next
           /\ moved[j].self = results[j].parent
    <2> SUFFICES ASSUME NEW j \in DOMAIN results
                 PROVE  /\ moved[j] \in Result /\ moved[j].active = results[j].next
                        /\ moved[j].self = results[j].parent
      OBVIOUS
    <2> DEFINE r == results[j]
    <2>1. r \in Result /\ moved[j] = Moved(r)
      BY <1>1
    <2> HIDE DEF r, moved
    <2>2. /\ moved[j] \in Result /\ moved[j].active = r.next
          /\ moved[j].self = r.parent
      BY <2>1, MovedIs
    <2> QED
      BY <2>2 DEF r
  <1>3. DOMAIN moved = DOMAIN results /\ moved = [j \in DOMAIN moved |-> moved[j]]
    OBVIOUS
  <1>4. t = [j \in DOMAIN moved |->
            [moved[j] EXCEPT
                !.next = IF j \in found THEN up[moved[j].active] ELSE @,
                !.name = IF j \in found THEN moved[j].active ELSE @,
                !.parent = up[moved[j].self]]]
    BY DEF Parents
  <1> HIDE DEF moved, found, t
  <1>5. moved \in Seq(Result)
    BY <1>2, <1>3, MapList
  <1>6. \A j \in DOMAIN results :
           /\ t[j] \in Result
           /\ t[j].active = moved[j].active /\ t[j].self = moved[j].self
           /\ t[j].name = IF j \in found THEN moved[j].active ELSE moved[j].name
           /\ t[j].next = IF j \in found THEN up[moved[j].active] ELSE moved[j].next
           /\ t[j].parent = up[moved[j].self]
    <2> SUFFICES ASSUME NEW j \in DOMAIN results
                 PROVE  /\ t[j] \in Result
                        /\ t[j].active = moved[j].active /\ t[j].self = moved[j].self
                        /\ t[j].name = IF j \in found THEN moved[j].active ELSE moved[j].name
                        /\ t[j].next = IF j \in found THEN up[moved[j].active] ELSE moved[j].next
                        /\ t[j].parent = up[moved[j].self]
      OBVIOUS
    <2> DEFINE r == moved[j]
               a == IF j \in found THEN up[r.active] ELSE r.next
               v == IF j \in found THEN r.active ELSE r.name
               p == up[r.self]
               x == [r EXCEPT !.next = a, !.name = v, !.parent = p]
    <2>1. r \in Result
      BY <1>2
    <2>2. t[j] = x
      BY <1>3, <1>4
    <2> HIDE DEF r
    <2>3. a \in Ids /\ v \in Ids \cup {NoName} /\ p \in Ids
      BY <2>1, ResultFields
    <2> HIDE DEF a, v, p
    <2>4. /\ x \in Result
          /\ x.active = r.active /\ x.next = a /\ x.name = v
          /\ x.self = r.self /\ x.parent = p
      BY <2>1, <2>3 DEF Result
    <2> HIDE DEF x
    <2>5. /\ t[j] \in Result
          /\ t[j].active = r.active /\ t[j].next = a /\ t[j].name = v
          /\ t[j].self = r.self /\ t[j].parent = p
      BY <2>2, <2>4
    <2> QED
      BY <2>5 DEF r, a, v, p
  <1>7. DOMAIN t = DOMAIN results /\ t = [j \in DOMAIN t |-> t[j]]
    BY <1>3, <1>4
  <1>8. t \in Seq(Result)
    BY <1>6, <1>7, MapList
  <1>a. \A j \in DOMAIN results : moved[j].name = NoName
    <2> SUFFICES ASSUME NEW j \in DOMAIN results PROVE moved[j].name = NoName
      OBVIOUS
    <2>1. moved[j] = Moved(results[j]) /\ results[j] \in Result
      BY <1>1 DEF moved
    <2> QED
      BY <2>1, MovedIs
  <1>9. NamesActive(t)
    BY <1>6, <1>7, <1>a DEF NamesActive
  <1>10. ASSUME OnSelf(results),
                \A j, k \in DOMAIN results : j < k => results[j].next < results[k].next
         PROVE  OnSelf(t)
    <2>1. \A j \in DOMAIN moved : moved[j].active \in Int
      BY <1>5, ResultList DEF IsList
    <2>2. \A j, k \in DOMAIN moved : j < k => moved[j].active < moved[k].active
      BY <1>2, <1>3, <1>10
    <2>3. Sorted(moved)
      BY <2>1, <2>2 DEF Sorted
    <2>4. ASSUME NEW j \in DOMAIN moved
          PROVE  j \in found
      <3> DEFINE k == FindSorted(moved, moved[j].active)
      <3>1. k \in DOMAIN moved /\ moved[k].active = moved[j].active
        BY <1>5, <2>1, <2>3, FindSortedIs
      <3> HIDE DEF k
      <3>2. j \in 1..Len(results) /\ k \in 1..Len(results)
        BY <1>1, <1>3, <3>1
      <3>3. j = k
        <4>1. ~(j < k) /\ ~(k < j)
          BY <2>1, <2>2, <3>1
        <4> QED
          BY <1>1, <3>2, <4>1
      <3>4. k # 0 /\ j \in From(moved, k)
        <4>1. \A i \in k..j : i = k
          BY <3>2, <3>3
        <4>2. \A i \in k..j : moved[i].active = moved[k].active
          BY <4>1
        <4>3. k <= j /\ k # 0
          BY <1>1, <3>2, <3>3
        <4> QED
          BY <4>2, <4>3 DEF From
      <3> QED
        BY <3>4 DEF found, k
    <2>5. \A j \in DOMAIN t : /\ t[j].active = t[j].self /\ t[j].next = t[j].parent
                              /\ t[j].name = t[j].self
      <3> SUFFICES ASSUME NEW j \in DOMAIN t
                   PROVE  /\ t[j].active = t[j].self /\ t[j].next = t[j].parent
                          /\ t[j].name = t[j].self
        OBVIOUS
      <3>1. j \in DOMAIN results /\ j \in found
        BY <1>3, <1>7, <2>4
      <3>2. moved[j].active = moved[j].self
        BY <1>2, <1>10, <3>1 DEF OnSelf
      <3> QED
        BY <1>6, <3>1, <3>2
    <2> QED
      BY <2>5 DEF OnSelf
  <1> QED
    BY <1>8, <1>9, <1>10 DEF t

\* What NextType makes of the list
LEMMA NextTypeResults ==
    ASSUME TypeOK, NextType
    PROVE  /\ results' \in Seq(Result) /\ scrambled' \in BOOLEAN
           /\ NamesActive(results) => NamesActive(results')
           /\ OnSelf(results) /\ ~scrambled' => OnSelf(results')
           /\ ~scrambled' => ~scrambled
           /\ phase' \in {"begin", "done"} /\ level' \in Levels
  <1>1. /\ results \in Seq(Result) /\ level \in Levels /\ scrambled \in BOOLEAN
        /\ Depth \in Nat /\ Levels = 1..Depth
    BY Constants DEF TypeOK
  <1>2. \/ /\ level < Depth /\ level' = level + 1 /\ phase' = "begin"
           /\ \E up \in [Ids -> Ids] :
                 /\ results' = Dateless(Parents(up))
                 /\ scrambled' = (scrambled \/ \E j, k \in DOMAIN results :
                                    /\ j < k
                                    /\ results[j].next >= results[k].next)
        \/ /\ level < Depth /\ level' = level + 1 /\ phase' = "begin"
           /\ results' = Dateless(results) /\ scrambled' = scrambled
        \/ /\ phase' = "done" /\ level' = level /\ results' = results
           /\ scrambled' = scrambled
    BY DEF NextType
  <1>3. CASE /\ level < Depth /\ level' = level + 1 /\ phase' = "begin"
             /\ \E up \in [Ids -> Ids] :
                   /\ results' = Dateless(Parents(up))
                   /\ scrambled' = (scrambled \/ \E j, k \in DOMAIN results :
                                      /\ j < k
                                      /\ results[j].next >= results[k].next)
    <2>1. PICK up \in [Ids -> Ids] :
                   /\ results' = Dateless(Parents(up))
                   /\ scrambled' = (scrambled \/ \E j, k \in DOMAIN results :
                                      /\ j < k
                                      /\ results[j].next >= results[k].next)
      BY <1>3
    <2> DEFINE t == Parents(up)
    <2>2. /\ t \in Seq(Result) /\ NamesActive(t)
          /\ OnSelf(results)
             /\ (\A j, k \in DOMAIN results : j < k => results[j].next < results[k].next)
             => OnSelf(t)
      BY <1>1, ParentsList
    <2> HIDE DEF t
    <2>3. results' \in Seq(Result) /\ Keeps(results', t)
      BY <2>1, <2>2, DatelessList DEF t
    <2>4. /\ NamesActive(t) => NamesActive(results')
          /\ OnSelf(t) => OnSelf(results')
      BY <2>3, KeepsAll
    <2>5. ASSUME ~scrambled'
          PROVE  /\ ~scrambled
                 /\ \A j, k \in DOMAIN results : j < k => results[j].next < results[k].next
      <3>1. ~scrambled /\ \A j, k \in DOMAIN results :
                 j < k => ~(results[j].next >= results[k].next)
        BY <2>1, <2>5
      <3>2. \A j \in DOMAIN results : results[j].next \in Int
        BY <1>1, ResultList, ResultFields, Constants
      <3> QED
        BY <3>1, <3>2
    <2>6. scrambled' \in BOOLEAN
      BY <1>1, <2>1
    <2>7. level' \in Levels
      BY <1>1, <1>3
    <2> QED
      BY <1>3, <2>2, <2>3, <2>4, <2>5, <2>6, <2>7
  <1>4. CASE /\ level < Depth /\ level' = level + 1 /\ phase' = "begin"
             /\ results' = Dateless(results) /\ scrambled' = scrambled
    <2>1. results' \in Seq(Result) /\ Keeps(results', results)
      BY <1>1, <1>4, DatelessList
    <2>2. /\ NamesActive(results) => NamesActive(results')
          /\ OnSelf(results) => OnSelf(results')
      BY <2>1, KeepsAll
    <2>3. level' \in Levels
      BY <1>1, <1>4
    <2> QED
      BY <1>1, <1>4, <2>1, <2>2, <2>3
  <1>5. CASE /\ phase' = "done" /\ level' = level /\ results' = results
             /\ scrambled' = scrambled
    BY <1>1, <1>5
  <1> QED
    BY <1>2, <1>3, <1>4, <1>5

LEMMA ActiveIds ==
    ASSUME results \in Seq(Result)
    PROVE  Active \subseteq Ids
  BY ResultList, ResultFields DEF Active

\* The rows that LoadDataAll reads
LEMMA LoadDataAllRows ==
    ASSUME TypeOK, LoadDataAll
    PROVE  /\ rows' \in Seq([feature : Ids, row : Row])
           /\ \A id \in DOMAIN data' : id \in Ids /\ data'[id] \subseteq Row
           /\ before' \in Seq(Result)
  <1>1. /\ results \in Seq(Result) /\ level \in Levels
        /\ rows \in Seq([feature : Ids, row : Row]) /\ before \in Seq(Result)
        /\ \A id \in DOMAIN data : id \in Ids /\ data[id] \subseteq Row
    BY DEF TypeOK
  <1>2. \/ /\ data' \in [Active -> RowSets[level]] /\ rows' = BDAttributeCond(data')
           /\ before' = results'
        \/ data' = data /\ rows' = rows /\ before' = before
    BY DEF LoadDataAll
  <1>3. CASE /\ data' \in [Active -> RowSets[level]] /\ rows' = BDAttributeCond(data')
             /\ before' = results'
    <2>1. Active \in SUBSET Ids
      BY <1>1, ActiveIds
    <2> DEFINE D == Active
               table == data'
    <2>2. /\ DOMAIN table = D
          /\ \A id \in D : table[id] \in RowSets[level]
      BY <1>3
    <2> HIDE DEF D, table
    <2>3. D \in SUBSET Ids
      BY <2>1 DEF D
    <2>4. \A id \in D : /\ IsFiniteSet(table[id]) /\ table[id] \subseteq Row
                        /\ \A q, r \in table[id] :
                               q.date = r.date /\ q.order = r.order => q = r
      BY <1>1, <2>2, Constants
    <2>5. BDAttributeCond(table) \in Seq([feature : Ids, row : Row])
      BY <2>2, <2>3, <2>4, BDAttributeCondType
    <2>6. \A id \in DOMAIN table : id \in Ids /\ table[id] \subseteq Row
      BY <2>2, <2>3, <2>4
    <2>7. before' \in Seq(Result)
      BY <1>3, LoadDataAllResults
    <2> QED
      BY <1>3, <2>5, <2>6, <2>7 DEF table
  <1>4. CASE data' = data /\ rows' = rows /\ before' = before
    BY <1>1, <1>4
  <1> QED
    BY <1>2, <1>3, <1>4

LEMMA TypeNext == TypeOK /\ [Next]_vars => TypeOK'
  <1> SUFFICES ASSUME TypeOK, [Next]_vars PROVE TypeOK'
    OBVIOUS
  <1>0. /\ query \in Queries
        /\ phase \in {"begin", "load", "loaded", "skipped", "done"}
        /\ level \in Levels
        /\ results \in Seq(Result) /\ before \in Seq(Result)
        /\ rows \in Seq([feature : Ids, row : Row])
        /\ ok \in BOOLEAN /\ scrambled \in BOOLEAN
        /\ \A id \in DOMAIN data : id \in Ids /\ data[id] \subseteq Row
        /\ phase = "load" => Sorted(results)
    BY DEF TypeOK
  <1>e. /\ << >> \in Seq(Result) /\ << >> \in Seq([feature : Ids, row : Row])
        /\ \A id \in DOMAIN << >> : FALSE
    BY EmptySeq
  <1>1. CASE InitFeatures
    <2>1. /\ query' = query /\ phase' = "begin" /\ level' = 1 /\ ok' = TRUE
          /\ rows' = << >> /\ data' = << >> /\ before' = << >> /\ scrambled' = FALSE
      BY <1>1 DEF InitFeatures
    <2>2. results' \in Seq(Result) /\ 1 \in Levels
      BY <1>1, InitFeaturesResults, Constants
    <2> QED
      BY <1>0, <1>e, <2>1, <2>2 DEF TypeOK
  <1>2. CASE LoadDataAll
    <2>1. /\ query' = query /\ level' = level /\ ok' = ok /\ scrambled' = scrambled
          /\ phase' \in {"load", "skipped"}
      BY <1>2 DEF LoadDataAll
    <2>2. results' \in Seq(Result) /\ (phase' = "load" => Sorted(results'))
      BY <1>2, LoadDataAllResults
    <2>3. /\ rows' \in Seq([feature : Ids, row : Row])
          /\ \A id \in DOMAIN data' : id \in Ids /\ data'[id] \subseteq Row
          /\ before' \in Seq(Result)
      BY <1>2, LoadDataAllRows
    <2>4. Sorted(results)' <=> Sorted(results')
      BY DEF Sorted
    <2> QED
      BY <1>0, <2>1, <2>2, <2>3, <2>4 DEF TypeOK
  <1>3. CASE NoResults
    BY <1>0, <1>3 DEF NoResults, TypeOK
  <1>4. CASE GetNext
    <2>1. /\ query' = query /\ level' = level /\ phase' = phase /\ phase = "load"
          /\ data' = data /\ before' = before /\ scrambled' = scrambled
      BY <1>4 DEF GetNext
    <2>2. /\ results' \in Seq(Result) /\ Sorted(results')
          /\ rows' \in Seq([feature : Ids, row : Row]) /\ ok' \in BOOLEAN
      BY <1>0, <1>4, <2>1, GetNextResults
    <2> QED
      BY <1>0, <2>1, <2>2 DEF TypeOK
  <1>5. CASE RemoveUnmet
    <2>1. /\ query' = query /\ level' = level /\ phase' = "loaded" /\ ok' = ok
          /\ rows' = << >> /\ data' = data /\ before' = before /\ scrambled' = scrambled
      BY <1>5 DEF RemoveUnmet
    <2>2. results' \in Seq(Result)
      BY <1>5, RemoveUnmetResults
    <2> QED
      BY <1>0, <1>e, <2>1, <2>2 DEF TypeOK
  <1>6. CASE NextType
    <2>1. /\ query' = query /\ rows' = rows /\ ok' = ok
          /\ data' = << >> /\ before' = << >>
      BY <1>6 DEF NextType
    <2>2. /\ results' \in Seq(Result) /\ scrambled' \in BOOLEAN
          /\ phase' \in {"begin", "done"} /\ level' \in Levels
      BY <1>6, NextTypeResults
    <2> QED
      BY <1>0, <1>e, <2>1, <2>2 DEF TypeOK
  <1>7. CASE UNCHANGED vars
    BY <1>0, <1>7 DEF vars, TypeOK, Sorted
  <1> QED
    BY <1>1, <1>2, <1>3, <1>4, <1>5, <1>6, <1>7 DEF Next

\* TypeOK: the list and the rows have their types, and while rows are put into
\* it the list is sorted by the features that are active, as SortFeature left
\* it and UpdateDates keeps it, for any number of levels, features and rows.
THEOREM QueryTypeCorrect == Spec => []TypeOK
  BY TypeInit, TypeNext, PTL DEF Spec

\* The names, in all phases; what OnAncestor says of them, of the level too
\* while it is loaded.
AncestorInv ==
    /\ TypeOK
    /\ NamesActive(results)
    /\ phase \in {"load", "loaded", "skipped"} => LevelActive(results, level)
    /\ ~scrambled => OnSelf(results)

LEMMA AncestorInit == Init => AncestorInv
  <1> SUFFICES ASSUME Init PROVE AncestorInv
    OBVIOUS
  <1>1. results = << >> /\ phase = "done" /\ DOMAIN results = {}
    BY DEF Init
  <1> QED
    BY <1>1, TypeInit DEF AncestorInv, NamesActive, OnSelf

LEMMA AncestorKept ==
    ASSUME AncestorInv, TypeOK', Keeps(results', results), level' = level,
           scrambled' = scrambled,
           phase' \in {"load", "loaded", "skipped"} => phase \in {"load", "loaded", "skipped"}
    PROVE  AncestorInv'
  <1>1. /\ NamesActive(results')
        /\ LevelActive(results, level) => LevelActive(results', level)
        /\ OnSelf(results) => OnSelf(results')
    BY KeepsAll DEF AncestorInv
  <1>2. /\ NamesActive(results)' <=> NamesActive(results')
        /\ LevelActive(results, level)' <=> LevelActive(results', level')
        /\ OnSelf(results)' <=> OnSelf(results')
    BY DEF NamesActive, LevelActive, OnSelf
  <1> QED
    BY <1>1, <1>2 DEF AncestorInv

LEMMA AncestorNext == AncestorInv /\ [Next]_vars => AncestorInv'
  <1> SUFFICES ASSUME AncestorInv, [Next]_vars PROVE AncestorInv'
    OBVIOUS
  <1>0. TypeOK /\ TypeOK'
    BY TypeNext DEF AncestorInv
  <1>a. /\ NamesActive(results)' <=> NamesActive(results')
        /\ LevelActive(results, level)' <=> LevelActive(results', level')
        /\ OnSelf(results)' <=> OnSelf(results')
    BY DEF NamesActive, LevelActive, OnSelf
  <1>1. CASE InitFeatures
    <2>1. phase' = "begin"
      BY <1>1 DEF InitFeatures
    <2>2. NamesActive(results') /\ OnSelf(results')
      BY <1>1, InitFeaturesResults
    <2> QED
      BY <1>0, <1>a, <2>1, <2>2 DEF AncestorInv
  <1>2. CASE LoadDataAll
    <2>1. level' = level /\ scrambled' = scrambled
      BY <1>2 DEF LoadDataAll
    <2>2. /\ NamesActive(results') /\ LevelActive(results', level)
          /\ OnSelf(results) => OnSelf(results')
      BY <1>0, <1>2, LoadDataAllResults DEF AncestorInv
    <2> QED
      BY <1>0, <1>a, <2>1, <2>2 DEF AncestorInv
  <1>3. CASE NoResults
    <2>1. Keeps(results', results) /\ level' = level /\ scrambled' = scrambled
          /\ phase' = "done"
      BY <1>3 DEF NoResults, Keeps, Same
    <2> QED
      BY <1>0, <2>1, AncestorKept
  <1>4. CASE GetNext
    <2>1. level' = level /\ scrambled' = scrambled /\ phase' = phase
      BY <1>4 DEF GetNext
    <2>2. Keeps(results', results)
      BY <1>0, <1>4, GetNextResults
    <2> QED
      BY <1>0, <2>1, <2>2, AncestorKept
  <1>5. CASE RemoveUnmet
    <2>1. level' = level /\ scrambled' = scrambled /\ phase = "load"
      BY <1>5 DEF RemoveUnmet
    <2>2. Keeps(results', results)
      BY <1>0, <1>5, RemoveUnmetResults
    <2> QED
      BY <1>0, <2>1, <2>2, AncestorKept
  <1>6. CASE NextType
    <2>1. /\ NamesActive(results')
          /\ OnSelf(results) /\ ~scrambled' => OnSelf(results')
          /\ ~scrambled' => ~scrambled
          /\ phase' \in {"begin", "done"}
      BY <1>0, <1>6, NextTypeResults DEF AncestorInv
    <2> QED
      BY <1>0, <1>a, <2>1 DEF AncestorInv
  <1>7. CASE UNCHANGED vars
    <2>1. Keeps(results', results) /\ level' = level /\ scrambled' = scrambled
          /\ phase' = phase
      BY <1>7 DEF vars, Keeps, Same
    <2> QED
      BY <1>0, <2>1, AncestorKept
  <1> QED
    BY <1>1, <1>2, <1>3, <1>4, <1>5, <1>6, <1>7 DEF Next

LEMMA AncestorIs == AncestorInv => OnAncestor
  BY DEF AncestorInv, OnAncestor, NamesActive, LevelActive, OnSelf

\* OnAncestor: a result that went up the types is at the ancestor of its own
\* feature, with that name, wherever the parents were in their order, each once;
\* this rests on FindSorted finding what a sorted list has.
THEOREM QueryOnAncestor == Spec => []OnAncestor
  <1>1. Spec => []AncestorInv
    BY AncestorInit, AncestorNext, PTL DEF Spec
  <1> QED
    BY <1>1, AncestorIs, PTL

\* The elements of a list of lists come one list after the other: at says from
\* which list each is.
Runs(s, f, at) ==
    /\ at \in [DOMAIN f -> DOMAIN s]
    /\ \A j, k \in DOMAIN f : j < k => at[j] <= at[k]
    /\ \A j \in DOMAIN f : \E c \in DOMAIN s[at[j]] : f[j] = s[at[j]][c]
    /\ \A i \in DOMAIN s : Len(s[i]) > 0 => \E j \in DOMAIN f : at[j] = i
    /\ \A j, k \in DOMAIN f : j < k /\ at[j] = at[k] => Len(s[at[j]]) > 1

LEMMA FlattenSeqRuns ==
    ASSUME NEW T, NEW s \in Seq(Seq(T))
    PROVE  \E at : Runs(s, FlattenSeq(s), at)
  <1> DEFINE n == Len(s)
  <1>0. n \in Nat /\ DOMAIN s = 1..n /\ \A i \in 1..n : s[i] \in Seq(T)
    BY LenProperties, ElementOfSeq
  <1>1. PICK e : /\ \A i \in 1..n : e[i] = Flat(s, e, i)
                 /\ FlattenSeq(s) = IF n = 0 THEN s ELSE e[n]
    BY <1>0, FlattenSeqExists
  <1> HIDE DEF n
  \* The runs of the first k lists
  <1> DEFINE Upto(k, f, at) ==
                /\ at \in [DOMAIN f -> 1..k]
                /\ \A i, j \in DOMAIN f : i < j => at[i] <= at[j]
                /\ \A j \in DOMAIN f : \E c \in DOMAIN s[at[j]] : f[j] = s[at[j]][c]
                /\ \A i \in 1..k : Len(s[i]) > 0 => \E j \in DOMAIN f : at[j] = i
                /\ \A i, j \in DOMAIN f : i < j /\ at[i] = at[j] => Len(s[at[i]]) > 1
             U == {k \in Nat : k \in 1..n => /\ e[k] \in Seq(T)
                                             /\ \E at : Upto(k, e[k], at)}
  <1>2. ASSUME NEW k \in Nat, \A m \in Nat : m < k => m \in U, k \in 1..n
        PROVE  e[k] \in Seq(T) /\ \E at : Upto(k, e[k], at)
    <2> DEFINE q == s[k]
    <2>0. q \in Seq(T) /\ Len(q) \in Nat /\ DOMAIN q = 1..Len(q)
      BY <1>0, <1>2, LenProperties
    <2>1. CASE k = 1
      <3>1. e[k] = q
        BY <1>1, <1>2, <2>1 DEF Flat
      <3> DEFINE at == [j \in DOMAIN q |-> 1]
      <3>2. q = s[1] /\ 1..k = {1}
        BY <2>1
      <3> HIDE DEF q
      <3>3. /\ at \in [DOMAIN q -> 1..k]
            /\ \A j \in DOMAIN q : at[j] = 1
        BY <3>2
      <3> HIDE DEF at
      <3>4. \A i, j \in DOMAIN q : i < j => Len(q) > 1
        BY <2>0
      <3>5. Len(q) > 0 => 1 \in DOMAIN q
        BY <2>0
      <3>6. Upto(k, q, at)
        BY <3>2, <3>3, <3>4, <3>5
      <3> HIDE DEF Upto
      <3> QED
        BY <2>0, <3>1, <3>6
    <2>2. CASE k # 1
      <3>1. k - 1 \in Nat /\ k - 1 < k /\ k - 1 \in 1..n
        BY <1>0, <1>2, <2>2
      <3> DEFINE p == e[k - 1]
      <3>2. p \in Seq(T) /\ \E at : Upto(k - 1, p, at)
        BY <1>2, <3>1
      <3>3. PICK at : Upto(k - 1, p, at)
        BY <3>2
      <3>4. e[k] = p \o q
        BY <1>1, <1>2, <2>2 DEF Flat
      <3>5. Len(p) \in Nat /\ DOMAIN p = 1..Len(p)
        BY <3>2, LenProperties
      <3> DEFINE f == p \o q
                 l == Len(p)
                 m == Len(q)
                 on == [j \in 1..l + m |-> IF j <= l THEN at[j] ELSE k]
      <3>6. /\ f \in Seq(T) /\ DOMAIN f = 1..l + m
            /\ \A j \in 1..l + m : f[j] = IF j <= l THEN p[j] ELSE q[j - l]
        <4>1. f \in Seq(T) /\ Len(f) = l + m
              /\ \A j \in 1..l + m : f[j] = IF j <= l THEN p[j] ELSE q[j - l]
          <5> HIDE DEF p, q
          <5> QED
            BY <2>0, <3>2, ConcatProperties
        <4> QED
          BY <4>1, LenProperties
      <3>7. /\ at \in [1..l -> 1..k - 1]
            /\ \A i, j \in 1..l : i < j => at[i] <= at[j]
            /\ \A j \in 1..l : \E c \in DOMAIN s[at[j]] : p[j] = s[at[j]][c]
            /\ \A i \in 1..k - 1 : Len(s[i]) > 0 => \E j \in 1..l : at[j] = i
            /\ \A i, j \in 1..l : i < j /\ at[i] = at[j] => Len(s[at[i]]) > 1
        BY <3>3, <3>5
      <3>8. l \in Nat /\ m \in Nat
        BY <2>0, <3>5
      <3> HIDE DEF f, l, m, p
      <3>9. \A j \in 1..l : j \in 1..l + m /\ on[j] = at[j] /\ on[j] \in 1..k - 1
        BY <3>7, <3>8
      <3>10. \A j \in 1..l + m : ~(j <= l) => on[j] = k /\ j - l \in 1..m
        BY <3>8
      <3>11. \A j \in 1..l + m : j <= l <=> j \in 1..l
        BY <3>8
      <3>12. on \in [1..l + m -> 1..k]
        <4>1. \A j \in 1..l + m : on[j] \in 1..k
          <5> HIDE DEF on
          <5> QED
            BY <3>1, <3>9, <3>10, <3>11
        <4> QED
          BY <4>1
      <3> HIDE DEF on
      <3>13. ASSUME NEW i \in 1..l + m, NEW j \in 1..l + m, i < j
             PROVE  on[i] <= on[j] /\ (on[i] = on[j] => Len(s[on[i]]) > 1)
        <4>1. CASE j <= l
          <5>1. i \in 1..l /\ j \in 1..l
            BY <3>8, <3>13, <4>1
          <5> QED
            BY <3>7, <3>9, <3>13, <5>1
        <4>2. CASE ~(j <= l) /\ i <= l
          <5>1. on[i] \in 1..k - 1 /\ on[j] = k
            BY <3>9, <3>10, <3>11, <4>2
          <5> QED
            BY <3>1, <5>1
        <4>3. CASE ~(j <= l) /\ ~(i <= l)
          <5>1. on[i] = k /\ on[j] = k /\ i - l \in 1..m /\ j - l \in 1..m
            BY <3>10, <4>3
          <5>2. m > 1
            BY <3>8, <3>13, <5>1
          <5> QED
            BY <3>1, <5>1, <5>2 DEF m
        <4> QED
          BY <4>1, <4>2, <4>3
      <3>14. ASSUME NEW j \in 1..l + m
             PROVE  \E c \in DOMAIN s[on[j]] : f[j] = s[on[j]][c]
        <4>1. CASE j <= l
          BY <3>6, <3>7, <3>9, <3>11, <4>1
        <4>2. CASE ~(j <= l)
          <5>1. on[j] = k /\ j - l \in DOMAIN q /\ f[j] = q[j - l]
            BY <2>0, <3>6, <3>10, <4>2 DEF m
          <5> QED
            BY <5>1
        <4> QED
          BY <4>1, <4>2
      <3>15. ASSUME NEW i \in 1..k, Len(s[i]) > 0
             PROVE  \E j \in 1..l + m : on[j] = i
        <4>1. CASE i = k
          <5>1. l + 1 \in 1..l + m /\ ~(l + 1 <= l)
            BY <3>8, <3>15, <4>1 DEF m
          <5> QED
            BY <3>10, <4>1, <5>1
        <4>2. CASE i # k
          <5>1. i \in 1..k - 1
            BY <3>1, <4>2
          <5> QED
            BY <3>7, <3>9, <3>15, <5>1
        <4> QED
          BY <4>1, <4>2
      <3>16. Upto(k, f, on)
        BY <3>6, <3>12, <3>13, <3>14, <3>15
      <3> HIDE DEF Upto
      <3> QED
        BY <3>4, <3>6, <3>16 DEF f
    <2> QED
      BY <2>1, <2>2
  <1>3. \A k \in Nat : k \in U
    <2>1. \A k \in Nat : (\A m \in Nat : m < k => m \in U) => k \in U
      BY <1>2
    <2> HIDE DEF U
    <2> QED
      BY <2>1, Induct
  <1>4. CASE n = 0
    <2>1. FlattenSeq(s) = s /\ DOMAIN s = {}
      BY <1>0, <1>1, <1>4
    <2> DEFINE at == [j \in {} |-> 0]
    <2>2. Runs(s, s, at)
      BY <2>1 DEF Runs
    <2> HIDE DEF at
    <2> QED
      BY <2>1, <2>2
  <1>5. CASE n # 0
    <2>1. n \in 1..n
      BY <1>0, <1>5
    <2>2. PICK at : Upto(n, e[n], at)
      BY <1>0, <1>3, <2>1
    <2>3. Runs(s, e[n], at)
      BY <1>0, <2>2 DEF Runs
    <2> QED
      BY <1>1, <1>5, <2>3
  <1> QED
    BY <1>4, <1>5

\* What BDAttributeCond returns of a table: what is joined, in the order of
\* GetSortOrder, and twice only what is joined more than once.
IsAnswer(all, table) ==
    /\ all \in Seq([feature : Ids, row : Row])
    /\ \A k \in DOMAIN all :
          /\ all[k].feature \in DOMAIN table /\ all[k].row \in table[all[k].feature]
          /\ Joined(table[all[k].feature], all[k].row) > 0
    /\ \A id \in DOMAIN table : \A r \in table[id] :
          Joined(table[id], r) > 0 =>
              \E k \in DOMAIN all : all[k].feature = id /\ all[k].row = r
    /\ \A j, k \in DOMAIN all : j < k => all[j] = all[k] \/ RowBefore(all[j], all[k])
    /\ \A j, k \in DOMAIN all :
          j < k /\ all[j] = all[k] => Joined(table[all[j].feature], all[j].row) > 1

LEMMA BDAttributeCondIs ==
    ASSUME NEW D \in SUBSET Ids, NEW table, DOMAIN table = D,
           \A id \in D : /\ IsFiniteSet(table[id]) /\ table[id] \subseteq Row
                         /\ \A q, r \in table[id] :
                               q.date = r.date /\ q.order = r.order => q = r
    PROVE  IsAnswer(BDAttributeCond(table), table)
  <1> DEFINE T == [feature : Ids, row : Row]
             S == Read(table)
             n == Cardinality(S)
             sorted == InOrder(S)
             J(x) == Joined(table[x.feature], x.row)
             parts == [k \in DOMAIN sorted |-> [c \in 1..J(sorted[k]) |-> sorted[k]]]
  <1>1. IsTable(S, T)
    BY ReadIsTable
  <1>2. /\ sorted \in [1..n -> S]
        /\ \A j, k \in 1..n : j < k => RowBefore(sorted[j], sorted[k])
        /\ \A x \in S : \E k \in 1..n : sorted[k] = x
    BY <1>1, InOrderIs
  <1>3. n \in Nat /\ S \subseteq T
    BY <1>1, FS_CardinalityType DEF IsTable
  <1>4. \A x \in S : x.feature \in D /\ x.row \in table[x.feature]
    BY DEF Read
  <1>5. BDAttributeCond(table) = FlattenSeq(parts)
    BY DEF BDAttributeCond, Read
  <1>6. \A id \in D : \A r \in table[id] :
            \E x \in S : x.feature = id /\ x.row = r
    <2> SUFFICES ASSUME NEW id \in D, NEW r \in table[id]
                 PROVE  \E x \in S : x.feature = id /\ x.row = r
      OBVIOUS
    <2>1. [feature |-> id, row |-> r] \in S
      BY DEF Read
    <2> QED
      BY <2>1
  <1>7. \A x \in S : J(x) \in Nat
    BY <1>4, JoinedType
  <1> HIDE DEF S, n, T, sorted, J
  <1>8. /\ DOMAIN parts = 1..n
        /\ \A k \in 1..n : /\ parts[k] = [c \in 1..J(sorted[k]) |-> sorted[k]]
                           /\ sorted[k] \in S /\ J(sorted[k]) \in Nat
                           /\ DOMAIN parts[k] = 1..J(sorted[k])
                           /\ \A c \in DOMAIN parts[k] : parts[k][c] = sorted[k]
    BY <1>2, <1>7
  <1>9. parts = [k \in 1..n |-> parts[k]]
    BY <1>8
  <1> HIDE DEF parts
  <1>10. \A k \in 1..n : parts[k] \in Seq(T) /\ Len(parts[k]) = J(sorted[k])
    <2> SUFFICES ASSUME NEW k \in 1..n
                 PROVE  parts[k] \in Seq(T) /\ Len(parts[k]) = J(sorted[k])
      OBVIOUS
    <2> DEFINE x == sorted[k]
               m == J(x)
    <2>1. x \in T /\ m \in Nat /\ parts[k] = [c \in 1..m |-> x]
      BY <1>3, <1>8
    <2> HIDE DEF x, m
    <2>2. parts[k] \in Seq(T) /\ Len(parts[k]) = m
      BY <2>1
    <2> QED
      BY <2>2 DEF m, x
  <1>11. parts \in Seq(Seq(T))
    BY <1>3, <1>9, <1>10
  <1> DEFINE all == FlattenSeq(parts)
  <1>12. all \in Seq(T)
    BY <1>11, FlattenSeqType
  <1>13. PICK at : Runs(parts, all, at)
    BY <1>11, FlattenSeqRuns
  <1>14. DOMAIN all = 1..Len(all) /\ Len(all) \in Nat
    BY <1>12, LenProperties
  <1> HIDE DEF all
  <1>15. /\ at \in [DOMAIN all -> 1..n]
         /\ \A j, k \in DOMAIN all : j < k => at[j] <= at[k]
         /\ \A j \in DOMAIN all : \E c \in DOMAIN parts[at[j]] : all[j] = parts[at[j]][c]
         /\ \A i \in 1..n : Len(parts[i]) > 0 => \E j \in DOMAIN all : at[j] = i
         /\ \A j, k \in DOMAIN all : j < k /\ at[j] = at[k] => Len(parts[at[j]]) > 1
    BY <1>8, <1>13 DEF Runs
  <1>16. ASSUME NEW j \in DOMAIN all
         PROVE  /\ at[j] \in 1..n /\ all[j] = sorted[at[j]] /\ all[j] \in S
                /\ J(all[j]) > 0
    <2> DEFINE i == at[j]
    <2>1. i \in 1..n
      BY <1>15
    <2>2. PICK c \in DOMAIN parts[i] : all[j] = parts[i][c]
      BY <1>15
    <2> HIDE DEF i
    <2>3. all[j] = sorted[i] /\ sorted[i] \in S /\ c \in 1..J(sorted[i])
          /\ J(sorted[i]) \in Nat
      BY <1>8, <2>1, <2>2
    <2>4. J(all[j]) > 0
      BY <2>3
    <2> QED
      BY <2>1, <2>3, <2>4 DEF i
  <1>17. ASSUME NEW id \in D, NEW r \in table[id], Joined(table[id], r) > 0
         PROVE  \E k \in DOMAIN all : all[k].feature = id /\ all[k].row = r
    <2>1. PICK x \in S : x.feature = id /\ x.row = r
      BY <1>6
    <2>2. PICK i \in 1..n : sorted[i] = x
      BY <1>2
    <2>3. Len(parts[i]) > 0
      BY <1>10, <1>17, <2>1, <2>2 DEF J
    <2>4. PICK k \in DOMAIN all : at[k] = i
      BY <1>15, <2>3
    <2> QED
      BY <1>16, <2>1, <2>2, <2>4
  <1>18. ASSUME NEW j \in DOMAIN all, NEW k \in DOMAIN all, j < k
         PROVE  /\ all[j] = all[k] \/ RowBefore(all[j], all[k])
                /\ all[j] = all[k] => J(all[j]) > 1
    <2>1. at[j] \in 1..n /\ at[k] \in 1..n /\ at[j] <= at[k]
      BY <1>15, <1>18
    <2>2. all[j] = sorted[at[j]] /\ all[k] = sorted[at[k]] /\ all[j] \in S
      BY <1>16
    <2>3. CASE at[j] = at[k]
      <3>1. Len(parts[at[j]]) > 1
        BY <1>15, <1>18, <2>3
      <3> QED
        BY <1>10, <2>1, <2>2, <2>3, <3>1
    <2>4. CASE at[j] # at[k]
      <3>1. at[j] < at[k]
        BY <1>3, <2>1, <2>4
      <3>2. RowBefore(all[j], all[k])
        BY <1>2, <2>1, <2>2, <3>1
      <3>3. all[j] # all[k]
        BY <1>1, <2>2, <3>2 DEF IsTable
      <3> QED
        BY <3>2, <3>3
    <2> QED
      BY <2>3, <2>4
  <1>19. \A k \in DOMAIN all :
            /\ all[k].feature \in DOMAIN table /\ all[k].row \in table[all[k].feature]
            /\ Joined(table[all[k].feature], all[k].row) > 0
    BY <1>4, <1>16 DEF J
  <1>20. IsAnswer(all, table)
    BY <1>12, <1>17, <1>18, <1>19 DEF IsAnswer, J, T
  <1> QED
    BY <1>5, <1>20 DEF all

-----------------------------------------------------------------------------
(* What is asked for *)

\* The table the rows are read from
TableOK ==
    /\ DOMAIN data \subseteq Ids
    /\ \A id \in DOMAIN data :
          /\ IsFiniteSet(data[id]) /\ data[id] \subseteq Row
          /\ \A q, r \in data[id] : q.date = r.date /\ q.order = r.order => q = r

\* Full dates are compared by all that compares them as they are.
LEMMA PreciseDates ==
    ASSUME TableOK, Precise, query \in Queries, NEW id \in DOMAIN data
    PROVE  /\ query.start \in Int /\ query.end \in Int
           /\ Padded(query.start) = query.start /\ Padded(query.end) = query.end
           /\ \A r \in data[id] :
                 /\ r.date \in Int /\ r.date # NoDate /\ r.order \in Int
                 /\ Padded(r.date) = r.date
                 /\ DateCompare(r.date, query.start) = r.date - query.start
                 /\ DateCompare(r.date, query.end) = r.date - query.end
                 /\ \A q \in data[id] : DateCompare(r.date, q.date) = r.date - q.date
  <1>1. \A d \in Dates : d \in Int /\ d # NoDate
    BY DEF Dates, NoDate
  <1>2. query.start \in Dates /\ query.end \in Dates
    BY Constants DEF Query
  <1>3. \A r \in data[id] : r.date \in Dates /\ r.order \in Int
    BY DEF TableOK, Row
  <1>4. ~IsYear(query.start) /\ ~IsYear(query.end) /\ \A r \in data[id] : ~IsYear(r.date)
    BY DEF Precise
  <1>5. \A d : ~IsYear(d) => Padded(d) = d
    BY DEF Padded
  <1>6. \A d, e \in Dates : ~IsYear(d) /\ ~IsYear(e) => DateCompare(d, e) = d - e
    BY DEF DateCompare
  <1> QED
    BY <1>1, <1>2, <1>3, <1>4, <1>5, <1>6

\* The rows of the range
Within(S) ==
    {r \in S : query.cond \in Ranges => query.start <= r.date /\ r.date <= query.end}

\* A set with more than one element
LEMMA TwoOf ==
    ASSUME NEW S, IsFiniteSet(S), NEW x \in S
    PROVE  /\ Cardinality(S) \in Nat /\ Cardinality(S) > 0
           /\ Cardinality(S) > 1 <=> \E y \in S : y # x
  <1>1. Cardinality(S) \in Nat
    BY FS_CardinalityType
  <1>2. IsFiniteSet({x}) /\ Cardinality({x}) = 1
    BY FS_Singleton
  <1>3. {x} \in SUBSET S
    OBVIOUS
  <1>4. Cardinality({x}) <= Cardinality(S) /\ (Cardinality(S) = Cardinality({x}) => {x} = S)
    BY <1>3, FS_Subset
  <1>5. S = {x} <=> ~\E y \in S : y # x
    OBVIOUS
  <1>6. Cardinality(S) = 1 <=> S = {x}
    BY <1>2, <1>4
  <1> QED
    BY <1>1, <1>2, <1>4, <1>5, <1>6

LEMMA JoinedIs ==
    ASSUME TableOK, Precise, query \in Queries, NEW id \in DOMAIN data, NEW r \in data[id]
    PROVE  /\ Joined(data[id], r) > 0 <=>
                 /\ r \in Within(data[id])
                 /\ query.cond \in Firsts => \A q \in Within(data[id]) : r.date <= q.date
                 /\ query.cond \in Lasts => \A q \in Within(data[id]) : q.date <= r.date
           /\ Joined(data[id], r) > 1 =>
                 /\ query.cond \notin Firsts \cup Lasts
                 /\ \E q \in data[id] \ {r} : q.date = r.date
  <1> DEFINE S == data[id]
             W == Within(S)
             same == {q \in W : q.date = r.date}
  <1>0. IsFiniteSet(S)
    BY DEF TableOK
  <1>1. /\ query.start \in Int /\ query.end \in Int
        /\ Padded(query.start) = query.start /\ Padded(query.end) = query.end
        /\ \A q \in S : q.date \in Int /\ Padded(q.date) = q.date
    BY PreciseDates
  <1>2. Window(S) = W
    BY <1>1 DEF Window, Within
  <1>3. W \subseteq S
    BY DEF Within
  <1>4. same \in SUBSET S /\ r \in S
    BY <1>3
  <1>5. r \in W <=> same # {}
    BY <1>1 DEF Within
  <1>6. {q \in Window(S) : Padded(q.date) = Padded(r.date)} = same
    BY <1>1, <1>2, <1>3
  <1>7. /\ (\A q \in Window(S) : Padded(r.date) <= Padded(q.date)) <=>
               \A q \in W : r.date <= q.date
        /\ (\A q \in Window(S) : Padded(q.date) <= Padded(r.date)) <=>
               \A q \in W : q.date <= r.date
    BY <1>1, <1>2, <1>3
  <1>8. Joined(S, r) =
          IF query.cond \in Firsts
          THEN IF same # {} /\ \A q \in W : r.date <= q.date THEN 1 ELSE 0
          ELSE IF query.cond \in Lasts
          THEN IF same # {} /\ \A q \in W : q.date <= r.date THEN 1 ELSE 0
          ELSE Cardinality(same)
    <2>1. query.cond \in Firsts => query.cond \notin Lasts
      BY DEF Firsts, Lasts
    <2> HIDE DEF same, W
    <2> QED
      BY <1>6, <1>7, <2>1 DEF Joined
  <1>9. IsFiniteSet(same)
    BY <1>0, <1>4, FS_Subset
  <1>10. Cardinality(same) > 0 <=> same # {}
    <2>1. CASE same = {}
      <3>1. Cardinality(same) = 0
        BY <2>1, FS_EmptySet
      <3> QED
        BY <2>1, <3>1
    <2>2. CASE same # {}
      <3>1. PICK x : x \in same
        BY <2>2
      <3> HIDE DEF same
      <3>2. Cardinality(same) > 0
        BY <1>9, <3>1, TwoOf
      <3> QED
        BY <2>2, <3>2
    <2> QED
      BY <2>1, <2>2
  <1>11. ASSUME Cardinality(same) > 1
         PROVE  \E q \in S \ {r} : q.date = r.date
    <2>1. Cardinality(same) > 0
      <3>1. Cardinality(same) \in Nat
        BY <1>9, FS_CardinalityType
      <3> QED
        BY <1>11, <3>1
    <2>2. r \in same
      BY <1>5, <1>10, <2>1 DEF Within
    <2>3. \E q \in same : q # r
      <3> HIDE DEF same
      <3> QED
        BY <1>9, <1>11, <2>2, TwoOf
    <2> QED
      BY <1>4, <2>3
  <1>12. query.cond \in Firsts => query.cond \notin Lasts
    BY DEF Firsts, Lasts
  <1> HIDE DEF same, W, S
  <1>13. Joined(S, r) > 0 <=> /\ r \in W
                              /\ query.cond \in Firsts => \A q \in W : r.date <= q.date
                              /\ query.cond \in Lasts => \A q \in W : q.date <= r.date
    BY <1>5, <1>8, <1>10, <1>12
  <1>14. Joined(S, r) > 1 => /\ query.cond \notin Firsts \cup Lasts
                             /\ \E q \in S \ {r} : q.date = r.date
    BY <1>8, <1>11
  <1> QED
    BY <1>13, <1>14 DEF W, S

\* What BDAttributeCond and CheckConditions let through of a feature is what the
\* query asks for.
LEMMA ChosenIs ==
    ASSUME TableOK, Precise, query \in Queries, NEW id \in DOMAIN data, NEW r \in data[id]
    PROVE  Joined(data[id], r) > 0 /\ CheckConditions(r) <=> r \in Chosen(id)
  <1> DEFINE S == data[id]
             in == {q \in S : InRange(q.date)}
  <1>1. /\ query.start \in Int /\ query.end \in Int
        /\ \A q \in S : /\ q.date \in Int
                        /\ DateCompare(q.date, query.start) = q.date - query.start
                        /\ DateCompare(q.date, query.end) = q.date - query.end
                        /\ \A p \in S : DateCompare(q.date, p.date) = q.date - p.date
    BY PreciseDates
  <1>2. r \in Chosen(id) <=>
            /\ r \in in /\ r.meets
            /\ query.cond \in Firsts => \A q \in in : DateCompare(r.date, q.date) <= 0
            /\ query.cond \in Lasts => \A q \in in : DateCompare(r.date, q.date) >= 0
    BY DEF Chosen
  <1>4. query.cond \in Firsts \cup Lasts => Within(S) = in
    <2> SUFFICES ASSUME query.cond \in Firsts \cup Lasts, NEW q \in S
                 PROVE  q \in Within(S) <=> q \in in
      BY DEF Within
    <2>1. query.cond \notin {"after", "before"}
      BY DEF Firsts, Lasts
    <2>2. query.cond \in Ranges => /\ DateCompare(q.date, query.start) >= 0 <=> query.start <= q.date
                                   /\ DateCompare(q.date, query.end) <= 0 <=> q.date <= query.end
      BY <1>1
    <2> QED
      BY <2>1, <2>2 DEF Within, InRange
  <1>5. \A q \in S : /\ DateCompare(r.date, q.date) <= 0 <=> r.date <= q.date
                     /\ DateCompare(r.date, q.date) >= 0 <=> q.date <= r.date
    BY <1>1
  <1>6. r \in Within(S) /\ CheckConditions(r) <=> r \in in /\ r.meets
    <2>1. query.cond \in Ranges => /\ DateCompare(r.date, query.start) >= 0 <=> query.start <= r.date
                                   /\ DateCompare(r.date, query.end) <= 0 <=> r.date <= query.end
      BY <1>1
    <2> QED
      BY <2>1 DEF Within, InRange, CheckConditions
  <1>7. in \subseteq S
    OBVIOUS
  <1> HIDE DEF in
  <1>8. Joined(S, r) > 0 <=>
            /\ r \in Within(S)
            /\ query.cond \in Firsts => \A q \in Within(S) : r.date <= q.date
            /\ query.cond \in Lasts => \A q \in Within(S) : q.date <= r.date
    BY JoinedIs
  <1>9. CASE query.cond \in Firsts \cup Lasts
    <2>1. /\ (\A q \in in : DateCompare(r.date, q.date) <= 0) <=> \A q \in in : r.date <= q.date
          /\ (\A q \in in : DateCompare(r.date, q.date) >= 0) <=> \A q \in in : q.date <= r.date
      BY <1>5, <1>7
    <2> QED
      BY <1>2, <1>4, <1>6, <1>8, <1>9, <2>1
  <1>10. CASE query.cond \notin Firsts \cup Lasts
    BY <1>2, <1>6, <1>8, <1>10
  <1> QED
    BY <1>9, <1>10

\* The rows asked for of a feature are of one date if only the first or the last
\* are.
LEMMA ChosenDate ==
    ASSUME TableOK, Precise, query \in Queries, query.cond \in Firsts \cup Lasts,
           NEW id \in DOMAIN data, NEW q \in Chosen(id), NEW r \in Chosen(id)
    PROVE  q.date = r.date
  <1>1. q \in data[id] /\ r \in data[id]
    BY DEF Chosen
  <1>2. Joined(data[id], q) > 0 /\ Joined(data[id], r) > 0
    BY <1>1, ChosenIs
  <1>3. q \in Within(data[id]) /\ r \in Within(data[id])
    BY <1>1, <1>2, JoinedIs
  <1>4. q.date <= r.date /\ r.date <= q.date
    BY <1>1, <1>2, <1>3, JoinedIs
  <1>5. q.date \in Int /\ r.date \in Int
    BY <1>1, PreciseDates
  <1> QED
    BY <1>4, <1>5

-----------------------------------------------------------------------------
(* What is kept *)

\* f goes through the places up to n that are in K.
Picks(f, m, n, K) ==
    /\ m \in Nat /\ f \in [1..m -> 1..n]
    /\ \A j, k \in 1..m : j < k => f[j] < f[k]
    /\ \A j \in 1..m : f[j] \in K
    /\ \A k \in 1..n : k \in K => \E j \in 1..m : f[j] = k
    /\ 1..n \subseteq K => m = n /\ \A j \in 1..m : f[j] = j

\* u has the elements of s at the places of f.
Picked(u, s, f, m) == Len(u) = m /\ \A j \in 1..m : u[j] = s[f[j]]

LEMMA PicksNone ==
    ASSUME NEW K
    PROVE  \E f : /\ Picks(f, 0, 0, K)
                  /\ \A s : Picked(<< >>, s, f, 0)
  <1> DEFINE f == [j \in {} |-> 0]
  <1>1. 1..0 = {} /\ Len(<< >>) = 0
    BY EmptySeq
  <1>2. f \in [1..0 -> 1..0]
    BY <1>1
  <1> HIDE DEF f
  <1>3. Picks(f, 0, 0, K)
    BY <1>1, <1>2 DEF Picks
  <1>4. \A s : Picked(<< >>, s, f, 0)
    BY <1>1 DEF Picked
  <1> QED
    BY <1>3, <1>4

LEMMA PicksOver ==
    ASSUME NEW K, NEW k \in Nat, k > 0, k \notin K, NEW f, NEW m, Picks(f, m, k - 1, K)
    PROVE  Picks(f, m, k, K)
  <1>1. /\ m \in Nat /\ f \in [1..m -> 1..k - 1]
        /\ \A j, i \in 1..m : j < i => f[j] < f[i]
        /\ \A j \in 1..m : f[j] \in K
        /\ \A i \in 1..k - 1 : i \in K => \E j \in 1..m : f[j] = i
    BY DEF Picks
  <1>2. f \in [1..m -> 1..k]
    <2>1. 1..k - 1 \subseteq 1..k
      OBVIOUS
    <2> HIDE DEF Picks
    <2> QED
      BY <1>1, <2>1
  <1>3. \A i \in 1..k : i \in K => i \in 1..k - 1
    OBVIOUS
  <1>4. ~(1..k \subseteq K)
    OBVIOUS
  <1> QED
    BY <1>1, <1>2, <1>3, <1>4 DEF Picks

\* g goes on to k after the first m of f.
GoesOn(g, f, m, k) == (\A j \in 1..m : g[j] = f[j]) /\ g[m + 1] = k

LEMMA PicksNext ==
    ASSUME NEW K, NEW k \in Nat, k > 0, k \in K, NEW f, NEW m, Picks(f, m, k - 1, K)
    PROVE  \E g : Picks(g, m + 1, k, K) /\ GoesOn(g, f, m, k)
  <1> DEFINE g == [j \in 1..m + 1 |-> IF j <= m THEN f[j] ELSE k]
  <1>1. /\ m \in Nat /\ f \in [1..m -> 1..k - 1]
        /\ \A j, i \in 1..m : j < i => f[j] < f[i]
        /\ \A j \in 1..m : f[j] \in K
        /\ \A i \in 1..k - 1 : i \in K => \E j \in 1..m : f[j] = i
        /\ 1..k - 1 \subseteq K => m = k - 1 /\ \A j \in 1..m : f[j] = j
    BY DEF Picks
  <1>2. \A j \in 1..m + 1 : g[j] = IF j <= m THEN f[j] ELSE k
    OBVIOUS
  <1>3. DOMAIN g = 1..m + 1 /\ g = [j \in 1..m + 1 |-> g[j]]
    OBVIOUS
  <1> HIDE DEF g
  <1>4. \A j \in 1..m : f[j] \in 1..k - 1
    BY <1>1
  <1>5. \A j \in 1..m + 1 : j <= m <=> j \in 1..m
    BY <1>1
  <1>6. \A j \in 1..m + 1 : ~(j <= m) => j = m + 1
    BY <1>1
  <1>7. \A j \in 1..m : j \in 1..m + 1 /\ g[j] = f[j] /\ g[j] \in 1..k - 1
    BY <1>1, <1>2, <1>4, <1>5
  <1>8. m + 1 \in 1..m + 1 /\ g[m + 1] = k
    BY <1>1, <1>2
  <1>9. g \in [1..m + 1 -> 1..k]
    <2>1. ASSUME NEW j \in 1..m + 1 PROVE g[j] \in 1..k
      <3>1. CASE j <= m
        <4>1. g[j] \in 1..k - 1
          BY <1>5, <1>7, <3>1
        <4> QED
          BY <4>1
      <3>2. CASE ~(j <= m)
        <4>1. g[j] = k
          BY <1>6, <1>8, <3>2
        <4> QED
          BY <4>1
      <3> QED
        BY <3>1, <3>2
    <2> QED
      BY <1>3, <2>1
  <1>10. \A j, i \in 1..m + 1 : j < i => g[j] < g[i]
    <2> SUFFICES ASSUME NEW j \in 1..m + 1, NEW i \in 1..m + 1, j < i
                 PROVE  g[j] < g[i]
      OBVIOUS
    <2>1. j \in 1..m
      BY <1>1
    <2>2. CASE i <= m
      <3>1. i \in 1..m
        BY <1>5, <2>2
      <3> QED
        BY <1>1, <1>7, <2>1, <3>1
    <2>3. CASE ~(i <= m)
      <3>1. g[i] = k /\ g[j] \in 1..k - 1
        BY <1>6, <1>7, <1>8, <2>1, <2>3
      <3> QED
        BY <3>1
    <2> QED
      BY <2>2, <2>3
  <1>11. \A j \in 1..m + 1 : g[j] \in K
    BY <1>1, <1>5, <1>6, <1>7, <1>8
  <1>12. \A i \in 1..k : i \in K => \E j \in 1..m + 1 : g[j] = i
    <2> SUFFICES ASSUME NEW i \in 1..k, i \in K PROVE \E j \in 1..m + 1 : g[j] = i
      OBVIOUS
    <2>1. CASE i = k
      BY <1>8, <2>1
    <2>2. CASE i # k
      <3>1. i \in 1..k - 1
        BY <2>2
      <3> QED
        BY <1>1, <1>7, <3>1
    <2> QED
      BY <2>1, <2>2
  <1>13. ASSUME 1..k \subseteq K
         PROVE  m + 1 = k /\ \A j \in 1..m + 1 : g[j] = j
    <2>1. 1..k - 1 \subseteq K
      BY <1>13
    <2>2. m = k - 1 /\ \A j \in 1..m : f[j] = j
      BY <1>1, <2>1
    <2> QED
      BY <1>1, <1>5, <1>6, <1>7, <1>8, <2>2
  <1>14. Picks(g, m + 1, k, K)
    <2>1. m + 1 \in Nat
      BY <1>1
    <2>2. 1..k \subseteq K => m + 1 = k /\ \A j \in 1..m + 1 : g[j] = j
      BY <1>13
    <2> QED
      BY <1>9, <1>10, <1>11, <1>12, <2>1, <2>2 DEF Picks
  <1> QED
    BY <1>7, <1>8, <1>14 DEF GoesOn

LEMMA PickedNext ==
    ASSUME NEW S, NEW u \in Seq(S), NEW s, NEW f, NEW g, NEW m, Picked(u, s, f, m),
           NEW k, s[k] \in S, m \in Nat, GoesOn(g, f, m, k),
           NEW v, v = Append(u, s[k])
    PROVE  v \in Seq(S) /\ Picked(v, s, g, m + 1)
  <1> DEFINE x == s[k]
  <1>0. v = Append(u, x) /\ (\A j \in 1..m : g[j] = f[j]) /\ g[m + 1] = k
    BY DEF GoesOn
  <1>1. Len(u) = m /\ \A j \in 1..m : u[j] = s[f[j]]
    BY DEF Picked
  <1>2. x \in S /\ x = s[g[m + 1]]
    BY <1>0
  <1> HIDE DEF x
  <1>3. /\ v \in Seq(S) /\ Len(v) = m + 1
        /\ \A j \in 1..m : v[j] = u[j] /\ v[m + 1] = x
    BY <1>0, <1>1, <1>2, AppendProperties
  <1>4. v[m + 1] = x
    BY <1>0, <1>1, <1>2, AppendProperties
  <1>5. ASSUME NEW j \in 1..m + 1
        PROVE  v[j] = s[g[j]]
    <2>1. CASE j = m + 1
      BY <1>2, <1>4, <2>1
    <2>2. CASE j # m + 1
      <3>1. j \in 1..m
        BY <2>2
      <3> QED
        BY <1>0, <1>1, <1>3, <3>1
    <2> QED
      BY <2>1, <2>2
  <1> QED
    BY <1>3, <1>5 DEF Picked

\* The same is kept of two lists of one length.
LEMMA KeptBoth ==
    ASSUME NEW S, NEW s \in Seq(S), NEW T, NEW t \in Seq(T), Len(s) = Len(t), NEW K
    PROVE  \E f, m : /\ Picks(f, m, Len(s), K)
                     /\ Kept(s, K) \in Seq(S) /\ Picked(Kept(s, K), s, f, m)
                     /\ Kept(t, K) \in Seq(T) /\ Picked(Kept(t, K), t, f, m)
  <1> DEFINE n == Len(s)
  <1>0. /\ n \in Nat /\ \A i \in 1..n : s[i] \in S /\ t[i] \in T
    BY LenProperties, ElementOfSeq
  <1>1. PICK d : (\A k \in 0..n : d[k] = KeptStep(s, K, d, k)) /\ Kept(s, K) = d[n]
    BY <1>0, KeptExists
  <1>2. PICK e : (\A k \in 0..n : e[k] = KeptStep(t, K, e, k)) /\ Kept(t, K) = e[n]
    BY <1>0, KeptExists
  <1> HIDE DEF n
  <1> DEFINE Upto(k) == /\ d[k] \in Seq(S) /\ e[k] \in Seq(T)
                        /\ \E f, m : Picks(f, m, k, K) /\ Picked(d[k], s, f, m) /\ Picked(e[k], t, f, m)
             U == {k \in Nat : k \in 0..n => Upto(k)}
  <1>3. ASSUME NEW k \in Nat, \A i \in Nat : i < k => i \in U, k \in 0..n
        PROVE  Upto(k)
    <2>1. CASE k = 0
      <3>1. d[k] = << >> /\ e[k] = << >>
        BY <1>0, <1>1, <1>2, <1>3, <2>1 DEF KeptStep
      <3>2. << >> \in Seq(S) /\ << >> \in Seq(T)
        BY EmptySeq
      <3>3. PICK f : Picks(f, 0, 0, K) /\ \A l : Picked(<< >>, l, f, 0)
        BY PicksNone
      <3> QED
        BY <2>1, <3>1, <3>2, <3>3
    <2>2. CASE k # 0
      <3>1. k - 1 \in Nat /\ k - 1 < k /\ k - 1 \in 0..n /\ k \in 1..n /\ k > 0
        BY <1>0, <1>3, <2>2
      <3>2. Upto(k - 1)
        BY <1>3, <3>1
      <3>3. PICK f, m : Picks(f, m, k - 1, K) /\ Picked(d[k - 1], s, f, m) /\ Picked(e[k - 1], t, f, m)
        BY <3>2
      <3>4. /\ d[k] = IF k \in K THEN Append(d[k - 1], s[k]) ELSE d[k - 1]
            /\ e[k] = IF k \in K THEN Append(e[k - 1], t[k]) ELSE e[k - 1]
        BY <1>1, <1>2, <1>3, <2>2 DEF KeptStep
      <3>5. m \in Nat
        BY <3>3 DEF Picks
      <3>6. CASE k \in K
        <4>1. PICK g : Picks(g, m + 1, k, K) /\ GoesOn(g, f, m, k)
          BY <3>1, <3>3, <3>6, PicksNext
        <4>2. s[k] \in S /\ t[k] \in T /\ d[k - 1] \in Seq(S) /\ e[k - 1] \in Seq(T)
          BY <1>0, <3>1, <3>2
        <4>3. d[k] = Append(d[k - 1], s[k]) /\ e[k] = Append(e[k - 1], t[k])
          BY <3>4, <3>6
        <4> HIDE DEF Upto, U
        <4>4. d[k] \in Seq(S) /\ Picked(d[k], s, g, m + 1)
          BY <3>3, <3>5, <4>1, <4>2, <4>3, PickedNext
        <4>5. e[k] \in Seq(T) /\ Picked(e[k], t, g, m + 1)
          BY <3>3, <3>5, <4>1, <4>2, <4>3, PickedNext
        <4> QED
          BY <4>1, <4>4, <4>5 DEF Upto
      <3>7. CASE k \notin K
        <4>1. Picks(f, m, k, K)
          BY <3>1, <3>3, <3>7, PicksOver
        <4> QED
          BY <3>2, <3>3, <3>4, <3>7, <4>1
      <3> QED
        BY <3>6, <3>7
    <2> QED
      BY <2>1, <2>2
  <1>4. \A k \in Nat : k \in U
    <2>1. \A k \in Nat : (\A i \in Nat : i < k => i \in U) => k \in U
      BY <1>3
    <2> HIDE DEF U
    <2> QED
      BY <2>1, Induct
  <1>5. Upto(n)
    BY <1>0, <1>4
  <1> QED
    BY <1>1, <1>2, <1>5 DEF n

\* What is kept of one
LEMMA KeptIs ==
    ASSUME NEW S, NEW s \in Seq(S), NEW K
    PROVE  \E f, m : /\ Picks(f, m, Len(s), K)
                     /\ Kept(s, K) \in Seq(S) /\ Picked(Kept(s, K), s, f, m)
  BY KeptBoth

LEMMA KeptAll ==
    ASSUME NEW S, NEW s \in Seq(S), NEW K, DOMAIN s \subseteq K
    PROVE  Kept(s, K) = s
  <1>1. DOMAIN s = 1..Len(s) /\ Len(s) \in Nat
    BY LenProperties
  <1>2. PICK f, m : /\ Picks(f, m, Len(s), K)
                     /\ Kept(s, K) \in Seq(S) /\ Picked(Kept(s, K), s, f, m)
    BY KeptIs
  <1>3. m = Len(s) /\ \A j \in 1..m : f[j] = j
    BY <1>1, <1>2 DEF Picks
  <1>4. Len(Kept(s, K)) = Len(s) /\ \A j \in 1..Len(s) : Kept(s, K)[j] = s[j]
    BY <1>2, <1>3 DEF Picked
  <1> QED
    BY <1>2, <1>4, SeqEqual

-----------------------------------------------------------------------------
(* What a row does to the list *)

\* The results of an active feature are beside each other, so all are found.
LEMMA MatchesIs ==
    ASSUME NEW s \in Seq(Result), Sorted(s), NEW id \in Int,
           \E j \in DOMAIN s : s[j].active = id
    PROVE  Matches(s, id) = {j \in DOMAIN s : s[j].active = id}
  <1> DEFINE k == FindSorted(s, id)
  <1>1. /\ Len(s) \in Nat /\ DOMAIN s = 1..Len(s)
        /\ \A j \in DOMAIN s : s[j].active \in Int
    BY ResultList DEF IsList
  <1>2. k \in DOMAIN s /\ s[k].active = id
    BY <1>1, FindSortedIs
  <1>3. Matches(s, id) = {j \in DOMAIN s : \E i \in From(s, j) : i = k} \cup From(s, k)
    BY <1>1, <1>2 DEF Matches
  <1> HIDE DEF k
  <1>4. k \in 1..Len(s) /\ k \in Int
    BY <1>1, <1>2
  <1>5. \A i, j \in DOMAIN s : i <= j => s[i].active <= s[j].active
    <2> SUFFICES ASSUME NEW i \in DOMAIN s, NEW j \in DOMAIN s, i <= j
                 PROVE  s[i].active <= s[j].active
      OBVIOUS
    <2>1. CASE i = j
      BY <1>1, <2>1
    <2>2. CASE i # j
      <3>1. i < j
        BY <1>1, <2>2
      <3> QED
        BY <3>1 DEF Sorted
    <2> QED
      BY <2>1, <2>2
  <1>6. ASSUME NEW a \in DOMAIN s, NEW b \in DOMAIN s, a <= b, s[a].active = s[b].active
        PROVE  b \in From(s, a)
    <2>1. \A i \in a..b : i \in DOMAIN s /\ a <= i /\ i <= b
      BY <1>1
    <2>2. \A i \in a..b : s[i].active = s[a].active
      BY <1>1, <1>5, <1>6, <2>1
    <2> QED
      BY <1>6, <2>2 DEF From
  <1>7. ASSUME NEW j \in DOMAIN s, s[j].active = id
        PROVE  j \in Matches(s, id)
    <2>1. CASE j <= k
      <3>1. k \in From(s, j)
        BY <1>2, <1>6, <1>7, <2>1
      <3> QED
        BY <1>3, <3>1
    <2>2. CASE ~(j <= k)
      <3>1. k <= j
        BY <1>1, <1>2, <2>2
      <3>2. j \in From(s, k)
        BY <1>2, <1>6, <1>7, <3>1
      <3> QED
        BY <1>3, <3>2
    <2> QED
      BY <2>1, <2>2
  <1>8. ASSUME NEW j \in Matches(s, id)
        PROVE  j \in DOMAIN s /\ s[j].active = id
    <2>1. CASE j \in From(s, k)
      <3>1. j \in DOMAIN s /\ k <= j /\ \A i \in k..j : s[i].active = s[k].active
        BY <2>1 DEF From
      <3>2. j \in k..j
        BY <1>1, <1>4, <3>1
      <3> QED
        BY <1>2, <3>1, <3>2
    <2>2. CASE j \in DOMAIN s /\ \E i \in From(s, j) : i = k
      <3>1. j <= k /\ \A i \in j..k : s[i].active = s[j].active
        BY <2>2 DEF From
      <3>2. k \in j..k
        BY <1>1, <1>4, <2>2, <3>1
      <3>3. s[k].active = s[j].active
        BY <3>1, <3>2
      <3> QED
        BY <1>2, <2>2, <3>3
    <2> QED
      BY <1>3, <2>1, <2>2
  <1> QED
    BY <1>7, <1>8

\* x is r with the row for the level l, and nothing else changed.
Replaced(x, r, row, l) ==
    /\ x.active = r.active /\ x.met = TRUE /\ x.date = row.date
    /\ x.data = [r.data EXCEPT ![l] = row] /\ x.data[l] = row
    /\ \A i \in Levels : i # l => x.data[i] = r.data[i]

\* x is a copy of r with the row for the level l, and nothing else.
Copied(x, r, row, l) ==
    /\ x.active = r.active /\ x.met = r.met /\ x.date = row.date
    /\ x.data[l] = row
    /\ \A i \in Levels : i # l => x.data[i] = NoRow

LEMMA ReplaceData ==
    ASSUME NEW r \in Result, level \in Levels, NEW row \in Row, NEW x, x = Replace(r, row)
    PROVE  x \in Result /\ Replaced(x, r, row, level)
  <1>1. x \in Result /\ x.active = r.active
    BY ReplaceIs
  <1>2. r.data \in [Levels -> Row \cup {NoRow}]
    BY ResultFields
  <1>3. /\ x.met = TRUE /\ x.date = row.date
        /\ x.data = [r.data EXCEPT ![level] = row]
    BY DEF Result, Replace
  <1> QED
    BY <1>1, <1>2, <1>3 DEF Replaced

LEMMA CopyData ==
    ASSUME NEW r \in Result, level \in Levels, NEW row \in Row, NEW x, x = Copy(r, row)
    PROVE  x \in Result /\ Copied(x, r, row, level)
  <1>1. x \in Result /\ x.active = r.active
    BY CopyIs
  <1>2. /\ x.met = r.met /\ x.date = row.date
        /\ x.data = [l \in Levels |-> IF l = level THEN row ELSE NoRow]
    BY DEF Result, Copy
  <1> QED
    BY <1>1, <1>2 DEF Copied

\* u is s, in which those of K took the row; c is the place of a copy, if there
\* is one, and o says where each was.
Put(s, u, K, c, o, row) ==
    /\ o \in [DOMAIN u -> DOMAIN s]
    /\ \A j \in DOMAIN u : j # c =>
          u[j] = IF o[j] \in K THEN Replace(s[o[j]], row) ELSE s[o[j]]
    /\ \A j, k \in DOMAIN u : j # c /\ k # c /\ o[j] = o[k] => j = k
    /\ \A k \in DOMAIN s : \E j \in DOMAIN u : j # c /\ o[j] = k
    /\ c \in DOMAIN u => o[c] \notin K /\ u[c] = Copy(s[o[c]], row)
    /\ c \notin DOMAIN u => DOMAIN u = DOMAIN s /\ \A j \in DOMAIN u : o[j] = j

\* t is s after those of K took the row.
Took(t, s, K, row) ==
    \A j \in DOMAIN s : t[j] = IF j \in K THEN Replace(s[j], row) ELSE s[j]

LEMMA PutAll ==
    ASSUME NEW s \in Seq(Result), NEW K, NEW row, NEW u, DOMAIN u = DOMAIN s,
           Took(u, s, K, row)
    PROVE  \E o : Put(s, u, K, 0, o, row)
  <1> DEFINE o == [j \in DOMAIN s |-> j]
  <1>1. o \in [DOMAIN u -> DOMAIN s] /\ \A j \in DOMAIN s : o[j] = j
    OBVIOUS
  <1> HIDE DEF o
  <1>2. 0 \notin DOMAIN s
    BY ResultList
  <1>3. Put(s, u, K, 0, o, row)
    BY <1>1, <1>2 DEF Put, Took
  <1> QED
    BY <1>3

\* u is t with e behind its place m.
Behind(u, t, m, e) ==
    /\ u \in Seq(Result) /\ Len(u) = Len(t) + 1
    /\ \A j \in 1..Len(t) + 1 : u[j] = IF j < m + 1 THEN t[j]
                                       ELSE IF j = m + 1 THEN e ELSE t[j - 1]

LEMMA InsertBehind ==
    ASSUME NEW t \in Seq(Result), NEW m \in DOMAIN t, NEW e \in Result,
           NEW u, u = InsertAt(t, m + 1, e)
    PROVE  Behind(u, t, m, e)
  <1>1. Len(t) \in Nat /\ DOMAIN t = 1..Len(t)
    BY ResultList
  <1>2. m + 1 \in 1..Len(t) + 1 /\ m \in Int
    BY <1>1
  <1>3. Inserted(u, t, m + 1, e, Result)
    BY <1>2, InsertAtIs
  <1> QED
    BY <1>3 DEF Behind, Inserted

PutBehind(s, u, K, m, o, row) ==
    m + 1 \in DOMAIN u /\ Put(s, u, K, m + 1, o, row) /\ o[m + 1] = m

LEMMA PutCopy ==
    ASSUME NEW s \in Seq(Result), NEW K, NEW row,
           NEW t \in Seq(Result), Len(t) = Len(s), Took(t, s, K, row),
           NEW m \in DOMAIN t, m \notin K,
           NEW e, e = Copy(s[m], row), NEW u, Behind(u, t, m, e)
    PROVE  \E o : PutBehind(s, u, K, m, o, row)
  <1> DEFINE n == Len(s)
             o == [j \in 1..n + 1 |-> IF j <= m THEN j ELSE j - 1]
  <1>1. n \in Nat /\ DOMAIN s = 1..n /\ DOMAIN t = 1..n
    BY ResultList
  <1>5. m \in Nat /\ 1 <= m /\ m <= n
    BY <1>1
  <1>7. \A j \in 1..n + 1 : o[j] = IF j <= m THEN j ELSE j - 1
    OBVIOUS
  <1>7a. DOMAIN o = 1..n + 1 /\ o = [j \in 1..n + 1 |-> o[j]]
    OBVIOUS
  <1> HIDE DEF o
  <1>9. /\ u \in Seq(Result) /\ Len(u) = n + 1
        /\ \A j \in 1..n + 1 : u[j] = IF j < m + 1 THEN t[j]
                                      ELSE IF j = m + 1 THEN e ELSE t[j - 1]
    BY DEF Behind
  <1> HIDE DEF n
  <1>8. m + 1 \in 1..n + 1
    BY <1>1, <1>5
  <1>10. DOMAIN u = 1..n + 1
    BY <1>9, ResultList
  <1>11. \A j \in 1..n + 1 : o[j] \in 1..n
    BY <1>1, <1>5, <1>7
  <1>12. o \in [DOMAIN u -> DOMAIN s]
    BY <1>1, <1>7a, <1>10, <1>11
  <1>13. \A j \in 1..n + 1 : j # m + 1 => u[j] = t[o[j]]
    BY <1>1, <1>5, <1>7, <1>9
  <1>14. \A j, k \in 1..n + 1 : j # m + 1 /\ k # m + 1 /\ o[j] = o[k] => j = k
    BY <1>1, <1>5, <1>7
  <1>15. \A k \in 1..n : \E j \in 1..n + 1 : j # m + 1 /\ o[j] = k
    <2> SUFFICES ASSUME NEW k \in 1..n
                 PROVE  \E j \in 1..n + 1 : j # m + 1 /\ o[j] = k
      OBVIOUS
    <2>1. CASE k <= m
      <3>1. k \in 1..n + 1 /\ k # m + 1
        BY <1>1, <1>5, <2>1
      <3> QED
        BY <1>7, <2>1, <3>1
    <2>2. CASE ~(k <= m)
      <3>1. k + 1 \in 1..n + 1 /\ k + 1 # m + 1 /\ ~(k + 1 <= m) /\ (k + 1) - 1 = k
        BY <1>1, <1>5, <2>2
      <3> QED
        BY <1>7, <3>1
    <2> QED
      BY <2>1, <2>2
  <1>16. o[m + 1] = m /\ u[m + 1] = e
    BY <1>5, <1>7, <1>8, <1>9
  <1>17. Put(s, u, K, m + 1, o, row)
    <2>1. \A j \in DOMAIN u : j # m + 1 =>
             u[j] = IF o[j] \in K THEN Replace(s[o[j]], row) ELSE s[o[j]]
      BY <1>1, <1>10, <1>11, <1>13 DEF Took
    <2>2. o[m + 1] \notin K /\ u[m + 1] = Copy(s[o[m + 1]], row)
      BY <1>16
    <2> QED
      BY <1>1, <1>8, <1>10, <1>12, <1>14, <1>15, <2>1, <2>2 DEF Put
  <1> QED
    BY <1>8, <1>10, <1>16, <1>17 DEF PutBehind

-----------------------------------------------------------------------------
(* What the list holds while rows are read. T has the rows of each feature   *)
(* that were read so far and met the conditions.                             *)

\* Nothing is held for the levels from l on.
CleanFrom(s, l) == \A j \in DOMAIN s : \A i \in Levels : i >= l => s[j].data[i] = NoRow

\* A feature of which no row met the conditions has blank results; the results
\* of the others each hold one of these rows, and its date.
Filled(s, l, T) ==
    /\ \A j \in DOMAIN s :
          /\ s[j].active \in DOMAIN T
          /\ T[s[j].active] = {} =>
                s[j].date = NoDate /\ s[j].met = FALSE /\ s[j].data[l] = NoRow
          /\ T[s[j].active] # {} =>
                /\ s[j].met = TRUE /\ s[j].data[l] \in T[s[j].active]
                /\ s[j].date = s[j].data[l].date
    /\ \A id \in DOMAIN T : \E j \in DOMAIN s : s[j].active = id

LEMMA MetAlready ==
    ASSUME NEW r \in Result, r.met = TRUE
    PROVE  [r EXCEPT !.met = TRUE] = r
  BY DEF Result

\* A row is put into the results of its feature.
LEMMA GetNextPuts ==
    ASSUME TypeOK, GetNext, NEW f, f = Head(rows).feature,
           NEW row, row = Head(rows).row,
           NEW T, f \in DOMAIN T, Filled(results, level, T)
    PROVE  /\ row \in Row /\ f \in Int /\ rows' = Tail(rows)
           /\ ~CheckConditions(row) => results' = results
           /\ CheckConditions(row) => \E K, c, o :
                 /\ Put(results, results', K, c, o, row)
                 /\ \A k \in K : k \in DOMAIN results /\ results[k].active = f
                                 /\ Status(row.date, results[k]) = "replace"
                 /\ c \in DOMAIN results' =>
                       /\ o[c] \in DOMAIN results /\ results[o[c]].active = f
                       /\ Status(row.date, results[o[c]]) = "new"
                 /\ c \notin DOMAIN results' =>
                       \A k \in DOMAIN results : results[k].active = f =>
                          /\ Status(row.date, results[k]) # "new"
                          /\ Status(row.date, results[k]) = "replace" => k \in K
  <1> DEFINE all == Matches(results, Head(rows).feature)
             new == {j \in all : Status(row.date, results[j]) = "new"}
             at == IF new = {} THEN all ELSE {j \in all : j <= Min(new)}
             took == [j \in DOMAIN results |->
                       IF j \notin at THEN results[j]
                       ELSE IF Status(row.date, results[j]) = "replace"
                       THEN Replace(results[j], row)
                       ELSE [results[j] EXCEPT !.met = TRUE]]
             K == {j \in at : Status(row.date, results[j]) = "replace"}
  <1>1. /\ results \in Seq(Result) /\ level \in Levels /\ Sorted(results)
        /\ rows \in Seq([feature : Ids, row : Row]) /\ rows # << >>
    BY DEF TypeOK, GetNext
  <1>2. rows' = Tail(rows)
    BY DEF GetNext
  <1>3. row \in Row /\ f \in Ids
    <2>1. Head(rows) \in [feature : Ids, row : Row]
      BY <1>1, HeadTailProperties
    <2> QED
      BY <2>1
  <1>4. f \in Int
    BY <1>3, Constants
  <1>5. Len(results) \in Nat /\ DOMAIN results = 1..Len(results)
        /\ \A j \in DOMAIN results : results[j] \in Result
    BY <1>1, ResultList
  <1>6. all = {j \in DOMAIN results : results[j].active = f}
    <2>1. \E j \in DOMAIN results : results[j].active = f
      BY DEF Filled
    <2> QED
      BY <1>1, <1>4, <2>1, MatchesIs
  <1>7. IF at = {} \/ ~CheckConditions(row)
        THEN results' = results
        ELSE results' = IF new = {} THEN took
                        ELSE InsertAt(took, Min(new) + 1, Copy(took[Min(new)], row))
    BY DEF GetNext
  <1>8. new # {} => /\ Min(new) \in new /\ Min(new) \in DOMAIN results
                    /\ \A j \in new : Min(new) <= j
    <2>1. new \in SUBSET (0..Len(results))
      BY <1>5, <1>6
    <2> HIDE DEF new
    <2>2. new # {} => Min(new) \in new /\ \A j \in new : Min(new) <= j
      BY <1>5, <2>1, MinIs
    <2> USE DEF new
    <2> QED
      BY <1>6, <2>2
  <1>9. at # {} /\ at \subseteq all
    <2>1. all # {}
      BY <1>6 DEF Filled
    <2>2. CASE new = {}
      BY <2>1, <2>2
    <2>3. CASE new # {}
      <3>1. Min(new) \in all /\ Min(new) \in Int
        BY <1>5, <1>8, <2>3
      <3> HIDE DEF new, all
      <3> QED
        BY <2>3, <3>1
    <2> QED
      BY <2>2, <2>3
  <1>10. \A j \in DOMAIN results : results[j].date = NoDate => Status(row.date, results[j]) = "replace"
    BY DEF Status
  <1>11. ASSUME NEW j \in DOMAIN results, results[j].active = f,
                Status(row.date, results[j]) # "replace"
         PROVE  [results[j] EXCEPT !.met = TRUE] = results[j]
    <2>1. results[j].met = TRUE
      BY <1>10, <1>11 DEF Filled
    <2> QED
      BY <1>5, <2>1, MetAlready
  <1>12. DOMAIN took = DOMAIN results /\ took = [j \in DOMAIN took |-> took[j]]
    OBVIOUS
  <1>13. \A j \in DOMAIN results :
            took[j] = IF j \in K THEN Replace(results[j], row) ELSE results[j]
    BY <1>6, <1>9, <1>11
  <1>13a. Took(took, results, K, row)
    BY <1>13 DEF Took
  <1>14. \A k \in K : k \in DOMAIN results /\ results[k].active = f
                      /\ Status(row.date, results[k]) = "replace"
    BY <1>6, <1>9
  <1>15. took \in Seq(Result) /\ Len(took) = Len(results)
    <2>1. \A j \in DOMAIN results : took[j] \in Result
      <3> SUFFICES ASSUME NEW j \in DOMAIN results PROVE took[j] \in Result
        OBVIOUS
      <3>1. results[j] \in Result /\ Replace(results[j], row) \in Result
        BY <1>1, <1>3, <1>5, ReplaceData
      <3> QED
        BY <1>13, <3>1
    <2> HIDE DEF took
    <2> QED
      BY <1>1, <1>12, <2>1, MapList
  <1>16. ASSUME CheckConditions(row)
         PROVE  \E c, o :
                 /\ Put(results, results', K, c, o, row)
                 /\ c \in DOMAIN results' =>
                       /\ o[c] \in DOMAIN results /\ results[o[c]].active = f
                       /\ Status(row.date, results[o[c]]) = "new"
                 /\ c \notin DOMAIN results' =>
                       \A k \in DOMAIN results : results[k].active = f =>
                          /\ Status(row.date, results[k]) # "new"
                          /\ Status(row.date, results[k]) = "replace" => k \in K
    <2>1. CASE new = {}
      <3>1. results' = took
        BY <1>7, <1>9, <1>16, <2>1
      <3>2. \A k \in DOMAIN results : results[k].active = f =>
                          /\ Status(row.date, results[k]) # "new"
                          /\ Status(row.date, results[k]) = "replace" => k \in K
        BY <1>6, <2>1
      <3> HIDE DEF took, K
      <3>3. PICK o : Put(results, took, K, 0, o, row)
        BY <1>1, <1>12, <1>13a, PutAll
      <3>4. 0 \notin DOMAIN results'
        BY <1>5, <1>12, <3>1
      <3> QED
        BY <3>1, <3>2, <3>3, <3>4
    <2>2. CASE new # {}
      <3> DEFINE m == Min(new)
      <3>1. m \in DOMAIN took /\ m \in new /\ results[m].active = f
            /\ Status(row.date, results[m]) = "new"
        BY <1>6, <1>8, <1>12, <2>2
      <3>2. results' = InsertAt(took, m + 1, Copy(took[m], row))
        BY <1>7, <1>9, <1>16, <2>2
      <3>3. m \notin K
        BY <3>1
      <3>4. took[m] = results[m]
        BY <1>12, <1>13, <3>1, <3>3
      <3> HIDE DEF took, K, m, new, at, all
      <3>5. Copy(results[m], row) \in Result
        BY <1>1, <1>3, <1>5, <1>12, <3>1, CopyData
      <3> DEFINE e == Copy(results[m], row)
                 u == results'
      <3>6. u = InsertAt(took, m + 1, e) /\ e \in Result /\ e = Copy(results[m], row)
        BY <3>2, <3>4, <3>5
      <3> HIDE DEF e, u
      <3>7. Behind(u, took, m, e)
        BY <1>15, <3>1, <3>6, InsertBehind
      <3>8. \E o : PutBehind(results, u, K, m, o, row)
        BY <1>1, <1>13a, <1>15, <3>1, <3>3, <3>6, <3>7, PutCopy
      <3> QED
        BY <1>12, <3>1, <3>8 DEF u, PutBehind
    <2> QED
      BY <2>1, <2>2
  <1> HIDE DEF K
  <1> QED
    BY <1>2, <1>3, <1>4, <1>7, <1>14, <1>16

\* The rows of one feature more
Adds(U, T, f, row) ==
    /\ DOMAIN U = DOMAIN T /\ f \in DOMAIN T
    /\ U[f] = T[f] \cup {row}
    /\ \A id \in DOMAIN T : id # f => U[id] = T[id]

\* On the query's own type every row has its result, and two results of a
\* feature hold two rows, unless another row has the same date.
OwnShown(s, l, T, D) ==
    /\ \A id \in DOMAIN T : \A r \in T[id] :
          \E j \in DOMAIN s : s[j].active = id /\ s[j].data[l] = r
    /\ \A j, k \in DOMAIN s : j # k /\ s[j].active = s[k].active =>
          /\ T[s[j].active] # {}
          /\ s[j].data[l] = s[k].data[l] =>
                \E q \in D[s[j].active] \ {s[j].data[l]} : q.date = s[j].data[l].date

\* The results are those of t, but for what they hold for l, which is the last
\* row if last is asked for.
Single(s, t, l, last, T) ==
    /\ DOMAIN s = DOMAIN t
    /\ \A j \in DOMAIN s :
          /\ s[j].active = t[j].active
          /\ s[j].data = [t[j].data EXCEPT ![l] = s[j].data[l]]
          /\ last /\ T[s[j].active] # {} => IsLast(s[j].data[l], T[s[j].active])

\* Every result of t is there, with all it held for the levels before l.
Children(s, t, l) ==
    \A k \in DOMAIN t : \E j \in DOMAIN s :
        s[j].active = t[k].active /\ \A i \in 1..l - 1 : s[j].data[i] = t[k].data[i]

\* What becomes of each result when a row is put into the list
Become(s, u, K, c, o, row, l) ==
    /\ \A j \in DOMAIN u :
          /\ o[j] \in DOMAIN s /\ u[j].active = s[o[j]].active
          /\ IF j = c THEN o[j] \notin K /\ Copied(u[j], s[o[j]], row, l)
             ELSE IF o[j] \in K THEN Replaced(u[j], s[o[j]], row, l)
             ELSE u[j] = s[o[j]]
    /\ \A j, k \in DOMAIN u : j # c /\ k # c /\ o[j] = o[k] => j = k
    /\ \A k \in DOMAIN s : \E j \in DOMAIN u : j # c /\ o[j] = k
    /\ c \notin DOMAIN u => DOMAIN u = DOMAIN s /\ \A j \in DOMAIN u : o[j] = j

LEMMA PutIs ==
    ASSUME NEW s \in Seq(Result), level \in Levels, NEW row \in Row,
           NEW u, NEW K, NEW c, NEW o, Put(s, u, K, c, o, row)
    PROVE  Become(s, u, K, c, o, row, level)
  <1>1. ASSUME NEW j \in DOMAIN u
        PROVE  /\ o[j] \in DOMAIN s /\ u[j].active = s[o[j]].active
               /\ IF j = c THEN o[j] \notin K /\ Copied(u[j], s[o[j]], row, level)
                  ELSE IF o[j] \in K THEN Replaced(u[j], s[o[j]], row, level)
                  ELSE u[j] = s[o[j]]
    <2> DEFINE r == s[o[j]]
               x == u[j]
    <2>1. o[j] \in DOMAIN s /\ r \in Result
      BY ResultList DEF Put
    <2>2. \/ j # c /\ o[j] \notin K /\ x = r
          \/ j # c /\ o[j] \in K /\ x = Replace(r, row)
          \/ j = c /\ o[j] \notin K /\ x = Copy(r, row)
      BY DEF Put
    <2> HIDE DEF r, x
    <2>3. CASE j # c /\ o[j] \notin K /\ x = r
      BY <2>1, <2>3 DEF r, x
    <2>4. CASE j # c /\ o[j] \in K /\ x = Replace(r, row)
      <3>1. Replaced(x, r, row, level)
        BY <2>1, <2>4, ReplaceData
      <3>2. x.active = r.active
        BY <3>1 DEF Replaced
      <3> QED
        BY <2>1, <2>4, <3>1, <3>2 DEF r, x
    <2>5. CASE j = c /\ o[j] \notin K /\ x = Copy(r, row)
      <3>1. Copied(x, r, row, level)
        BY <2>1, <2>5, CopyData
      <3>2. x.active = r.active
        BY <3>1 DEF Copied
      <3> QED
        BY <2>1, <2>5, <3>1, <3>2 DEF r, x
    <2> QED
      BY <2>2, <2>3, <2>4, <2>5
  <1> QED
    BY <1>1 DEF Put, Become

LEMMA CleanPut ==
    ASSUME NEW l \in Levels, NEW row, NEW s, NEW u, NEW K, NEW c, NEW o,
           Become(s, u, K, c, o, row, l), CleanFrom(s, l + 1)
    PROVE  CleanFrom(u, l + 1)
  <1> SUFFICES ASSUME NEW j \in DOMAIN u, NEW i \in Levels, i >= l + 1
               PROVE  u[j].data[i] = NoRow
    BY DEF CleanFrom
  <1>1. i # l
    BY Constants
  <1>2. o[j] \in DOMAIN s /\ (u[j] = s[o[j]] \/ u[j].data[i] = s[o[j]].data[i] \/ u[j].data[i] = NoRow)
    BY <1>1 DEF Become, Replaced, Copied
  <1>3. s[o[j]].data[i] = NoRow
    BY <1>2 DEF CleanFrom
  <1> QED
    BY <1>2, <1>3

LEMMA ChildrenPut ==
    ASSUME NEW l \in Levels, NEW row, NEW s, NEW u, NEW K, NEW c, NEW o,
           Become(s, u, K, c, o, row, l),
           NEW t, Children(s, t, l)
    PROVE  Children(u, t, l)
  <1> SUFFICES ASSUME NEW k \in DOMAIN t
               PROVE  \E j \in DOMAIN u : /\ u[j].active = t[k].active
                                          /\ \A i \in 1..l - 1 : u[j].data[i] = t[k].data[i]
    BY DEF Children
  <1>1. PICK m \in DOMAIN s : /\ s[m].active = t[k].active
                              /\ \A i \in 1..l - 1 : s[m].data[i] = t[k].data[i]
    BY DEF Children
  <1>2. PICK j \in DOMAIN u : j # c /\ o[j] = m
    BY DEF Become
  <1>3. \A i \in 1..l - 1 : i \in Levels /\ i # l
    BY Constants
  <1>4. /\ u[j].active = s[m].active
        /\ u[j] = s[m] \/ \A i \in Levels : i # l => u[j].data[i] = s[m].data[i]
    BY <1>2 DEF Become, Replaced, Copied
  <1>5. \A i \in 1..l - 1 : u[j].data[i] = s[m].data[i]
    BY <1>3, <1>4
  <1> QED
    BY <1>1, <1>4, <1>5

LEMMA FilledPut ==
    ASSUME NEW l \in Levels, NEW row, NEW s, NEW u, NEW K, NEW c, NEW o,
           Become(s, u, K, c, o, row, l),
           NEW T, NEW U, NEW f, Adds(U, T, f, row), Filled(s, l, T),
           \A k \in K : s[k].active = f,
           c \in DOMAIN u => s[o[c]].active = f /\ T[f] # {},
           T[f] = {} => \A k \in DOMAIN s : s[k].active = f => k \in K
    PROVE  Filled(u, l, U)
  <1>1. ASSUME NEW j \in DOMAIN u
        PROVE  /\ u[j].active \in DOMAIN U
               /\ U[u[j].active] = {} =>
                     u[j].date = NoDate /\ u[j].met = FALSE /\ u[j].data[l] = NoRow
               /\ U[u[j].active] # {} =>
                     /\ u[j].met = TRUE /\ u[j].data[l] \in U[u[j].active]
                     /\ u[j].date = u[j].data[l].date
    <2> DEFINE k == o[j]
    <2>1. k \in DOMAIN s /\ u[j].active = s[k].active
      BY DEF Become, Replaced, Copied
    <2>2. s[k].active \in DOMAIN T /\ DOMAIN U = DOMAIN T
      BY <2>1 DEF Filled, Adds
    <2>3. CASE j # c /\ k \notin K /\ u[j] = s[k] /\ s[k].active # f
      <3>1. U[s[k].active] = T[s[k].active]
        BY <2>2, <2>3 DEF Adds
      <3> QED
        BY <2>1, <2>2, <2>3, <3>1 DEF Filled
    <2>4. CASE j # c /\ k \notin K /\ u[j] = s[k] /\ s[k].active = f
      <3>1. T[f] # {} /\ T[f] \subseteq U[f] /\ U[f] # {}
        BY <2>1, <2>4 DEF Adds
      <3>2. /\ s[k].met = TRUE /\ s[k].data[l] \in T[f]
            /\ s[k].date = s[k].data[l].date
        BY <2>1, <2>4, <3>1 DEF Filled
      <3> QED
        BY <2>1, <2>2, <2>4, <3>1, <3>2
    <2>5. CASE /\ u[j].met = TRUE /\ u[j].date = row.date /\ u[j].data[l] = row
               /\ s[k].active = f
      <3>1. row \in U[f]
        BY DEF Adds
      <3> QED
        BY <2>1, <2>2, <2>5, <3>1
    <2>6. CASE j = c
      <3>1. s[k].active = f /\ T[f] # {}
        BY <2>6
      <3>2. s[k].met = TRUE
        BY <2>1, <3>1 DEF Filled
      <3>3. u[j].met = s[k].met /\ u[j].date = row.date /\ u[j].data[l] = row
        BY <2>6 DEF Become, Replaced, Copied
      <3> QED
        BY <2>5, <3>1, <3>2, <3>3
    <2>7. CASE j # c /\ k \in K
      <3>1. u[j].met = TRUE /\ u[j].date = row.date /\ u[j].data[l] = row
        BY <2>7 DEF Become, Replaced, Copied
      <3> QED
        BY <2>5, <2>7, <3>1
    <2>8. \/ j # c /\ k \notin K /\ u[j] = s[k]
          \/ j = c
          \/ j # c /\ k \in K
      BY DEF Become, Replaced, Copied
    <2> QED
      BY <2>3, <2>4, <2>6, <2>7, <2>8
  <1>2. ASSUME NEW id \in DOMAIN U
        PROVE  \E j \in DOMAIN u : u[j].active = id
    <2>1. id \in DOMAIN T
      BY DEF Adds
    <2>2. PICK k \in DOMAIN s : s[k].active = id
      BY <2>1 DEF Filled
    <2>3. PICK j \in DOMAIN u : j # c /\ o[j] = k
      BY DEF Become
    <2>4. u[j].active = s[k].active
      BY <2>3 DEF Become, Replaced, Copied
    <2> QED
      BY <2>2, <2>4
  <1> QED
    BY <1>1, <1>2 DEF Filled

LEMMA OwnShownPut ==
    ASSUME NEW l \in Levels, NEW row, NEW s, NEW u, NEW K, NEW c, NEW o,
           Become(s, u, K, c, o, row, l),
           NEW T, NEW U, NEW f, Adds(U, T, f, row), Filled(s, l, T),
           NEW D, OwnShown(s, l, T, D),
           \A k \in K : s[k].active = f,
           T[f] = {} => /\ c \notin DOMAIN u
                        /\ \A k \in DOMAIN s : s[k].active = f => k \in K,
           T[f] # {} => c \in DOMAIN u /\ s[o[c]].active = f /\ K = {},
           row \in T[f] => \E q \in D[f] \ {row} : q.date = row.date
    PROVE  OwnShown(u, l, U, D)
  <1>0. DOMAIN U = DOMAIN T /\ f \in DOMAIN T /\ U[f] = T[f] \cup {row}
        /\ \A id \in DOMAIN T : id # f => U[id] = T[id]
    BY DEF Adds
  <1>e. \A j \in DOMAIN u : /\ o[j] \in DOMAIN s /\ u[j].active = s[o[j]].active
                            /\ j # c /\ o[j] \notin K => u[j] = s[o[j]]
                            /\ j = c \/ o[j] \in K => u[j].data[l] = row
    BY DEF Become, Replaced, Copied
  <1>c. c \in DOMAIN u => s[o[c]].active = f /\ T[f] # {}
    OBVIOUS
  <1>1. ASSUME NEW id \in DOMAIN U, NEW r \in U[id]
        PROVE  \E j \in DOMAIN u : u[j].active = id /\ u[j].data[l] = r
    <2>1. CASE r \in T[id] /\ (id # f \/ T[f] # {})
      <3>1. PICK k \in DOMAIN s : s[k].active = id /\ s[k].data[l] = r
        BY <1>0, <2>1 DEF OwnShown
      <3>2. PICK j \in DOMAIN u : j # c /\ o[j] = k
        BY DEF Become
      <3>3. k \notin K
        BY <2>1, <3>1
      <3> QED
        BY <1>e, <3>1, <3>2, <3>3
    <2>2. CASE id = f /\ r = row
      <3>1. CASE T[f] # {}
        <4>1. c \in DOMAIN u /\ u[c].active = f /\ u[c].data[l] = row
          BY <1>e, <3>1
        <4> QED
          BY <2>2, <4>1
      <3>2. CASE T[f] = {}
        <4>1. PICK k \in DOMAIN s : s[k].active = f
          BY <1>0 DEF Filled
        <4>2. PICK j \in DOMAIN u : j # c /\ o[j] = k
          BY DEF Become
        <4>3. k \in K
          BY <3>2, <4>1
        <4> QED
          BY <1>e, <2>2, <4>1, <4>2, <4>3
      <3> QED
        BY <3>1, <3>2
    <2>3. r \in T[id] \/ (id = f /\ r = row)
      BY <1>0
    <2> QED
      BY <2>1, <2>2, <2>3
  \* Two results neither of which is the copy
  <1>2. ASSUME NEW j \in DOMAIN u, NEW k \in DOMAIN u, j # k, u[j].active = u[k].active,
               j # c, k # c
        PROVE  /\ U[u[j].active] # {}
               /\ u[j].data[l] = u[k].data[l] =>
                     \E q \in D[u[j].active] \ {u[j].data[l]} : q.date = u[j].data[l].date
    <2>1. o[j] # o[k] /\ o[j] \in DOMAIN s /\ o[k] \in DOMAIN s
          /\ s[o[j]].active = s[o[k]].active /\ u[j].active = s[o[j]].active
      BY <1>e, <1>2 DEF Become
    <2>2. /\ T[s[o[j]].active] # {}
          /\ s[o[j]].data[l] = s[o[k]].data[l] =>
                \E q \in D[s[o[j]].active] \ {s[o[j]].data[l]} : q.date = s[o[j]].data[l].date
      BY <2>1 DEF OwnShown
    <2>3. o[j] \notin K /\ o[k] \notin K
      BY <2>1, <2>2
    <2>4. u[j] = s[o[j]] /\ u[k] = s[o[k]]
      BY <1>2, <1>e, <2>3
    <2>5. U[u[j].active] # {}
      <3>1. s[o[j]].active \in DOMAIN T
        BY <2>1 DEF Filled
      <3> QED
        BY <1>0, <2>1, <2>2, <3>1
    <2> QED
      BY <2>2, <2>4, <2>5
  \* The copy and another
  <1>3. ASSUME NEW k \in DOMAIN u, c \in DOMAIN u, k # c, u[k].active = u[c].active
        PROVE  /\ u[c].active = f /\ u[c].data[l] = row /\ U[f] # {}
               /\ u[k].data[l] = row => \E q \in D[f] \ {row} : q.date = row.date
    <2>1. u[c].active = f /\ u[c].data[l] = row /\ U[f] # {} /\ K = {}
      BY <1>0, <1>3, <1>c, <1>e
    <2>2. u[k] = s[o[k]] /\ o[k] \in DOMAIN s /\ s[o[k]].active = f
      BY <1>3, <1>e, <2>1
    <2>3. s[o[k]].data[l] \in T[f]
      BY <1>3, <1>c, <2>2 DEF Filled
    <2> QED
      BY <2>1, <2>2, <2>3
  <1>4. ASSUME NEW j \in DOMAIN u, NEW k \in DOMAIN u, j # k, u[j].active = u[k].active
        PROVE  /\ U[u[j].active] # {}
               /\ u[j].data[l] = u[k].data[l] =>
                     \E q \in D[u[j].active] \ {u[j].data[l]} : q.date = u[j].data[l].date
    <2>1. CASE j # c /\ k # c
      BY <1>2, <1>4, <2>1
    <2>2. CASE j = c
      <3>1. /\ u[c].active = f /\ u[c].data[l] = row /\ U[f] # {}
            /\ u[k].data[l] = row => \E q \in D[f] \ {row} : q.date = row.date
        BY <1>3, <1>4, <2>2
      <3> QED
        BY <2>2, <3>1
    <2>3. CASE k = c
      <3>1. /\ u[c].active = f /\ u[c].data[l] = row /\ U[f] # {}
            /\ u[j].data[l] = row => \E q \in D[f] \ {row} : q.date = row.date
        BY <1>3, <1>4, <2>3
      <3> QED
        BY <1>4, <2>3, <3>1
    <2> QED
      BY <2>1, <2>2, <2>3
  <1> QED
    BY <1>1, <1>4 DEF OwnShown

LEMMA SinglePut ==
    ASSUME NEW l \in Levels, NEW row, NEW s, NEW u, NEW K, NEW c, NEW o,
           Become(s, u, K, c, o, row, l),
           NEW T, NEW U, NEW f, Adds(U, T, f, row), Filled(s, l, T),
           NEW t, NEW last, Single(s, t, l, last, T),
           \A k \in K : s[k].active = f,
           c \notin DOMAIN u, \A k \in DOMAIN s : s[k].active = f => k \in K,
           last => IsLast(row, U[f])
    PROVE  Single(u, t, l, last, U)
  <1>1. DOMAIN u = DOMAIN s /\ DOMAIN s = DOMAIN t /\ \A j \in DOMAIN u : o[j] = j
    BY DEF Become, Single
  <1>2. ASSUME NEW j \in DOMAIN u
        PROVE  /\ u[j].active = t[j].active
               /\ u[j].data = [t[j].data EXCEPT ![l] = u[j].data[l]]
               /\ last /\ U[u[j].active] # {} => IsLast(u[j].data[l], U[u[j].active])
    <2>0. j # c /\ u[j].active = s[j].active
          /\ IF j \in K THEN Replaced(u[j], s[j], row, l) ELSE u[j] = s[j]
      <3>1. /\ u[j].active = s[o[j]].active /\ o[j] = j
            /\ IF j = c THEN o[j] \notin K /\ Copied(u[j], s[o[j]], row, l)
               ELSE IF o[j] \in K THEN Replaced(u[j], s[o[j]], row, l)
               ELSE u[j] = s[o[j]]
        BY <1>1 DEF Become
      <3> QED
        BY <3>1
    <2>1. /\ s[j].active = t[j].active /\ u[j].active = s[j].active
          /\ s[j].data = [t[j].data EXCEPT ![l] = s[j].data[l]]
          /\ last /\ T[s[j].active] # {} => IsLast(s[j].data[l], T[s[j].active])
          /\ s[j].active \in DOMAIN T
      BY <1>1, <2>0 DEF Single, Filled
    <2>2. CASE j \notin K
      <3>1. u[j] = s[j]
        BY <2>0, <2>2
      <3>2. U[s[j].active] = T[s[j].active]
        BY <1>1, <2>1, <2>2 DEF Adds
      <3> QED
        BY <2>1, <3>1, <3>2
    <2>3. CASE j \in K
      <3>1. u[j].data = [s[j].data EXCEPT ![l] = row] /\ u[j].data[l] = row
        BY <2>0, <2>3 DEF Replaced
      <3>2. u[j].active = f
        BY <2>1, <2>3
      <3>3. [s[j].data EXCEPT ![l] = row] = [t[j].data EXCEPT ![l] = row]
        BY <2>1
      <3> QED
        BY <2>1, <3>1, <3>2, <3>3
    <2> QED
      BY <2>2, <2>3
  <1> QED
    BY <1>1, <1>2 DEF Single

\* The rows that can be shown
Meeting == {r \in Row : CheckConditions(r)}

\* All rows the database returns, how many of them were read, and those of them
\* that met the conditions, by feature
All == BDAttributeCond(data)
Count == Len(All) - Len(rows)
RowsOf(all, n, D, C) ==
    [id \in D |-> {all[k].row : k \in {m \in 1..n : all[m].feature = id /\ all[m].row \in C}}]
Taken == RowsOf(All, Count, DOMAIN data, Meeting)

\* Only the last row counts.
LastOnly == query.cond \notin Firsts \cup Lasts

\* What holds while rows are read
LoadInv ==
    /\ TableOK
    /\ Count \in Nat /\ \A k \in DOMAIN rows : rows[k] = All[Count + k]
    /\ Filled(results, level, Taken)
    /\ level = 1 /\ Precise => OwnShown(results, level, Taken, data)
    /\ level > 1 => Children(results, before, level)
    /\ level > 1 /\ Precise /\ SingleRows =>
          Single(results, before, level, LastOnly, Taken)
    /\ CleanFrom(before, level)

\* All of these depend on the query, the level and the data.
LEMMA FrameAll ==
    ASSUME query' = query, level' = level, data' = data
    PROVE  All' = All
  BY DEF All, BDAttributeCond, Joined, Window

LEMMA Frame ==
    ASSUME query' = query, level' = level, data' = data
    PROVE  /\ All' = All /\ Meeting' = Meeting /\ LastOnly' = LastOnly
           /\ TableOK' <=> TableOK
           /\ Precise' <=> Precise
           /\ SingleRows' <=> SingleRows
  <1>1. TableOK' <=> TableOK
    BY DEF TableOK
  <1>2. Precise' <=> Precise
    BY DEF Precise
  <1>3. SingleRows' <=> SingleRows
    BY DEF SingleRows, RowFor, Chosen, InRange
  <1>4. Meeting' = Meeting /\ LastOnly' = LastOnly
    BY DEF Meeting, CheckConditions, LastOnly
  <1> QED
    BY <1>1, <1>2, <1>3, <1>4, FrameAll

LEMMA RowsOfIs ==
    ASSUME NEW all, NEW n, NEW D, NEW C, NEW id \in D, NEW r
    PROVE  r \in RowsOf(all, n, D, C)[id] <=>
              \E k \in 1..n : all[k].feature = id /\ all[k].row \in C /\ r = all[k].row
  BY DEF RowsOf

\* One row more that was read
LEMMA RowsOfNext ==
    ASSUME NEW all, NEW n \in Nat, NEW D, NEW C, all[n + 1].feature \in D
    PROVE  /\ all[n + 1].row \in C =>
                 Adds(RowsOf(all, n + 1, D, C), RowsOf(all, n, D, C),
                      all[n + 1].feature, all[n + 1].row)
           /\ all[n + 1].row \notin C => RowsOf(all, n + 1, D, C) = RowsOf(all, n, D, C)
  <1> DEFINE f == all[n + 1].feature
             row == all[n + 1].row
             T == RowsOf(all, n, D, C)
             U == RowsOf(all, n + 1, D, C)
  <1>1. DOMAIN T = D /\ DOMAIN U = D /\ T = [id \in D |-> T[id]] /\ U = [id \in D |-> U[id]]
    BY DEF RowsOf
  <1>2. \A k : k \in 1..n + 1 <=> k \in 1..n \/ k = n + 1
    OBVIOUS
  <1>3. ASSUME NEW id \in D
        PROVE  U[id] = IF id = f /\ row \in C THEN T[id] \cup {row} ELSE T[id]
    <2>1. \A r : r \in U[id] <=> \E k \in 1..n + 1 : all[k].feature = id /\ all[k].row \in C /\ r = all[k].row
      BY RowsOfIs
    <2>2. \A r : r \in T[id] <=> \E k \in 1..n : all[k].feature = id /\ all[k].row \in C /\ r = all[k].row
      BY RowsOfIs
    <2> HIDE DEF T, U
    <2>3. \A r : r \in U[id] <=> r \in T[id] \/ (f = id /\ row \in C /\ r = row)
      BY <1>2, <2>1, <2>2
    <2> HIDE DEF f, row
    <2>4. CASE id = f /\ row \in C
      <3>1. U[id] = T[id] \cup {row}
        BY <2>3, <2>4
      <3> QED
        BY <2>4, <3>1
    <2>5. CASE ~(id = f /\ row \in C)
      <3>1. U[id] = T[id]
        BY <2>3, <2>5
      <3> QED
        BY <2>5, <3>1
    <2> QED
      BY <2>4, <2>5
  <1> HIDE DEF T, U
  <1>4. ASSUME row \in C
        PROVE  Adds(U, T, f, row)
    BY <1>1, <1>3, <1>4 DEF Adds
  <1>5. ASSUME row \notin C
        PROVE  U = T
    <2>1. \A id \in D : U[id] = T[id]
      BY <1>3, <1>5
    <2> QED
      BY <1>1, <2>1
  <1> QED
    BY <1>4, <1>5 DEF T, U

LEMMA AllIs ==
    ASSUME TableOK
    PROVE  /\ IsAnswer(All, data) /\ Len(All) \in Nat /\ DOMAIN All = 1..Len(All)
           /\ All \in Seq([feature : Ids, row : Row])
  <1>1. IsAnswer(All, data)
    <2> DEFINE table == data
               D == DOMAIN table
    <2>1. /\ D \in SUBSET Ids
          /\ \A id \in D : /\ IsFiniteSet(table[id]) /\ table[id] \subseteq Row
                           /\ \A q, r \in table[id] :
                                 q.date = r.date /\ q.order = r.order => q = r
      BY DEF TableOK
    <2> HIDE DEF table
    <2>2. IsAnswer(BDAttributeCond(table), table)
      BY <2>1, BDAttributeCondIs
    <2> QED
      BY <2>2 DEF table, All
  <1>2. All \in Seq([feature : Ids, row : Row])
    BY <1>1 DEF IsAnswer
  <1> QED
    BY <1>1, <1>2, LenProperties

\* What was read and met the conditions is in the data, and asked for.
LEMMA TakenIn ==
    ASSUME TableOK, Count \in Nat, Count <= Len(All), NEW id \in DOMAIN data, NEW r \in Taken[id]
    PROVE  /\ r \in data[id] /\ r \in Row /\ CheckConditions(r)
           /\ \E k \in 1..Count : /\ k \in DOMAIN All /\ All[k].feature = id /\ All[k].row = r
           /\ Precise /\ query \in Queries => r \in Chosen(id)
  <1>1. PICK k \in 1..Count : All[k].feature = id /\ All[k].row \in Meeting /\ r = All[k].row
    BY RowsOfIs DEF Taken
  <1>2. k \in DOMAIN All
    BY <1>1, AllIs
  <1>3. r \in Row /\ CheckConditions(r)
    BY <1>1 DEF Meeting
  <1>4. r \in data[id] /\ Joined(data[id], r) > 0
    BY <1>1, <1>2, AllIs DEF IsAnswer
  <1>5. Precise /\ query \in Queries => r \in Chosen(id)
    BY <1>3, <1>4, ChosenIs
  <1> QED
    BY <1>1, <1>2, <1>3, <1>4, <1>5

\* When all were read these are what is asked for.
LEMMA TakenAll ==
    ASSUME TableOK, Count = Len(All), Precise, query \in Queries, NEW id \in DOMAIN data
    PROVE  Taken[id] = Chosen(id)
  <1>0. Count \in Nat /\ Count <= Len(All)
    BY AllIs
  <1>1. ASSUME NEW r \in Chosen(id)
        PROVE  r \in Taken[id]
    <2>1. r \in data[id]
      BY DEF Chosen
    <2>2. Joined(data[id], r) > 0 /\ CheckConditions(r)
      BY <2>1, ChosenIs
    <2>3. PICK k \in DOMAIN All : All[k].feature = id /\ All[k].row = r
      BY <2>1, <2>2, AllIs DEF IsAnswer
    <2>4. r \in Meeting
      BY <2>1, <2>2 DEF Meeting, TableOK
    <2>5. k \in 1..Count
      BY <2>3, AllIs
    <2> QED
      BY <2>3, <2>4, <2>5, RowsOfIs DEF Taken
  <1>2. \A r \in Taken[id] : r \in Chosen(id)
    BY <1>0, TakenIn
  <1> QED
    BY <1>1, <1>2

\* The row that is read is the next of those that the database returns.
LEMMA NextRow ==
    ASSUME TypeOK, LoadInv, rows # << >>, rows' = Tail(rows), All' = All
    PROVE  /\ Count + 1 <= Len(All) /\ Count + 1 \in DOMAIN All /\ Count \in Nat
           /\ Head(rows) = All[Count + 1]
           /\ Count' = Count + 1
           /\ \A k \in DOMAIN rows' : rows'[k] = All'[Count' + k]
  <1> DEFINE T == [feature : Ids, row : Row]
  <1>1. rows \in Seq(T)
    BY DEF TypeOK
  <1>2. Len(All) \in Nat /\ DOMAIN All = 1..Len(All)
    BY AllIs DEF LoadInv
  <1> HIDE DEF T
  <1>3. /\ Len(rows) \in Nat /\ DOMAIN rows = 1..Len(rows)
        /\ DOMAIN Tail(rows) = 1..Len(Tail(rows))
        /\ Head(rows) = rows[1] /\ Len(Tail(rows)) = Len(rows) - 1 /\ Len(rows) >= 1
        /\ \A k \in 1..Len(Tail(rows)) : Tail(rows)[k] = rows[k + 1]
    <2>1. Len(rows) \in Nat /\ DOMAIN rows = 1..Len(rows) /\ Len(rows) # 0
      BY <1>1, EmptySeq, LenProperties
    <2>2. /\ Head(rows) = rows[1] /\ Tail(rows) \in Seq(T) /\ Len(Tail(rows)) = Len(rows) - 1
          /\ \A k \in 1..Len(Tail(rows)) : Tail(rows)[k] = rows[k + 1]
      BY <1>1, HeadTailProperties
    <2>3. DOMAIN Tail(rows) = 1..Len(Tail(rows))
      BY <2>2, LenProperties
    <2> QED
      BY <2>1, <2>2, <2>3
  <1>4. Count = Len(All) - Len(rows) /\ Count \in Nat /\ \A k \in DOMAIN rows : rows[k] = All[Count + k]
    BY DEF LoadInv, Count
  <1>5. Count' = Len(All) - Len(Tail(rows))
    BY DEF Count
  <1>6. Count' = Count + 1
    BY <1>2, <1>3, <1>4, <1>5
  <1>7. Count + 1 <= Len(All) /\ Count + 1 \in DOMAIN All
    BY <1>2, <1>3, <1>4
  <1>8. Head(rows) = All[Count + 1]
    BY <1>3, <1>4
  <1>9. ASSUME NEW k \in DOMAIN rows'
        PROVE  rows'[k] = All'[Count' + k]
    <2>1. k \in 1..Len(Tail(rows)) /\ rows'[k] = rows[k + 1] /\ k + 1 \in DOMAIN rows
      BY <1>3, <1>9
    <2>2. rows'[k] = All[Count + (k + 1)]
      BY <1>4, <2>1
    <2>3. Count + (k + 1) = Count' + k
      BY <1>4, <1>6, <2>1
    <2> QED
      BY <2>2, <2>3
  <1> QED
    BY <1>4, <1>6, <1>7, <1>8, <1>9

\* A row that is read again is in the join twice, so another has its date; this
\* is so with all dates only.
LEMMA ReadTwice ==
    ASSUME TypeOK, LoadInv, Precise, Count + 1 \in DOMAIN All,
           NEW f \in DOMAIN data, NEW row, All[Count + 1].feature = f, All[Count + 1].row = row,
           row \in Taken[f]
    PROVE  LastOnly /\ \E q \in data[f] \ {row} : q.date = row.date
  <1>1. TableOK /\ Count \in Nat /\ query \in Queries
    BY DEF LoadInv, TypeOK
  <1>2. IsAnswer(All, data) /\ DOMAIN All = 1..Len(All) /\ Len(All) \in Nat
        /\ All \in Seq([feature : Ids, row : Row])
    BY <1>1, AllIs
  <1>3. Count <= Len(All) /\ Count + 1 \in Int
    BY <1>1, <1>2
  <1>4. PICK k \in 1..Count : k \in DOMAIN All /\ All[k].feature = f /\ All[k].row = row
    BY <1>1, <1>3, TakenIn
  <1>5. All[k] = All[Count + 1]
    <2>1. All[k] \in [feature : Ids, row : Row] /\ All[Count + 1] \in [feature : Ids, row : Row]
      BY <1>2, <1>4, ElementOfSeq
    <2> QED
      BY <1>4, <2>1
  <1>6. k < Count + 1
    BY <1>1, <1>4
  <1>7. Joined(data[f], row) > 1 /\ row \in data[f]
    BY <1>2, <1>4, <1>5, <1>6 DEF IsAnswer
  <1> QED
    BY <1>1, <1>7, JoinedIs DEF LastOnly

\* The rows that were read before one of the same feature are before it.
LEMMA ReadLast ==
    ASSUME TypeOK, LoadInv, Count + 1 \in DOMAIN All,
           NEW f \in DOMAIN data, NEW row, All[Count + 1].feature = f, All[Count + 1].row = row,
           row \in Row
    PROVE  IsLast(row, Taken[f] \cup {row})
  <1>1. TableOK /\ Count \in Nat
    BY DEF LoadInv
  <1>2. IsAnswer(All, data) /\ DOMAIN All = 1..Len(All) /\ Len(All) \in Nat
    BY <1>1, AllIs
  <1>3. Count <= Len(All)
    BY <1>1, <1>2
  <1>4. ASSUME NEW q \in Taken[f], q # row
        PROVE  q.date < row.date \/ (q.date = row.date /\ q.order < row.order)
    <2>1. PICK k \in 1..Count : k \in DOMAIN All /\ All[k].feature = f /\ All[k].row = q
      BY <1>1, <1>3, TakenIn
    <2>2. k < Count + 1
      BY <1>1, <2>1
    <2>3. All[k] = All[Count + 1] \/ RowBefore(All[k], All[Count + 1])
      BY <1>2, <2>1, <2>2 DEF IsAnswer
    <2>4. RowBefore(All[k], All[Count + 1])
      BY <1>4, <2>1, <2>3
    <2>5. f \in Int
      BY <1>1, Constants DEF TableOK
    <2> QED
      BY <2>1, <2>4, <2>5 DEF RowBefore
  <1> QED
    BY <1>4 DEF IsLast

\* On the query's own type a result that has a row is copied for the next one:
\* with all dates always, with the first or the last as it has the same date.
LEMMA OwnIsNew ==
    ASSUME TypeOK, LoadInv, Precise, level = 1, Count <= Len(All),
           NEW f \in DOMAIN data, NEW row \in Chosen(f), Taken[f] # {},
           NEW k \in DOMAIN results, results[k].active = f
    PROVE  Status(row.date, results[k]) = "new"
  <1>1. TableOK /\ Count \in Nat /\ query \in Queries /\ Filled(results, level, Taken)
    BY DEF LoadInv, TypeOK
  <1> DEFINE q == results[k].data[level]
  <1>2. q \in Taken[f] /\ results[k].date = q.date
    BY <1>1 DEF Filled
  <1>3. q \in Chosen(f) /\ q \in data[f] /\ row \in data[f]
    BY <1>1, <1>2, TakenIn DEF Chosen
  <1>4. q.date # NoDate /\ DateCompare(row.date, q.date) = row.date - q.date
        /\ row.date \in Int /\ q.date \in Int
    BY <1>1, <1>3, PreciseDates
  <1>5. CASE query.cond \in Firsts \cup Lasts
    <2>1. row.date = q.date
      BY <1>1, <1>3, <1>5, ChosenDate
    <2>2. DateCompare(row.date, q.date) = 0
      BY <1>4, <2>1
    <2> QED
      BY <1>2, <1>4, <1>5, <2>2 DEF Status
  <1>6. CASE query.cond \notin Firsts \cup Lasts
    BY <1>2, <1>4, <1>6 DEF Status
  <1> QED
    BY <1>5, <1>6

\* On a parent's type a result is never copied if the parents have a row each.
LEMMA ParentIsReplaced ==
    ASSUME TypeOK, LoadInv, Precise, SingleRows, level > 1, Count + 1 \in DOMAIN All,
           NEW f \in DOMAIN data, NEW row \in Chosen(f),
           All[Count + 1].feature = f, All[Count + 1].row = row,
           NEW k \in DOMAIN results, results[k].active = f
    PROVE  Status(row.date, results[k]) = "replace"
  <1>1. TableOK /\ Count \in Nat /\ query \in Queries /\ Filled(results, level, Taken)
    BY DEF LoadInv, TypeOK
  <1>2. Count <= Len(All)
    BY <1>1, AllIs
  <1>3. CASE query.cond \notin Firsts \cup Lasts
    <2>1. level # 1
      BY Constants DEF TypeOK
    <2> QED
      BY <1>3, <2>1 DEF Status
  <1>4. CASE query.cond \in Firsts \cup Lasts
    <2>1. Taken[f] = {}
      <3> SUFFICES ASSUME NEW q \in Taken[f] PROVE FALSE
        OBVIOUS
      <3>1. q \in Chosen(f)
        BY <1>1, <1>2, TakenIn
      <3>2. RowFor(f) = Chosen(f) /\ Cardinality(RowFor(f)) <= 1
        BY <1>4 DEF SingleRows, RowFor
      <3>3. IsFiniteSet(Chosen(f))
        <4>1. IsFiniteSet(data[f]) /\ Chosen(f) \in SUBSET data[f]
          BY <1>1 DEF TableOK, Chosen
        <4> QED
          BY <4>1, FS_Subset
      <3>4. q = row
        <4>1. /\ Cardinality(Chosen(f)) \in Nat
              /\ Cardinality(Chosen(f)) > 1 <=> \E y \in Chosen(f) : y # row
          BY <3>3, TwoOf
        <4> QED
          BY <3>1, <3>2, <4>1
      <3>5. LastOnly
        BY <3>4, ReadTwice
      <3> QED
        BY <1>4, <3>5 DEF LastOnly
    <2>2. results[k].date = NoDate
      BY <1>1, <2>1 DEF Filled
    <2> QED
      BY <2>2 DEF Status
  <1> QED
    BY <1>3, <1>4

LEMMA LoadPrimed ==
    /\ Filled(results, level, Taken)' <=> Filled(results', level', Taken')
    /\ OwnShown(results, level, Taken, data)' <=> OwnShown(results', level', Taken', data')
    /\ Children(results, before, level)' <=> Children(results', before', level')
    /\ Single(results, before, level, LastOnly, Taken)'
         <=> Single(results', before', level', LastOnly', Taken')
    /\ CleanFrom(before, level)' <=> CleanFrom(before', level')
  BY DEF Filled, OwnShown, Children, Single, CleanFrom, IsLast

\* GetNext: what holds while rows are read
LEMMA LoadGetNext ==
    ASSUME TypeOK, LoadInv, CleanFrom(results, level + 1), GetNext
    PROVE  LoadInv' /\ CleanFrom(results', level + 1)
  <1> DEFINE f == Head(rows).feature
             row == Head(rows).row
  <1>1. /\ query' = query /\ level' = level /\ data' = data /\ before' = before
        /\ rows # << >> /\ rows' = Tail(rows)
    BY DEF GetNext
  <1>2. /\ All' = All /\ Meeting' = Meeting /\ LastOnly' = LastOnly
        /\ TableOK' <=> TableOK
        /\ Precise' <=> Precise
        /\ SingleRows' <=> SingleRows
    BY <1>1, Frame
  <1>3. /\ Count + 1 <= Len(All) /\ Count + 1 \in DOMAIN All /\ Count \in Nat
        /\ Head(rows) = All[Count + 1]
        /\ Count' = Count + 1
        /\ \A k \in DOMAIN rows' : rows'[k] = All'[Count' + k]
    BY <1>1, <1>2, NextRow
  <1>4. /\ TableOK /\ Filled(results, level, Taken) /\ CleanFrom(before, level)
        /\ level = 1 /\ Precise => OwnShown(results, level, Taken, data)
        /\ level > 1 => Children(results, before, level)
        /\ level > 1 /\ Precise /\ SingleRows =>
              Single(results, before, level, LastOnly, Taken)
    BY DEF LoadInv
  <1>5. f = All[Count + 1].feature /\ row = All[Count + 1].row
        /\ f \in DOMAIN data /\ row \in data[f] /\ Joined(data[f], row) > 0
    BY <1>3, <1>4, AllIs DEF IsAnswer
  <1>6. level \in Levels /\ results \in Seq(Result) /\ query \in Queries
    BY DEF TypeOK
  <1>7. Count <= Len(All)
    BY <1>3, <1>4, AllIs
  <1>8. DOMAIN Taken = DOMAIN data
    BY DEF Taken, RowsOf
  <1>9. /\ CheckConditions(row) /\ row \in Row => Adds(Taken', Taken, f, row)
        /\ ~CheckConditions(row) => Taken' = Taken
    <2>1. Taken' = RowsOf(All, Count + 1, DOMAIN data, Meeting)
      <3>1. Taken' = RowsOf(All', Count', DOMAIN data', Meeting')
        BY DEF Taken, RowsOf
      <3> QED
        BY <1>1, <1>2, <1>3, <3>1
    <2>2. /\ row \in Meeting => Adds(Taken', Taken, f, row)
          /\ row \notin Meeting => Taken' = Taken
      BY <1>3, <1>5, <2>1, RowsOfNext DEF Taken
    <2> QED
      BY <2>2 DEF Meeting
  <1> HIDE DEF f, row
  <1>10. /\ row \in Row /\ f \in Int
         /\ ~CheckConditions(row) => results' = results
         /\ CheckConditions(row) => \E K, c, o :
                 /\ Put(results, results', K, c, o, row)
                 /\ \A k \in K : k \in DOMAIN results /\ results[k].active = f
                                 /\ Status(row.date, results[k]) = "replace"
                 /\ c \in DOMAIN results' =>
                       /\ o[c] \in DOMAIN results /\ results[o[c]].active = f
                       /\ Status(row.date, results[o[c]]) = "new"
                 /\ c \notin DOMAIN results' =>
                       \A k \in DOMAIN results : results[k].active = f =>
                          /\ Status(row.date, results[k]) # "new"
                          /\ Status(row.date, results[k]) = "replace" => k \in K
    <2>1. f = Head(rows).feature /\ row = Head(rows).row
      BY DEF f, row
    <2>2. f \in DOMAIN Taken
      BY <1>5, <1>8
    <2> QED
      BY <1>4, <2>1, <2>2, GetNextPuts
  <1> DEFINE Keeping == /\ Filled(results', level, Taken')
                        /\ level = 1 /\ Precise => OwnShown(results', level, Taken', data)
                        /\ level > 1 => Children(results', before, level)
                        /\ level > 1 /\ Precise /\ SingleRows =>
                              Single(results', before, level, LastOnly, Taken')
                        /\ CleanFrom(results', level + 1)
  <1>11. ASSUME ~CheckConditions(row)
         PROVE  Keeping
    BY <1>4, <1>9, <1>10, <1>11
  <1>12. ASSUME CheckConditions(row)
         PROVE  Keeping
    <2>1. PICK K, c, o :
                 /\ Put(results, results', K, c, o, row)
                 /\ \A k \in K : k \in DOMAIN results /\ results[k].active = f
                                 /\ Status(row.date, results[k]) = "replace"
                 /\ c \in DOMAIN results' =>
                       /\ o[c] \in DOMAIN results /\ results[o[c]].active = f
                       /\ Status(row.date, results[o[c]]) = "new"
                 /\ c \notin DOMAIN results' =>
                       \A k \in DOMAIN results : results[k].active = f =>
                          /\ Status(row.date, results[k]) # "new"
                          /\ Status(row.date, results[k]) = "replace" => k \in K
      BY <1>10, <1>12
    <2> DEFINE u == results'
               U == Taken'
    <2>2. Adds(U, Taken, f, row)
      BY <1>9, <1>10, <1>12
    <2> HIDE DEF u, U
    <2>3. Become(results, u, K, c, o, row, level)
      BY <1>6, <1>10, <2>1, PutIs DEF u
    <2>4. \A k \in K : results[k].active = f
      BY <2>1
    <2>5. Taken[f] = {} => \A k \in DOMAIN results :
             results[k].active = f => Status(row.date, results[k]) = "replace"
      <3> SUFFICES ASSUME Taken[f] = {}, NEW k \in DOMAIN results, results[k].active = f
                   PROVE  Status(row.date, results[k]) = "replace"
        OBVIOUS
      <3>1. results[k].date = NoDate
        BY <1>4 DEF Filled
      <3> QED
        BY <3>1 DEF Status
    <2>6. c \in DOMAIN u => results[o[c]].active = f /\ Taken[f] # {}
      BY <2>1, <2>5 DEF u
    <2>7. Taken[f] = {} => \A k \in DOMAIN results : results[k].active = f => k \in K
      BY <2>1, <2>5, <2>6 DEF u
    <2>8. Filled(u, level, U)
      BY <1>4, <1>6, <2>2, <2>3, <2>4, <2>6, <2>7, FilledPut
    <2>9. CleanFrom(u, level + 1)
      BY <1>6, <2>3, CleanPut
    <2>10. level > 1 => Children(u, before, level)
      BY <1>4, <1>6, <2>3, ChildrenPut
    <2>11. Precise => row \in Chosen(f)
      BY <1>4, <1>5, <1>6, <1>12, ChosenIs
    <2>12. ASSUME level = 1, Precise
           PROVE  OwnShown(u, level, U, data)
      <3>1. ASSUME Taken[f] # {}
            PROVE  c \in DOMAIN u /\ results[o[c]].active = f /\ K = {}
        <4>1. \A k \in DOMAIN results :
                 results[k].active = f => Status(row.date, results[k]) = "new"
          BY <1>5, <1>7, <2>11, <2>12, <3>1, OwnIsNew
        <4>2. \E k \in DOMAIN results : results[k].active = f
          BY <1>4, <1>5, <1>8 DEF Filled
        <4>3. c \in DOMAIN u
          BY <2>1, <4>1, <4>2 DEF u
        <4>4. K = {}
          BY <2>1, <4>1
        <4> QED
          BY <2>6, <4>3, <4>4
      <3>2. row \in Taken[f] => \E q \in data[f] \ {row} : q.date = row.date
        BY <1>3, <1>5, <2>12, ReadTwice
      <3>3. Taken[f] = {} => /\ c \notin DOMAIN u
                             /\ \A k \in DOMAIN results : results[k].active = f => k \in K
        BY <2>6, <2>7
      <3>4. OwnShown(results, level, Taken, data)
        BY <1>4, <2>12
      <3> QED
        BY <1>4, <1>6, <2>2, <2>3, <2>4, <3>1, <3>2, <3>3, <3>4, OwnShownPut
    <2>13. ASSUME level > 1, Precise, SingleRows
           PROVE  Single(u, before, level, LastOnly, U)
      <3>1. \A k \in DOMAIN results :
               results[k].active = f => Status(row.date, results[k]) = "replace"
        BY <1>3, <1>5, <2>11, <2>13, ParentIsReplaced
      <3>2. c \notin DOMAIN u
        BY <2>1, <3>1 DEF u
      <3>3. \A k \in DOMAIN results : results[k].active = f => k \in K
        BY <2>1, <3>1, <3>2 DEF u
      <3>4. U[f] = Taken[f] \cup {row}
        BY <2>2 DEF Adds
      <3>5. IsLast(row, U[f])
        BY <1>3, <1>5, <1>10, <3>4, ReadLast
      <3>6. Single(results, before, level, LastOnly, Taken)
        BY <1>4, <2>13
      <3> QED
        BY <1>4, <1>6, <2>2, <2>3, <2>4, <3>2, <3>3, <3>5, <3>6, SinglePut
    <2> QED
      BY <2>8, <2>9, <2>10, <2>12, <2>13 DEF u, U
  <1>13. Keeping
    BY <1>11, <1>12
  <1> HIDE DEF Keeping
  <1>14. LoadInv'
    <2>1. Keeping
      BY <1>13
    <2>2. /\ TableOK' /\ Count' \in Nat /\ \A k \in DOMAIN rows' : rows'[k] = All'[Count' + k]
      BY <1>2, <1>3, <1>4
    <2>3. /\ Filled(results, level, Taken)'
          /\ (level = 1)' /\ Precise' => OwnShown(results, level, Taken, data)'
          /\ (level > 1)' => Children(results, before, level)'
          /\ (level > 1)' /\ Precise' /\ SingleRows' =>
               Single(results, before, level, LastOnly, Taken)'
          /\ CleanFrom(before, level)'
      BY <1>1, <1>2, <1>4, <2>1, LoadPrimed DEF Keeping
    <2> QED
      BY <2>2, <2>3 DEF LoadInv
  <1> QED
    BY <1>13, <1>14 DEF Keeping

-----------------------------------------------------------------------------
(* The list as it is when LoadDataAll begins *)

Distinct(s) == \A j, k \in DOMAIN s : s[j].active = s[k].active => j = k
Undated(s) == \A j \in DOMAIN s : s[j].date = NoDate

\* What the results do not hold: nothing for a level before it is loaded, and no
\* date; and those of the query's own type are of as many features.
BlankInv ==
    /\ phase = "begin" => /\ CleanFrom(results, level) /\ Undated(results)
                          /\ level = 1 => Distinct(results)
    /\ phase \in {"load", "loaded", "skipped"} => CleanFrom(results, level + 1)

\* t has the elements of s, those of place p[j] at j.
Moves(p, t, s) ==
    /\ p \in [DOMAIN s -> DOMAIN s]
    /\ \A j, k \in DOMAIN s : p[j] = p[k] => j = k
    /\ \A k \in DOMAIN s : \E j \in DOMAIN s : p[j] = k
    /\ \A j \in DOMAIN s : t[j] = s[p[j]]

\* x is r with the condition not met, but for its names.
Named(x, r) ==
    /\ x \in Result /\ x.active = r.active /\ x.data = r.data /\ x.date = r.date
    /\ x.met = FALSE

\* SortFeature moves the results only.
LEMMA SortMoves ==
    ASSUME NEW s \in Seq(Result), s # << >>, NEW t, t = SortFeature(s, 1, Len(s))
    PROVE  DOMAIN t = DOMAIN s /\ \E p : Moves(p, t, s)
  <1>1. IsList(s) /\ Len(s) \in Nat /\ DOMAIN s = 1..Len(s)
    BY ResultList
  <1>2. Len(s) # 0
    BY EmptySeq
  <1>3. 1 \in DOMAIN s /\ Len(s) \in DOMAIN s /\ 1 <= Len(s)
    BY <1>1, <1>2
  <1>4. SortedFrom(s, s, 1, Len(s), t)
    BY <1>1, <1>3, SortFeatureIs
  <1>5. Rearranged(t, s, 1, Len(s))
    BY <1>4 DEF SortedFrom
  <1>6. PICK p \in Perms(DOMAIN s, 1, Len(s)) : \A j \in DOMAIN s : t[j] = s[p[j]]
    BY <1>5 DEF Rearranged
  <1>7. Moves(p, t, s)
    BY <1>6 DEF Moves, Perms
  <1> QED
    BY <1>5, <1>7 DEF Rearranged

\* The list that is sorted, as to what the results hold
LEMMA NamedHolds ==
    ASSUME NEW r \in Result, level \in Levels,
           NEW y, y = [r EXCEPT !.names[level] = r.name],
           NEW x, x = [y EXCEPT !.met = FALSE]
    PROVE  y \in Result /\ y.data = r.data /\ Named(x, r)
  <1>1. y \in Result /\ y.active = r.active
    BY ResultFields, WithName
  <1>2. y.data = r.data /\ y.date = r.date
    BY DEF Result
  <1>3. x \in Result /\ x.active = y.active
    BY <1>1, WithMet
  <1>4. x.data = y.data /\ x.date = y.date /\ x.met = FALSE
    BY <1>1 DEF Result
  <1> QED
    BY <1>1, <1>2, <1>3, <1>4 DEF Named

LEMMA LoadDataAllHolds ==
    ASSUME TypeOK, LoadDataAll
    PROVE  \/ /\ phase' = "skipped" /\ DOMAIN results' = DOMAIN results
              /\ \A j \in DOMAIN results' : results'[j].data = results[j].data
           \/ /\ phase' = "load" /\ DOMAIN results' = DOMAIN results
              /\ data' \in [Active -> RowSets[level]]
              /\ rows' = BDAttributeCond(data')
              /\ before' = results'
              /\ \E p \in [DOMAIN results -> DOMAIN results] :
                    /\ \A j, k \in DOMAIN results : p[j] = p[k] => j = k
                    /\ \A k \in DOMAIN results : \E j \in DOMAIN results : p[j] = k
                    /\ \A j \in DOMAIN results :
                          /\ results'[j].active = results[p[j]].active
                          /\ results'[j].data = results[p[j]].data
                          /\ results'[j].date = results[p[j]].date
                          /\ results'[j].met = FALSE
  <1> DEFINE named == [j \in DOMAIN results |->
                        [results[j] EXCEPT !.names[level] = results[j].name]]
             s == [j \in DOMAIN named |-> [named[j] EXCEPT !.met = FALSE]]
  <1>1. results \in Seq(Result) /\ level \in Levels /\ results # << >>
    BY DEF TypeOK, LoadDataAll
  <1>2. /\ Len(results) \in Nat /\ DOMAIN results = 1..Len(results)
        /\ \A j \in DOMAIN results : results[j] \in Result
    BY <1>1, ResultList
  <1>3. \/ /\ results' = SortFeature(s, 1, Len(named)) /\ phase' = "load"
           /\ data' \in [Active -> RowSets[level]]
           /\ rows' = BDAttributeCond(data')
           /\ before' = results'
        \/ results' = named /\ phase' = "skipped"
    BY DEF LoadDataAll
  <1>4. \A j \in DOMAIN results :
           /\ named[j] \in Result /\ named[j].data = results[j].data
           /\ s[j] \in Result /\ s[j].active = results[j].active
           /\ s[j].data = results[j].data /\ s[j].date = results[j].date
           /\ s[j].met = FALSE
    <2> SUFFICES ASSUME NEW j \in DOMAIN results, NEW y, y = named[j], NEW x, x = s[j]
                 PROVE  /\ y \in Result /\ y.data = results[j].data
                        /\ x \in Result /\ x.active = results[j].active
                        /\ x.data = results[j].data /\ x.date = results[j].date
                        /\ x.met = FALSE
      OBVIOUS
    <2> DEFINE r == results[j]
    <2>1. r \in Result
      BY <1>2
    <2>2. y = [r EXCEPT !.names[level] = r.name] /\ x = [y EXCEPT !.met = FALSE]
      OBVIOUS
    <2> HIDE DEF r, named, s
    <2>3. y \in Result /\ y.data = r.data /\ Named(x, r)
      BY <1>1, <2>1, <2>2, NamedHolds
    <2> QED
      BY <2>3 DEF r, Named
  <1>5. DOMAIN named = DOMAIN results /\ named = [j \in DOMAIN named |-> named[j]]
        /\ DOMAIN s = DOMAIN results /\ s = [j \in DOMAIN s |-> s[j]]
    OBVIOUS
  <1> HIDE DEF named, s
  <1>6. named \in Seq(Result) /\ Len(named) = Len(results)
    BY <1>1, <1>4, <1>5, MapList
  <1>7. s \in Seq(Result) /\ Len(s) = Len(results)
    BY <1>1, <1>4, <1>5, MapList
  <1>8. CASE results' = named /\ phase' = "skipped"
    BY <1>4, <1>5, <1>8
  <1>9. CASE /\ results' = SortFeature(s, 1, Len(named)) /\ phase' = "load"
             /\ data' \in [Active -> RowSets[level]]
             /\ rows' = BDAttributeCond(data')
             /\ before' = results'
    <2>1. s # << >>
      <3>1. Len(results) # 0
        BY <1>1, EmptySeq
      <3>2. Len(s) # 0
        BY <1>7, <3>1
      <3> QED
        BY <3>2, EmptySeq
    <2> DEFINE t == results'
    <2>2. t = SortFeature(s, 1, Len(s))
      BY <1>6, <1>7, <1>9
    <2> HIDE DEF t
    <2>3. DOMAIN t = DOMAIN s
      BY <1>7, <2>1, <2>2, SortMoves
    <2>a. PICK p : Moves(p, t, s)
      BY <1>7, <2>1, <2>2, SortMoves
    <2>4. /\ p \in [DOMAIN s -> DOMAIN s]
          /\ \A j, k \in DOMAIN s : p[j] = p[k] => j = k
          /\ \A k \in DOMAIN s : \E j \in DOMAIN s : p[j] = k
          /\ \A j \in DOMAIN s : t[j] = s[p[j]]
      BY <2>a DEF Moves
    <2>5. \A j \in DOMAIN results :
                          /\ t[j].active = results[p[j]].active
                          /\ t[j].data = results[p[j]].data
                          /\ t[j].date = results[p[j]].date
                          /\ t[j].met = FALSE
      BY <1>4, <1>5, <2>4
    <2>6. p \in [DOMAIN results -> DOMAIN results]
      BY <1>5, <2>4
    <2>7. /\ \A j, k \in DOMAIN results : p[j] = p[k] => j = k
          /\ \A k \in DOMAIN results : \E j \in DOMAIN results : p[j] = k
          /\ DOMAIN t = DOMAIN results
      BY <1>5, <2>3, <2>4
    <2> QED
      BY <1>9, <2>5, <2>6, <2>7 DEF t
  <1> QED
    BY <1>3, <1>8, <1>9

\* LoadDataAll: nothing was read yet.
LEMMA LoadStart ==
    ASSUME TypeOK, TypeOK', BlankInv, LoadDataAll
    PROVE  CleanFrom(results', level + 1) /\ (phase' = "load" => LoadInv')
  <1>1. /\ query' = query /\ level' = level /\ phase = "begin"
        /\ level \in Levels /\ results \in Seq(Result)
    BY DEF LoadDataAll, TypeOK
  <1>2. CleanFrom(results, level) /\ Undated(results) /\ (level = 1 => Distinct(results))
    BY <1>1 DEF BlankInv
  <1>3. \A i \in Levels : i >= level + 1 => i >= level
    BY <1>1, Constants
  <1>4. CASE /\ phase' = "skipped" /\ DOMAIN results' = DOMAIN results
             /\ \A j \in DOMAIN results' : results'[j].data = results[j].data
    BY <1>2, <1>3, <1>4 DEF CleanFrom
  <1>5. CASE /\ phase' = "load" /\ DOMAIN results' = DOMAIN results
             /\ data' \in [Active -> RowSets[level]]
             /\ rows' = BDAttributeCond(data')
             /\ before' = results'
             /\ \E p \in [DOMAIN results -> DOMAIN results] :
                    /\ \A j, k \in DOMAIN results : p[j] = p[k] => j = k
                    /\ \A k \in DOMAIN results : \E j \in DOMAIN results : p[j] = k
                    /\ \A j \in DOMAIN results :
                          /\ results'[j].active = results[p[j]].active
                          /\ results'[j].data = results[p[j]].data
                          /\ results'[j].date = results[p[j]].date
                          /\ results'[j].met = FALSE
    <2> DEFINE t == results'
               U == Taken'
               D == data'
    <2>1. PICK p \in [DOMAIN results -> DOMAIN results] :
                    /\ \A j, k \in DOMAIN results : p[j] = p[k] => j = k
                    /\ \A k \in DOMAIN results : \E j \in DOMAIN results : p[j] = k
                    /\ \A j \in DOMAIN results :
                          /\ t[j].active = results[p[j]].active
                          /\ t[j].data = results[p[j]].data
                          /\ t[j].date = results[p[j]].date
                          /\ t[j].met = FALSE
      BY <1>5
    <2>2. /\ DOMAIN D = Active /\ DOMAIN D \subseteq Ids
          /\ \A id \in DOMAIN D : D[id] \in RowSets[level]
      BY <1>1, <1>5, ActiveIds
    <2>3. TableOK'
      <3>1. \A id \in DOMAIN D : /\ IsFiniteSet(D[id]) /\ D[id] \subseteq Row
                                 /\ \A q, r \in D[id] : q.date = r.date /\ q.order = r.order => q = r
        BY <1>1, <2>2, Constants
      <3> QED
        BY <2>2, <3>1 DEF TableOK
    <2>4. All' = rows'
      <3>1. All' = BDAttributeCond(data')
        BY <1>1 DEF All, BDAttributeCond, Joined, Window
      <3> QED
        BY <1>5, <3>1
    <2>5. Len(rows') \in Nat /\ DOMAIN rows' = 1..Len(rows')
      <3>1. rows' \in Seq([feature : Ids, row : Row])
        BY DEF TypeOK
      <3> QED
        BY <3>1, LenProperties
    <2>6. Count' = 0
      <3>1. Count' = Len(All') - Len(rows')
        BY DEF Count
      <3> QED
        BY <2>4, <2>5, <3>1
    <2>7. \A k \in DOMAIN rows' : rows'[k] = All'[Count' + k]
      BY <2>4, <2>5, <2>6
    <2>8. DOMAIN U = DOMAIN D /\ \A id \in DOMAIN D : U[id] = {}
      <3>1. U = RowsOf(All', Count', DOMAIN data', Meeting')
        BY DEF Taken, RowsOf
      <3>2. 1..Count' = {}
        BY <2>6
      <3> QED
        BY <3>1, <3>2 DEF RowsOf
    <2>9. t \in Seq(Result) /\ DOMAIN t = DOMAIN results /\ \A j \in DOMAIN t : t[j] \in Result
      <3>1. t \in Seq(Result)
        BY DEF TypeOK
      <3> QED
        BY <1>5, <3>1, ResultList
    <2> HIDE DEF t, U, D
    <2>10. \A j \in DOMAIN t : /\ p[j] \in DOMAIN results /\ t[j].active = results[p[j]].active
                               /\ t[j].data = results[p[j]].data
                               /\ t[j].date = NoDate /\ t[j].met = FALSE
      BY <1>2, <2>1, <2>9 DEF Undated
    <2>11. CleanFrom(t, level)
      BY <1>2, <2>10 DEF CleanFrom
    <2>12. Filled(t, level, U)
      <3>1. \A j \in DOMAIN t : t[j].active \in DOMAIN U
        BY <2>2, <2>8, <2>10 DEF Active
      <3>2. \A j \in DOMAIN t : t[j].data[level] = NoRow
        BY <1>1, <2>11, Constants DEF CleanFrom
      <3>3. \A id \in DOMAIN U : \E j \in DOMAIN t : t[j].active = id
        <4> SUFFICES ASSUME NEW id \in DOMAIN U PROVE \E j \in DOMAIN t : t[j].active = id
          OBVIOUS
        <4>1. PICK k \in DOMAIN results : results[k].active = id
          BY <2>2, <2>8 DEF Active
        <4>2. PICK j \in DOMAIN t : p[j] = k
          BY <2>1, <2>9
        <4> QED
          BY <2>10, <4>1, <4>2
      <3> QED
        BY <2>8, <2>10, <3>1, <3>2, <3>3 DEF Filled
    <2>13. level = 1 => OwnShown(t, level, U, D)
      <3> SUFFICES ASSUME level = 1 PROVE OwnShown(t, level, U, D)
        OBVIOUS
      <3>1. \A j, k \in DOMAIN t : t[j].active = t[k].active => j = k
        BY <1>2, <2>1, <2>9, <2>10 DEF Distinct
      <3> QED
        BY <2>8, <3>1 DEF OwnShown
    <2>14. Children(t, t, level)
      BY DEF Children
    <2>15. Single(t, t, level, LastOnly', U)
      <3>1. \A j \in DOMAIN t : t[j].data = [t[j].data EXCEPT ![level] = t[j].data[level]]
        BY <2>9, ResultFields
      <3>2. \A j \in DOMAIN t : U[t[j].active] = {}
        BY <2>2, <2>8, <2>10 DEF Active
      <3> QED
        BY <3>1, <3>2 DEF Single
    <2>16. CleanFrom(t, level + 1)
      BY <1>3, <2>11 DEF CleanFrom
    <2>17. LoadInv'
      <3>1. before' = t /\ results' = t /\ data' = D /\ Taken' = U
        BY <1>5 DEF t, D, U
      <3>2. /\ TableOK' /\ Count' \in Nat /\ \A k \in DOMAIN rows' : rows'[k] = All'[Count' + k]
        BY <2>3, <2>6, <2>7
      <3>3. /\ Filled(results, level, Taken)'
            /\ (level = 1)' => OwnShown(results, level, Taken, data)'
            /\ Children(results, before, level)'
            /\ Single(results, before, level, LastOnly, Taken)'
            /\ CleanFrom(before, level)'
        BY <1>1, <2>11, <2>12, <2>13, <2>14, <2>15, <3>1, LoadPrimed
      <3> QED
        BY <3>2, <3>3 DEF LoadInv
    <2> QED
      BY <2>16, <2>17 DEF t
  <1> QED
    BY <1>4, <1>5, LoadDataAllHolds

-----------------------------------------------------------------------------
(* What RemoveUnmet leaves *)

\* u has the results of s at the places in K, that of f[j] at j.
Left(u, s, f, K) ==
    /\ \A j \in DOMAIN u : f[j] \in K /\ f[j] \in DOMAIN s /\ u[j] = s[f[j]]
    /\ \A j, k \in DOMAIN u : f[j] = f[k] => j = k
    /\ \A k \in DOMAIN s : k \in K => \E j \in DOMAIN u : f[j] = k

\* The places of the results that are not removed
Remain == {k \in DOMAIN results : query.showAll \/ results[k].met}

LEMMA KeptLeft ==
    ASSUME NEW S, NEW s \in Seq(S), NEW K
    PROVE  Kept(s, K) \in Seq(S) /\ \E f : Left(Kept(s, K), s, f, K)
  <1> DEFINE u == Kept(s, K)
  <1>1. PICK f, m : Picks(f, m, Len(s), K) /\ u \in Seq(S) /\ Picked(u, s, f, m)
    BY KeptIs
  <1> HIDE DEF u
  <1>2. DOMAIN u = 1..m /\ m \in Nat
    BY <1>1, LenProperties DEF Picks, Picked
  <1>3. DOMAIN s = 1..Len(s) /\ Len(s) \in Nat
    BY LenProperties
  <1>4. \A j \in 1..m : f[j] \in K /\ f[j] \in DOMAIN s
    BY <1>1, <1>3 DEF Picks
  <1>5. \A j \in 1..m : u[j] = s[f[j]]
    BY <1>1 DEF Picked
  <1>6. \A k \in DOMAIN s : k \in K => \E j \in 1..m : f[j] = k
    BY <1>1, <1>3 DEF Picks
  <1>7. ASSUME NEW j \in 1..m, NEW k \in 1..m, f[j] = f[k]
        PROVE  j = k
    <2>1. \A i, h \in 1..m : i < h => f[i] < f[h]
      BY <1>1 DEF Picks
    <2>2. f[j] \in Int /\ f[k] \in Int
      BY <1>3, <1>4
    <2>3. ~(j < k) /\ ~(k < j)
      BY <1>7, <2>1, <2>2
    <2> QED
      BY <1>2, <2>3
  <1>8. Left(u, s, f, K)
    BY <1>2, <1>4, <1>5, <1>6, <1>7 DEF Left
  <1> QED
    BY <1>1, <1>8 DEF u

\* RemoveUnmet leaves the results without a row out, or none at all.
LEMMA RemoveIs ==
    ASSUME TypeOK, RemoveUnmet
    PROVE  /\ results' = Kept(results, Remain)
           /\ query' = query /\ level' = level /\ data' = data /\ before' = before /\ ok' = ok
           /\ phase = "load" /\ phase' = "loaded" /\ (ok => rows = << >>)
  <1>1. results \in Seq(Result)
    BY DEF TypeOK
  <1>2. CASE query.showAll
    <2>1. DOMAIN results \subseteq Remain
      BY <1>2 DEF Remain
    <2>2. Kept(results, Remain) = results
      BY <1>1, <2>1, KeptAll
    <2> QED
      BY <1>2, <2>2 DEF RemoveUnmet
  <1>3. CASE ~query.showAll
    <2>1. Remain = {k \in DOMAIN results : results[k].met}
      BY <1>3 DEF Remain
    <2>2. Met(results) = Kept(results, Remain)
      BY <2>1 DEF Met
    <2> QED
      BY <1>3, <2>2 DEF RemoveUnmet
  <1> QED
    BY <1>2, <1>3

\* All were read then.
LEMMA AllRead ==
    ASSUME TypeOK, LoadInv, rows = << >>
    PROVE  Count = Len(All)
  <1>1. Len(All) \in Nat
    BY AllIs DEF LoadInv
  <1>2. Len(rows) = 0
    BY EmptySeq
  <1> QED
    BY <1>1, <1>2 DEF Count

LEMMA RowIsNot == \A r \in Row : r # NoRow
  BY DEF Row, NoRow, Dates, NoDate

\* What the results of a feature hold for a level
RowsAt(u, l, id) == {u[j].data[l] : j \in {k \in DOMAIN u : u[k].active = id}}

\* V is what is left of the results of a feature: its rows, or none.
RowsLeft(V, s, K, l, T, id) ==
    /\ \A r \in V : r # NoRow => r \in T[id]
    /\ NoRow \in V => /\ T[id] = {}
                      /\ \E k \in K : k \in DOMAIN s /\ s[k].active = id /\ s[k].met = FALSE
    /\ T[id] = {} /\ DOMAIN s \subseteq K => NoRow \in V
    /\ \A k \in DOMAIN s : s[k].active = id /\ T[id] # {} => s[k].data[l] \in V

LEMMA FilledLeft ==
    ASSUME NEW s, NEW u, NEW f, NEW K, NEW l, NEW T, Left(u, s, f, K), Filled(s, l, T),
           \A k \in DOMAIN s : s[k].met = TRUE => k \in K,
           NEW id \in DOMAIN T, T[id] \subseteq Row,
           NEW V, V = RowsAt(u, l, id)
    PROVE  RowsLeft(V, s, K, l, T, id)
  <1>1. ASSUME NEW r \in V
        PROVE  \E k \in K : /\ k \in DOMAIN s /\ s[k].active = id /\ r = s[k].data[l]
                            /\ T[id] = {} => r = NoRow /\ s[k].met = FALSE
                            /\ T[id] # {} => r \in T[id]
    <2>1. PICK j \in DOMAIN u : u[j].active = id /\ r = u[j].data[l]
      BY DEF RowsAt
    <2>2. f[j] \in K /\ f[j] \in DOMAIN s /\ u[j] = s[f[j]]
      BY <2>1 DEF Left
    <2> QED
      BY <2>1, <2>2 DEF Filled
  <1>2. ASSUME NEW k \in DOMAIN s, k \in K, s[k].active = id
        PROVE  s[k].data[l] \in V
    <2>1. PICK j \in DOMAIN u : f[j] = k
      BY <1>2 DEF Left
    <2>2. u[j] = s[k]
      BY <2>1 DEF Left
    <2> QED
      BY <1>2, <2>2 DEF RowsAt
  <1>3. \A r \in V : r # NoRow => r \in T[id]
    BY <1>1
  <1>4. ASSUME NoRow \in V
        PROVE  T[id] = {} /\ \E k \in K : k \in DOMAIN s /\ s[k].active = id /\ s[k].met = FALSE
    <2>1. T[id] = {}
      BY <1>1, <1>4, RowIsNot
    <2> QED
      BY <1>1, <1>4, <2>1
  <1>5. ASSUME T[id] = {}, DOMAIN s \subseteq K
        PROVE  NoRow \in V
    <2>1. PICK k \in DOMAIN s : s[k].active = id
      BY DEF Filled
    <2>2. s[k].data[l] = NoRow
      BY <1>5, <2>1 DEF Filled
    <2> QED
      BY <1>2, <1>5, <2>1, <2>2
  <1>6. ASSUME NEW k \in DOMAIN s, s[k].active = id, T[id] # {}
        PROVE  s[k].data[l] \in V
    <2>1. k \in K
      BY <1>6 DEF Filled
    <2> QED
      BY <1>2, <1>6, <2>1
  <1> QED
    BY <1>3, <1>4, <1>5, <1>6 DEF RowsLeft

\* No row twice, unless another has its date
LEMMA OwnTimes ==
    ASSUME NEW s, NEW u, NEW f, NEW K, NEW l, NEW T, NEW D, Left(u, s, f, K),
           OwnShown(s, l, T, D), NEW id, NEW r,
           NEW J, J = {j \in DOMAIN u : u[j].active = id /\ u[j].data[l] = r}, J # {}
    PROVE  Cardinality(J) = 1 \/ \E q \in D[id] \ {r} : q.date = r.date
  <1> SUFFICES ASSUME ~\E q \in D[id] \ {r} : q.date = r.date
               PROVE  Cardinality(J) = 1
    OBVIOUS
  <1>1. PICK i \in J : TRUE
    OBVIOUS
  <1>2. ASSUME NEW j \in J
        PROVE  j = i
    <2>1. /\ i \in DOMAIN u /\ j \in DOMAIN u
          /\ u[i].active = id /\ u[i].data[l] = r /\ u[j].active = id /\ u[j].data[l] = r
      OBVIOUS
    <2>2. /\ f[i] \in DOMAIN s /\ u[i] = s[f[i]] /\ f[j] \in DOMAIN s /\ u[j] = s[f[j]]
          /\ f[j] = f[i] => j = i
      BY <2>1 DEF Left
    <2>3. f[j] = f[i]
      BY <2>1, <2>2 DEF OwnShown
    <2> QED
      BY <2>2, <2>3
  <1>3. J = {i}
    BY <1>1, <1>2
  <1> QED
    BY <1>3, FS_Singleton

\* What RowsShown says of the list u, of one feature
OwnTable(u, id) ==
    LET V == {u[j].data[level] : j \in {k \in DOMAIN u : u[k].active = id}}
    IN  /\ \A r \in V \ {NoRow} : r \in data[id] /\ r.meets /\ InRange(r.date)
        /\ Precise =>
              /\ V \ {NoRow} = Chosen(id)
              /\ NoRow \in V <=> query.showAll /\ Chosen(id) = {}
              /\ \A r \in V : \/ Cardinality({j \in DOMAIN u :
                                    u[j].active = id /\ u[j].data[level] = r}) = 1
                              \/ \E q \in data[id] \ {r} : q.date = r.date

\* RemoveUnmet: the rows of a feature, on the query's own type
LEMMA OwnTableLeft ==
    ASSUME TypeOK, LoadInv, Count = Len(All), level = 1,
           NEW u, NEW f, Left(u, results, f, Remain), NEW id \in DOMAIN data
    PROVE  OwnTable(u, id)
  <1> DEFINE V == {u[j].data[level] : j \in {k \in DOMAIN u : u[k].active = id}}
             T == Taken
  <1>1. /\ TableOK /\ Count \in Nat /\ Count <= Len(All) /\ Filled(results, level, T)
        /\ query \in Queries /\ DOMAIN T = DOMAIN data
    BY AllIs DEF LoadInv, TypeOK, Taken, RowsOf
  <1>2. \A r \in T[id] : r \in data[id] /\ r \in Row /\ CheckConditions(r)
    BY <1>1, TakenIn
  <1>3. \A k \in DOMAIN results : results[k].met = TRUE => k \in Remain
    BY DEF Remain
  <1>4. query.showAll => DOMAIN results \subseteq Remain
    BY DEF Remain
  <1>5. \A k \in Remain : results[k].met = FALSE => query.showAll
    BY DEF Remain
  <1>6. T[id] \subseteq Row
    BY <1>2
  <1> HIDE DEF V, T
  <1>r. RowsLeft(V, results, Remain, level, T, id)
    <2>1. V = RowsAt(u, level, id)
      BY DEF V, RowsAt
    <2>2. id \in DOMAIN T
      BY <1>1
    <2> QED
      BY <1>1, <1>3, <1>6, <2>1, <2>2, FilledLeft
  <1>7. /\ \A r \in V : r # NoRow => r \in T[id]
        /\ NoRow \in V => /\ T[id] = {}
                          /\ \E k \in Remain : /\ k \in DOMAIN results /\ results[k].active = id
                                               /\ results[k].met = FALSE
        /\ T[id] = {} /\ DOMAIN results \subseteq Remain => NoRow \in V
        /\ \A k \in DOMAIN results :
              results[k].active = id /\ T[id] # {} => results[k].data[level] \in V
    BY <1>r DEF RowsLeft
  <1>8. \A r \in V \ {NoRow} : r \in data[id] /\ r.meets /\ InRange(r.date)
    BY <1>2, <1>7 DEF CheckConditions, InRange
  <1>9. ASSUME Precise
        PROVE  /\ V \ {NoRow} = Chosen(id)
               /\ NoRow \in V <=> query.showAll /\ Chosen(id) = {}
               /\ \A r \in V : \/ Cardinality({j \in DOMAIN u :
                                     u[j].active = id /\ u[j].data[level] = r}) = 1
                               \/ \E q \in data[id] \ {r} : q.date = r.date
    <2>1. T[id] = Chosen(id)
      BY <1>1, <1>9, TakenAll DEF T
    <2>2. OwnShown(results, level, T, data)
      BY <1>9 DEF LoadInv, T
    <2>3. \A r \in T[id] : r \in V
      BY <1>1, <1>7, <2>2 DEF OwnShown
    <2>4. V \ {NoRow} = Chosen(id)
      BY <1>2, <1>7, <2>1, <2>3, RowIsNot
    <2>5. NoRow \in V <=> query.showAll /\ Chosen(id) = {}
      BY <1>4, <1>5, <1>7, <2>1
    <2>6. ASSUME NEW r \in V
          PROVE  \/ Cardinality({j \in DOMAIN u :
                                    u[j].active = id /\ u[j].data[level] = r}) = 1
                 \/ \E q \in data[id] \ {r} : q.date = r.date
      <3> DEFINE J == {j \in DOMAIN u : u[j].active = id /\ u[j].data[level] = r}
      <3>1. J # {}
        BY <2>6 DEF V
      <3> HIDE DEF J
      <3>2. J = {j \in DOMAIN u : u[j].active = id /\ u[j].data[level] = r}
        BY DEF J
      <3>3. Cardinality(J) = 1 \/ \E q \in data[id] \ {r} : q.date = r.date
        BY <2>2, <3>1, <3>2, OwnTimes
      <3> QED
        BY <3>3 DEF J
    <2> QED
      BY <2>4, <2>5, <2>6
  <1> QED
    BY <1>8, <1>9 DEF OwnTable, V

LEMMA OwnTableIs ==
    ASSUME query' = query, level' = level, data' = data, level = 1,
           \A id \in DOMAIN data : OwnTable(results', id)
    PROVE  RowsShown'
  <1> SUFFICES ASSUME NEW id \in DOMAIN data'
               PROVE  (/\ \A r \in Shown(id) \ {NoRow} :
                            r \in data[id] /\ r.meets /\ InRange(r.date)
                       /\ Precise =>
                            /\ Shown(id) \ {NoRow} = Chosen(id)
                            /\ NoRow \in Shown(id) <=> query.showAll /\ Chosen(id) = {}
                            /\ \A r \in Shown(id) : \/ Times(id, r) = 1
                                                    \/ \E q \in data[id] \ {r} :
                                                          q.date = r.date)'
    BY DEF RowsShown
  <1> DEFINE V == {results'[j].data[level] : j \in {k \in DOMAIN results' :
                                                        results'[k].active = id}}
             N(r) == Cardinality({j \in DOMAIN results' :
                                    results'[j].active = id /\ results'[j].data[level] = r})
  <1>1. /\ \A r \in V \ {NoRow} : r \in data[id] /\ r.meets /\ InRange(r.date)
        /\ Precise =>
              /\ V \ {NoRow} = Chosen(id)
              /\ NoRow \in V <=> query.showAll /\ Chosen(id) = {}
              /\ \A r \in V : N(r) = 1 \/ \E q \in data[id] \ {r} : q.date = r.date
    BY DEF OwnTable
  <1>2. Shown(id)' = V
    BY DEF Shown
  <1>3. Chosen(id)' = Chosen(id)
    BY DEF Chosen, InRange
  <1>4. \A r : InRange(r.date)' <=> InRange(r.date)
    BY DEF InRange
  <1>5. Precise' <=> Precise
    BY DEF Precise
  <1>6. \A r : Times(id, r)' = N(r)
    BY DEF Times
  <1> HIDE DEF V, N
  <1>7. (\A r \in Shown(id) \ {NoRow} : r \in data[id] /\ r.meets /\ InRange(r.date))'
    BY <1>1, <1>2, <1>4
  <1>8. ASSUME Precise'
        PROVE  (/\ Shown(id) \ {NoRow} = Chosen(id)
                /\ NoRow \in Shown(id) <=> query.showAll /\ Chosen(id) = {}
                /\ \A r \in Shown(id) : \/ Times(id, r) = 1
                                        \/ \E q \in data[id] \ {r} : q.date = r.date)'
    BY <1>1, <1>2, <1>3, <1>5, <1>6, <1>8
  <1> QED
    BY <1>7, <1>8

\* What ParentsJoined says of the list u
ParentTable(u) ==
    /\ \A j \in DOMAIN u : u[j].data[level] # NoRow => u[j].data[level] \in Chosen(u[j].active)
    /\ SingleRows =>
          [j \in DOMAIN u |-> u[j].data] =
          LET kept == Kept(before, {k \in DOMAIN before :
                          query.showAll \/ RowFor(before[k].active) # {}})
          IN  [j \in DOMAIN kept |-> Expected(kept[j])]
    /\ \A k \in DOMAIN before : RowFor(before[k].active) # {} =>
          \E j \in DOMAIN u :
              /\ u[j].active = before[k].active
              /\ u[j].data[level] # NoRow
              /\ \A l \in 1..level - 1 : u[j].data[l] = before[k].data[l]

LEMMA SameRange ==
    ASSUME NEW m \in Nat, NEW n \in Nat, 1..m = 1..n
    PROVE  m = n
  <1>1. ASSUME m < n PROVE FALSE
    <2>1. n \in 1..n /\ n \notin 1..m
      BY <1>1
    <2> QED
      BY <2>1
  <1>2. ASSUME n < m PROVE FALSE
    <2>1. m \in 1..m /\ m \notin 1..n
      BY <1>2
    <2> QED
      BY <2>1
  <1> QED
    BY <1>1, <1>2

\* The row of a parent is the one its results hold.
LEMMA RowForIs ==
    ASSUME TypeOK, LoadInv, Count = Len(All), Precise, SingleRows, level > 1,
           NEW k \in DOMAIN results
    PROVE  /\ k \in DOMAIN before /\ results[k].active = before[k].active
           /\ results[k].data = Expected(before[k])
           /\ RowFor(before[k].active) # {} <=> results[k].met = TRUE
           /\ results[k].met \in BOOLEAN
  <1> DEFINE id == results[k].active
             x == results[k].data[level]
             b == before[k]
             T == Taken
             S == RowFor(id)
  <1>1. /\ TableOK /\ query \in Queries /\ level \in Levels
        /\ Filled(results, level, T) /\ Single(results, before, level, LastOnly, T)
        /\ CleanFrom(before, level) /\ before \in Seq(Result) /\ results \in Seq(Result)
    BY DEF LoadInv, TypeOK
  <1>2. DOMAIN T = DOMAIN data
    BY DEF Taken, RowsOf
  <1>3. k \in DOMAIN before /\ b \in Result /\ results[k] \in Result
    BY <1>1, ResultList DEF Single
  <1>4. id \in DOMAIN data /\ b.active = id
    BY <1>1, <1>2 DEF Filled, Single
  <1>5. T[id] = Chosen(id)
    BY <1>1, <1>4, TakenAll
  <1>6. S \subseteq Chosen(id)
    BY DEF RowFor
  <1>7. results[k].data = [b.data EXCEPT ![level] = x]
    BY <1>1 DEF Single
  <1>8. CASE T[id] = {}
    <2>1. S = {} /\ x = NoRow /\ results[k].met = FALSE
      BY <1>1, <1>5, <1>6, <1>8 DEF Filled
    <2>2. b.data[level] = NoRow
      <3>1. level >= level
        BY <1>1, Constants
      <3> QED
        BY <1>1, <1>3, <3>1 DEF CleanFrom
    <2>3. b.data \in [Levels -> Row \cup {NoRow}]
      BY <1>3 DEF Result
    <2> HIDE DEF b, x, S, id
    <2>4. results[k].data = b.data
      BY <1>7, <2>1, <2>2, <2>3
    <2> QED
      BY <1>3, <1>4, <2>1, <2>4 DEF Expected, S, b, id
  <1>9. CASE T[id] # {}
    <2>1. results[k].met = TRUE /\ x \in Chosen(id)
      BY <1>1, <1>5, <1>9 DEF Filled
    <2>2. LastOnly => IsLast(x, Chosen(id))
      BY <1>1, <1>5, <1>9 DEF Single
    <2>3. x \in S
      BY <2>1, <2>2 DEF RowFor, LastOnly
    <2>4. IsFiniteSet(S) /\ Cardinality(S) <= 1
      <3>1. IsFiniteSet(data[id]) /\ S \subseteq data[id]
        BY <1>1, <1>4, <1>6 DEF TableOK, Chosen
      <3>2. IsFiniteSet(S)
        BY <3>1, FS_Subset
      <3> QED
        BY <1>4, <3>2 DEF SingleRows
    <2> HIDE DEF S, x, b, id, T
    <2>5. \A y \in S : y = x
      <3>1. Cardinality(S) \in Nat /\ (Cardinality(S) > 1 <=> \E y \in S : y # x)
        BY <2>3, <2>4, TwoOf
      <3> QED
        BY <2>4, <3>1
    <2>6. (CHOOSE r \in S : TRUE) = x
      BY <2>3, <2>5
    <2>7. Expected(b) = [b.data EXCEPT ![level] = x]
      <3>1. RowFor(b.active) = S
        BY <1>4 DEF S
      <3>2. S # {}
        BY <2>3
      <3> QED
        BY <2>6, <3>1, <3>2 DEF Expected
    <2>8. RowFor(b.active) # {}
      BY <1>4, <2>3 DEF S
    <2> QED
      BY <1>3, <1>4, <1>7, <2>1, <2>7, <2>8 DEF b, id
  <1> QED
    BY <1>8, <1>9

\* RemoveUnmet: the rows of the parents
LEMMA ParentTableLeft ==
    ASSUME TypeOK, LoadInv, Count = Len(All), Precise, level > 1,
           NEW u, u = Kept(results, Remain)
    PROVE  ParentTable(u)
  <1> DEFINE T == Taken
             R == Remain
  <1>1. /\ TableOK /\ query \in Queries /\ level \in Levels
        /\ Filled(results, level, T) /\ Children(results, before, level)
        /\ before \in Seq(Result) /\ results \in Seq(Result)
    BY DEF LoadInv, TypeOK
  <1>2. DOMAIN T = DOMAIN data
    BY DEF Taken, RowsOf
  <1>3. \A id \in DOMAIN T : T[id] = Chosen(id) /\ T[id] \subseteq Row
    <2>1. \A id \in DOMAIN data : Taken[id] = Chosen(id)
      BY <1>1, TakenAll
    <2>2. \A id \in DOMAIN data : data[id] \subseteq Row
      BY <1>1 DEF TableOK
    <2> QED
      BY <1>2, <2>1, <2>2 DEF Chosen
  <1>4. \A k \in DOMAIN results : results[k].met = TRUE => k \in R
    BY DEF Remain
  <1>5. PICK f : Left(u, results, f, R)
    BY <1>1, KeptLeft
  <1> HIDE DEF T, R
  <1>6. ASSUME NEW j \in DOMAIN u, u[j].data[level] # NoRow
        PROVE  u[j].data[level] \in Chosen(u[j].active)
    <2>1. f[j] \in DOMAIN results /\ u[j] = results[f[j]]
      BY <1>5 DEF Left
    <2>2. u[j].active \in DOMAIN T /\ u[j].data[level] \in T[u[j].active]
      BY <1>1, <1>6, <2>1 DEF Filled
    <2> QED
      BY <1>3, <2>2
  <1>7. ASSUME NEW k \in DOMAIN before, RowFor(before[k].active) # {}
        PROVE  \E j \in DOMAIN u :
                  /\ u[j].active = before[k].active
                  /\ u[j].data[level] # NoRow
                  /\ \A l \in 1..level - 1 : u[j].data[l] = before[k].data[l]
    <2>1. PICK i \in DOMAIN results :
             /\ results[i].active = before[k].active
             /\ \A l \in 1..level - 1 : results[i].data[l] = before[k].data[l]
      BY <1>1 DEF Children
    <2>2. results[i].active \in DOMAIN T /\ T[results[i].active] # {}
      BY <1>1, <1>3, <1>7, <2>1 DEF RowFor, Filled
    <2>3. results[i].met = TRUE /\ results[i].data[level] \in T[results[i].active]
      BY <1>1, <2>2 DEF Filled
    <2>4. results[i].data[level] # NoRow
      BY <1>3, <2>2, <2>3, RowIsNot
    <2>5. PICK j \in DOMAIN u : f[j] = i
      BY <1>4, <1>5, <2>3 DEF Left
    <2>6. u[j] = results[i]
      BY <1>5, <2>5 DEF Left
    <2> QED
      BY <2>1, <2>4, <2>6
  <1>8. ASSUME SingleRows
        PROVE  [j \in DOMAIN u |-> u[j].data] =
               LET kept == Kept(before, {k \in DOMAIN before :
                              query.showAll \/ RowFor(before[k].active) # {}})
               IN  [j \in DOMAIN kept |-> Expected(kept[j])]
    <2> DEFINE K == {k \in DOMAIN before : query.showAll \/ RowFor(before[k].active) # {}}
               v == Kept(before, K)
    <2>1. \A k \in DOMAIN results :
             /\ results[k].data = Expected(before[k])
             /\ RowFor(before[k].active) # {} <=> results[k].met
      BY <1>8, RowForIs
    <2>2. DOMAIN results = DOMAIN before
      BY <1>8 DEF LoadInv, Single
    <2>3. K = Remain
      BY <2>1, <2>2 DEF Remain
    <2>4. Len(results) = Len(before) /\ Len(results) \in Nat /\ DOMAIN results = 1..Len(results)
      <3>1. /\ Len(results) \in Nat /\ DOMAIN results = 1..Len(results)
            /\ Len(before) \in Nat /\ DOMAIN before = 1..Len(before)
        BY <1>1, LenProperties
      <3>2. 1..Len(results) = 1..Len(before)
        BY <2>2, <3>1
      <3> QED
        BY <3>1, <3>2, SameRange
    <2>5. PICK g, m : /\ Picks(g, m, Len(results), K)
                      /\ u \in Seq(Result) /\ Picked(u, results, g, m)
                      /\ v \in Seq(Result) /\ Picked(v, before, g, m)
      <3>1. u = Kept(results, K)
        BY <2>3
      <3> HIDE DEF K
      <3> QED
        BY <1>1, <2>4, <3>1, KeptBoth
    <2> HIDE DEF K, v
    <2>6. DOMAIN u = 1..m /\ DOMAIN v = 1..m
      BY <2>5, LenProperties DEF Picked
    <2>7. ASSUME NEW j \in 1..m
          PROVE  u[j].data = Expected(v[j])
      <3>1. g[j] \in DOMAIN results
        BY <2>4, <2>5 DEF Picks
      <3>2. u[j] = results[g[j]] /\ v[j] = before[g[j]]
        BY <2>5 DEF Picked
      <3> QED
        BY <2>1, <3>1, <3>2
    <2>8. [j \in DOMAIN u |-> u[j].data] = [j \in DOMAIN v |-> Expected(v[j])]
      BY <2>6, <2>7
    <2> QED
      BY <2>8 DEF K, v
  <1> QED
    BY <1>6, <1>7, <1>8 DEF ParentTable

LEMMA ParentTableIs ==
    ASSUME query' = query, level' = level, data' = data, before' = before,
           Precise => ParentTable(results')
    PROVE  ParentsJoined'
  <1> SUFFICES ASSUME Precise'
               PROVE  (/\ \A j \in DOMAIN results :
                            LET r == results[j].data[level] IN
                            r # NoRow => r \in Chosen(results[j].active)
                       /\ SingleRows =>
                            [j \in DOMAIN results |-> results[j].data] =
                            LET kept == Kept(before, {k \in DOMAIN before :
                                      query.showAll \/ RowFor(before[k].active) # {}})
                            IN  [j \in DOMAIN kept |-> Expected(kept[j])]
                       /\ \A k \in DOMAIN before : RowFor(before[k].active) # {} =>
                            \E j \in DOMAIN results :
                                /\ results[j].active = before[k].active
                                /\ results[j].data[level] # NoRow
                                /\ \A l \in 1..level - 1 :
                                      results[j].data[l] = before[k].data[l])'
    BY DEF ParentsJoined
  <1>1. ParentTable(results')
    BY Frame
  <1>2. \A id : Chosen(id)' = Chosen(id)
    BY DEF Chosen, InRange
  <1>3. \A id : RowFor(id)' = RowFor(id)
    BY <1>2 DEF RowFor
  <1>4. SingleRows' <=> SingleRows
    BY Frame
  <1>5. \A b : Expected(b)' = Expected(b)
    BY <1>3 DEF Expected
  <1>6. (\A j \in DOMAIN results :
            LET r == results[j].data[level] IN
            r # NoRow => r \in Chosen(results[j].active))'
    BY <1>1, <1>2 DEF ParentTable
  <1>7. (SingleRows =>
            [j \in DOMAIN results |-> results[j].data] =
            LET kept == Kept(before, {k \in DOMAIN before :
                            query.showAll \/ RowFor(before[k].active) # {}})
            IN  [j \in DOMAIN kept |-> Expected(kept[j])])'
    <2> DEFINE v == Kept(before, {k \in DOMAIN before :
                            query.showAll \/ RowFor(before[k].active) # {}})
    <2>1. v' = v
      BY <1>3 DEF Kept
    <2>2. SingleRows => [j \in DOMAIN results' |-> results'[j].data] =
                        [j \in DOMAIN v |-> Expected(v[j])]
      BY <1>1 DEF ParentTable
    <2> HIDE DEF v
    <2>3. (SingleRows => [j \in DOMAIN results |-> results[j].data] =
                         [j \in DOMAIN v |-> Expected(v[j])])'
      BY <1>4, <1>5, <2>1, <2>2
    <2> QED
      BY <2>3 DEF v
  <1>8. (\A k \in DOMAIN before : RowFor(before[k].active) # {} =>
            \E j \in DOMAIN results :
                /\ results[j].active = before[k].active
                /\ results[j].data[level] # NoRow
                /\ \A l \in 1..level - 1 : results[j].data[l] = before[k].data[l])'
    BY <1>1, <1>3 DEF ParentTable
  <1> QED
    BY <1>6, <1>7, <1>8

-----------------------------------------------------------------------------
(* Every step *)

LEMMA BlankPrimed ==
    /\ BlankInv' <=> /\ phase' = "begin" => /\ CleanFrom(results', level') /\ Undated(results')
                                            /\ level' = 1 => Distinct(results')
                     /\ phase' \in {"load", "loaded", "skipped"} =>
                           CleanFrom(results', level' + 1)
  BY DEF BlankInv, CleanFrom, Undated, Distinct

\* InitFeatures: the results are of as many features and hold nothing.
LEMMA InitBlank ==
    ASSUME InitFeatures
    PROVE  BlankInv'
  <1>0. PICK n \in Ids, up \in [Ids -> Ids] : \E ids \in [1..n -> Ids] :
          /\ \A j, k \in 1..n : j < k => ids[j] < ids[k]
          /\ results' = [j \in 1..n |->
                            [active |-> ids[j], next |-> up[ids[j]],
                             name |-> ids[j],
                             names |-> [l \in Levels |-> NoName],
                             data |-> [l \in Levels |-> NoRow],
                             date |-> NoDate, met |-> FALSE,
                             self |-> ids[j], parent |-> up[ids[j]]]]
    BY DEF InitFeatures
  <1>1. PICK ids \in [1..n -> Ids] :
          /\ \A j, k \in 1..n : j < k => ids[j] < ids[k]
          /\ results' = [j \in 1..n |->
                            [active |-> ids[j], next |-> up[ids[j]],
                             name |-> ids[j],
                             names |-> [l \in Levels |-> NoName],
                             data |-> [l \in Levels |-> NoRow],
                             date |-> NoDate, met |-> FALSE,
                             self |-> ids[j], parent |-> up[ids[j]]]]
    BY <1>0
  <1> DEFINE s == results'
  <1>2. DOMAIN s = 1..n /\ n \in Nat
    BY <1>1, Constants
  <1>3. \A j \in 1..n : /\ s[j].active = ids[j] /\ s[j].date = NoDate
                        /\ s[j].data = [l \in Levels |-> NoRow]
    BY <1>1
  <1> HIDE DEF s
  <1>4. \A l : CleanFrom(s, l)
    BY <1>2, <1>3 DEF CleanFrom
  <1>5. Undated(s)
    BY <1>2, <1>3 DEF Undated
  <1>6. Distinct(s)
    <2> SUFFICES ASSUME NEW j \in 1..n, NEW k \in 1..n, ids[j] = ids[k] PROVE j = k
      BY <1>2, <1>3 DEF Distinct
    <2>1. ids[j] \in Int /\ ids[k] \in Int
      BY Constants
    <2>2. ~(j < k) /\ ~(k < j)
      BY <1>1, <2>1
    <2> QED
      BY <1>2, <2>2
  <1>7. phase' = "begin"
    BY DEF InitFeatures
  <1> QED
    BY <1>4, <1>5, <1>6, <1>7, BlankPrimed DEF s

\* The parents become active; what the results hold stays.
LEMMA ParentsData ==
    ASSUME NEW up, results \in Seq(Result)
    PROVE  /\ DOMAIN Parents(up) = DOMAIN results
           /\ \A j \in DOMAIN results : Parents(up)[j].data = results[j].data
  <1> DEFINE moved == [j \in DOMAIN results |-> Moved(results[j])]
             found == {j \in DOMAIN moved :
                          LET k == FindSorted(moved, moved[j].active)
                          IN  k # 0 /\ j \in From(moved, k)}
             t == Parents(up)
  <1>1. t = [j \in DOMAIN moved |->
               [moved[j] EXCEPT
                   !.next = IF j \in found THEN up[moved[j].active] ELSE @,
                   !.name = IF j \in found THEN moved[j].active ELSE @,
                   !.parent = up[moved[j].self]]]
    BY DEF Parents
  <1>2. \A j \in DOMAIN results : moved[j] = Moved(results[j])
    OBVIOUS
  <1>3. DOMAIN moved = DOMAIN results
    OBVIOUS
  <1> HIDE DEF moved, found
  <1>4. ASSUME NEW j \in DOMAIN results
        PROVE  moved[j].data = results[j].data
    <2>1. results[j] \in Result
      BY ResultList
    <2> QED
      BY <1>2, <2>1 DEF Moved, Result
  <1>5. ASSUME NEW j \in DOMAIN results
        PROVE  t[j].data = moved[j].data
    <2>1. results[j] \in Result
      BY ResultList
    <2>2. moved[j] \in Result
      BY <1>2, <2>1, MovedIs
    <2> DEFINE x == IF j \in found THEN up[moved[j].active] ELSE moved[j].next
               y == IF j \in found THEN moved[j].active ELSE moved[j].name
               z == up[moved[j].self]
               r == moved[j]
    <2>3. t[j] = [r EXCEPT !.next = x, !.name = y, !.parent = z]
      BY <1>1, <1>3
    <2> HIDE DEF x, y, z, r
    <2>4. r \in Result
      BY <2>2 DEF r
    <2>5. t[j].data = r.data
      BY <2>3, <2>4 DEF Result
    <2> QED
      BY <2>5 DEF r
  <1> QED
    BY <1>1, <1>3, <1>4, <1>5

LEMMA DatelessData ==
    ASSUME NEW s \in Seq(Result), NEW t, t = Dateless(s)
    PROVE  /\ DOMAIN t = DOMAIN s /\ Undated(t)
           /\ \A j \in DOMAIN s : t[j].data = s[j].data
  <1>1. DOMAIN t = DOMAIN s /\ \A j \in DOMAIN s : t[j] = [s[j] EXCEPT !.date = NoDate]
    BY DEF Dateless
  <1>2. ASSUME NEW j \in DOMAIN s
        PROVE  t[j].data = s[j].data /\ t[j].date = NoDate
    <2>1. s[j] \in Result
      BY ResultList
    <2> QED
      BY <1>1, <2>1 DEF Result
  <1> QED
    BY <1>1, <1>2 DEF Undated

\* NextType: there is nothing yet for the parent type.
LEMMA NextBlank ==
    ASSUME TypeOK, BlankInv, NextType
    PROVE  BlankInv' /\ phase' \in {"begin", "done"}
  <1>1. results \in Seq(Result) /\ level \in Levels /\ level \in Nat /\ level > 0
    BY Constants DEF TypeOK
  <1>2. CleanFrom(results, level + 1)
    BY DEF BlankInv, NextType
  <1>3. \/ /\ level' = level + 1 /\ phase' = "begin"
           /\ \E up \in [Ids -> Ids] : results' = Dateless(Parents(up))
        \/ level' = level + 1 /\ phase' = "begin" /\ results' = Dateless(results)
        \/ phase' = "done"
    BY DEF NextType
  <1>4. ASSUME level' = level + 1, phase' = "begin", NEW s \in Seq(Result),
               DOMAIN s = DOMAIN results, \A j \in DOMAIN results : s[j].data = results[j].data,
               results' = Dateless(s)
        PROVE  BlankInv' /\ phase' \in {"begin", "done"}
    <2> DEFINE t == results'
    <2>1. /\ DOMAIN t = DOMAIN s /\ Undated(t)
          /\ \A j \in DOMAIN s : t[j].data = s[j].data
      BY <1>4, DatelessData
    <2> HIDE DEF t
    <2>2. CleanFrom(t, level + 1)
      BY <1>2, <1>4, <2>1 DEF CleanFrom
    <2>3. level' # 1
      BY <1>1, <1>4
    <2> QED
      BY <1>4, <2>1, <2>2, <2>3, BlankPrimed DEF t
  <1>5. CASE /\ level' = level + 1 /\ phase' = "begin"
             /\ \E up \in [Ids -> Ids] : results' = Dateless(Parents(up))
    <2>1. PICK up \in [Ids -> Ids] : results' = Dateless(Parents(up))
      BY <1>5
    <2>2. /\ DOMAIN Parents(up) = DOMAIN results
          /\ \A j \in DOMAIN results : Parents(up)[j].data = results[j].data
      BY <1>1, ParentsData
    <2>3. Parents(up) \in Seq(Result)
      BY <1>1, ParentsList
    <2> QED
      BY <1>4, <1>5, <2>1, <2>2, <2>3
  <1>6. CASE level' = level + 1 /\ phase' = "begin" /\ results' = Dateless(results)
    BY <1>1, <1>4, <1>6
  <1>7. CASE phase' = "done"
    BY <1>7, BlankPrimed
  <1> QED
    BY <1>3, <1>5, <1>6, <1>7

\* RemoveUnmet: what it leaves is the table.
LEMMA RemoveShows ==
    ASSUME TypeOK, BlankInv, LoadInv, RemoveUnmet
    PROVE  BlankInv' /\ phase' = "loaded" /\ RowsShown' /\ ParentsJoined'
  <1>1. /\ results' = Kept(results, Remain)
        /\ query' = query /\ level' = level /\ data' = data /\ before' = before /\ ok' = ok
        /\ phase = "load" /\ phase' = "loaded" /\ (ok => rows = << >>)
    BY RemoveIs
  <1> DEFINE u == results'
  <1>2. results \in Seq(Result) /\ level \in Levels /\ level \in Nat /\ level > 0
    BY Constants DEF TypeOK
  <1>3. PICK f : Left(u, results, f, Remain)
    BY <1>1, <1>2, KeptLeft
  <1>4. CleanFrom(results, level + 1)
    BY <1>1 DEF BlankInv
  <1> HIDE DEF u
  <1>5. CleanFrom(u, level + 1)
    BY <1>3, <1>4 DEF CleanFrom, Left
  <1>6. BlankInv'
    BY <1>1, <1>5, BlankPrimed DEF u
  <1>7. CASE ~ok
    BY <1>1, <1>6, <1>7 DEF RowsShown, ParentsJoined
  <1>8. CASE ok
    <2>1. Count = Len(All)
      BY <1>1, <1>8, AllRead
    <2>2. RowsShown'
      <3>1. CASE level = 1
        <4>1. \A id \in DOMAIN data : OwnTable(u, id)
          BY <1>3, <2>1, <3>1, OwnTableLeft
        <4> QED
          BY <1>1, <3>1, <4>1, OwnTableIs DEF u
      <3>2. CASE level # 1
        BY <1>1, <3>2 DEF RowsShown
      <3> QED
        BY <3>1, <3>2
    <2>3. ParentsJoined'
      <3>1. CASE level > 1
        <4>1. u = Kept(results, Remain)
          BY <1>1 DEF u
        <4>2. Precise => ParentTable(u)
          BY <2>1, <3>1, <4>1, ParentTableLeft
        <4> QED
          BY <1>1, <4>2, ParentTableIs DEF u
      <3>2. CASE ~(level > 1)
        BY <1>1, <3>2 DEF ParentsJoined
      <3> QED
        BY <3>1, <3>2
    <2> QED
      BY <1>1, <1>6, <2>2, <2>3
  <1> QED
    BY <1>7, <1>8

LEMMA LoadSame ==
    ASSUME LoadInv, UNCHANGED vars
    PROVE  LoadInv'
  <1>1. /\ query' = query /\ level' = level /\ data' = data /\ rows' = rows
        /\ results' = results /\ before' = before
    BY DEF vars
  <1>2. /\ All' = All /\ Meeting' = Meeting /\ LastOnly' = LastOnly
        /\ TableOK' <=> TableOK
        /\ Precise' <=> Precise
        /\ SingleRows' <=> SingleRows
    BY <1>1, Frame
  <1>3. Count' = Count
    BY <1>1, <1>2 DEF Count
  <1>4. Taken' = Taken
    BY <1>1, <1>2, <1>3 DEF Taken, RowsOf
  <1>5. TableOK' /\ Count' \in Nat /\ \A k \in DOMAIN rows' : rows'[k] = All'[Count' + k]
    BY <1>1, <1>2, <1>3 DEF LoadInv
  <1>6. /\ Filled(results, level, Taken)'
        /\ (level = 1 /\ Precise)' => OwnShown(results, level, Taken, data)'
        /\ (level > 1)' => Children(results, before, level)'
        /\ (level > 1 /\ Precise /\ SingleRows)' =>
              Single(results, before, level, LastOnly, Taken)'
        /\ CleanFrom(before, level)'
    BY <1>1, <1>2, <1>4, LoadPrimed DEF LoadInv
  <1> QED
    BY <1>5, <1>6 DEF LoadInv

LEMMA ShownSame ==
    ASSUME RowsShown, ParentsJoined, UNCHANGED vars
    PROVE  RowsShown' /\ ParentsJoined'
  <1>1. /\ query' = query /\ level' = level /\ data' = data /\ phase' = phase /\ ok' = ok
        /\ results' = results /\ before' = before
    BY DEF vars
  <1>2. RowsShown'
    <2>1. CASE phase = "loaded" /\ level = 1 /\ ok
      <3>1. \A id \in DOMAIN data : OwnTable(results, id)
        BY <2>1 DEF RowsShown, OwnTable, Shown, Times
      <3> QED
        BY <1>1, <2>1, <3>1, OwnTableIs
    <2>2. CASE ~(phase = "loaded" /\ level = 1 /\ ok)
      BY <1>1, <2>2 DEF RowsShown
    <2> QED
      BY <2>1, <2>2
  <1>3. ParentsJoined'
    <2>1. CASE phase = "loaded" /\ level > 1 /\ ok
      <3>1. Precise => ParentTable(results)
        BY <2>1 DEF ParentsJoined, ParentTable
      <3> QED
        BY <1>1, <3>1, ParentTableIs
    <2>2. CASE ~(phase = "loaded" /\ level > 1 /\ ok)
      BY <1>1, <2>2 DEF ParentsJoined
    <2> QED
      BY <2>1, <2>2
  <1> QED
    BY <1>2, <1>3

\* What holds while the table is filled, and of the table
ShownInv ==
    /\ TypeOK
    /\ BlankInv
    /\ phase = "load" => LoadInv
    /\ RowsShown
    /\ ParentsJoined

LEMMA ShownInit == Init => ShownInv
  <1> SUFFICES ASSUME Init PROVE ShownInv
    OBVIOUS
  <1>1. phase = "done"
    BY DEF Init
  <1>2. BlankInv /\ RowsShown /\ ParentsJoined
    BY <1>1 DEF BlankInv, RowsShown, ParentsJoined
  <1> QED
    BY <1>1, <1>2, TypeInit DEF ShownInv

LEMMA ShownNext == ShownInv /\ [Next]_vars => ShownInv'
  <1> SUFFICES ASSUME ShownInv, [Next]_vars PROVE ShownInv'
    OBVIOUS
  <1>0. /\ TypeOK /\ TypeOK' /\ BlankInv /\ RowsShown /\ ParentsJoined
        /\ phase = "load" => LoadInv
    BY TypeNext DEF ShownInv
  <1>a. ASSUME phase' # "loaded" PROVE RowsShown' /\ ParentsJoined'
    BY <1>a DEF RowsShown, ParentsJoined
  <1>1. CASE InitFeatures
    <2>1. phase' = "begin"
      BY <1>1 DEF InitFeatures
    <2>2. BlankInv'
      BY <1>1, InitBlank
    <2> QED
      BY <1>0, <1>a, <2>1, <2>2 DEF ShownInv
  <1>2. CASE LoadDataAll
    <2>1. level' = level /\ phase' \in {"load", "skipped"}
      BY <1>2 DEF LoadDataAll
    <2>2. CleanFrom(results', level + 1) /\ (phase' = "load" => LoadInv')
      BY <1>0, <1>2, LoadStart
    <2>3. BlankInv'
      BY <2>1, <2>2, BlankPrimed
    <2> QED
      BY <1>0, <1>a, <2>1, <2>2, <2>3 DEF ShownInv
  <1>3. CASE NoResults
    <2>1. phase' = "done"
      BY <1>3 DEF NoResults
    <2>2. BlankInv'
      BY <2>1, BlankPrimed
    <2> QED
      BY <1>0, <1>a, <2>1, <2>2 DEF ShownInv
  <1>4. CASE GetNext
    <2>1. phase = "load" /\ phase' = "load" /\ level' = level
      BY <1>4 DEF GetNext
    <2>2. CleanFrom(results, level + 1)
      BY <1>0, <2>1 DEF BlankInv
    <2>3. LoadInv' /\ CleanFrom(results', level + 1)
      BY <1>0, <1>4, <2>1, <2>2, LoadGetNext
    <2>4. BlankInv'
      BY <2>1, <2>3, BlankPrimed
    <2> QED
      BY <1>0, <1>a, <2>1, <2>3, <2>4 DEF ShownInv
  <1>5. CASE RemoveUnmet
    <2>1. LoadInv
      BY <1>0, <1>5 DEF RemoveUnmet
    <2>2. BlankInv' /\ phase' = "loaded" /\ RowsShown' /\ ParentsJoined'
      BY <1>0, <1>5, <2>1, RemoveShows
    <2> QED
      BY <1>0, <2>2 DEF ShownInv
  <1>6. CASE NextType
    <2>1. BlankInv' /\ phase' \in {"begin", "done"}
      BY <1>0, <1>6, NextBlank
    <2> QED
      BY <1>0, <1>a, <2>1 DEF ShownInv
  <1>7. CASE UNCHANGED vars
    <2>1. RowsShown' /\ ParentsJoined'
      BY <1>0, <1>7, ShownSame
    <2>2. phase' = "load" => LoadInv'
      BY <1>0, <1>7, LoadSame DEF vars
    <2>3. BlankInv'
      BY <1>0, <1>7, BlankPrimed DEF vars, BlankInv
    <2> QED
      BY <1>0, <2>1, <2>2, <2>3 DEF ShownInv
  <1> QED
    BY <1>1, <1>2, <1>3, <1>4, <1>5, <1>6, <1>7 DEF Next

\* RowsShown: a feature of the query's own type is shown with the rows that
\* are asked for and no others, each once, whatever rows there are and in
\* whatever order features come: the subquery of GetDefaultSQL, CheckConditions
\* and UpdateDates agree on which rows these are.
THEOREM QueryRowsShown == Spec => []RowsShown
  <1>1. Spec => []ShownInv
    BY ShownInit, ShownNext, PTL DEF Spec
  <1>2. ShownInv => RowsShown
    BY DEF ShownInv
  <1> QED
    BY <1>1, <1>2, PTL

\* ParentsJoined: a parent's row is put into all results of its children, and
\* nothing else of them changes; those of a parent without a row are left out,
\* or shown as they are. No child of a parent with a row is lost.
THEOREM QueryParentsJoined == Spec => []ParentsJoined
  <1>1. Spec => []ShownInv
    BY ShownInit, ShownNext, PTL DEF Spec
  <1>2. ShownInv => ParentsJoined
    BY DEF ShownInv
  <1> QED
    BY <1>1, <1>2, PTL
=============================================================================
