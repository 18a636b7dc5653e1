-------------------------- MODULE FTypeUpdateProofs --------------------------
(***************************************************************************)
(* Theorems about FTypeUpdate, for any names, types and links and any      *)
(* number of attributes: what the loops of BDFTypeUpdate have made of the  *)
(* table when they have gone through part of the attributes.               *)
(***************************************************************************)
EXTENDS FTypeUpdate, SequenceTheorems, TLAPS

-----------------------------------------------------------------------------
(* Lists of attributes *)

LEMMA ListsAreSeqs ==
    ASSUME NEW as
    PROVE  as \in AttrLists <=> as \in Seq(Attr) /\ Len(as) <= MaxAttrs
  <1>1. MaxAttrs \in Nat
    BY FTypeUpdateAssumption
  <1>2. ASSUME as \in AttrLists
        PROVE  as \in Seq(Attr) /\ Len(as) <= MaxAttrs
    <2>1. PICK n \in 0..MaxAttrs : as \in [1..n -> Attr]
      BY <1>2 DEF AttrLists
    <2>2. n \in Nat /\ n <= MaxAttrs
      BY <1>1
    <2>3. as \in Seq(Attr)
      <3>1. n \in Nat
        BY <2>2
      <3>2. Seq(Attr) = UNION {[1..m -> Attr] : m \in Nat}
        BY SeqDef
      <3> QED
        BY <2>1, <3>1, <3>2, Zenon
    <2>4. PICK m \in Nat : m = Len(as)
      BY <2>3, LenProperties
    <2>5. 1..m = 1..n
      BY <2>1, <2>3, <2>4, LenProperties
    <2>6. m = n
      BY <2>2, <2>5
    <2> QED
      BY <2>2, <2>3, <2>4, <2>6
  <1>3. ASSUME as \in Seq(Attr), Len(as) <= MaxAttrs
        PROVE  as \in AttrLists
    <2>1. PICK n \in Nat : n = Len(as)
      BY <1>3, LenProperties
    <2>2. as \in [1..n -> Attr]
      BY <1>3, <2>1, LenProperties
    <2>3. n <= MaxAttrs
      BY <1>3, <2>1
    <2>4. n \in 0..MaxAttrs
      BY <1>1, <2>3
    <2> QED
      BY <2>2, <2>4 DEF AttrLists
  <1> QED
    BY <1>2, <1>3

LEMMA EmptyList == <<>> \in AttrLists
  <1>1. <<>> \in Seq(Attr)
    BY EmptySeq
  <1>2. Len(<<>>) = 0
    OBVIOUS
  <1>3. 0 <= MaxAttrs
    BY FTypeUpdateAssumption
  <1>4. Len(<<>>) <= MaxAttrs
    BY <1>2, <1>3
  <1> QED
    BY <1>1, <1>4, ListsAreSeqs

\* What is known of a list of attributes
LEMMA ListFacts ==
    ASSUME NEW as \in AttrLists
    PROVE  \E n \in Nat :
              /\ n = Len(as) /\ n <= MaxAttrs
              /\ as \in Seq(Attr)
              /\ DOMAIN as = 1..n
              /\ \A k \in 1..n : as[k] \in Attr
  <1>1. as \in Seq(Attr) /\ Len(as) <= MaxAttrs
    BY ListsAreSeqs
  <1>2. PICK n \in Nat : n = Len(as)
    BY <1>1, LenProperties
  <1>3. DOMAIN as = 1..n /\ as \in [1..n -> Attr]
    BY <1>1, <1>2, LenProperties
  <1> QED
    BY <1>1, <1>2, <1>3

LEMMA ElementIsAttr ==
    ASSUME NEW as \in AttrLists, NEW k \in DOMAIN as
    PROVE  as[k] \in Attr
  BY ListFacts

\* A list the dialog shows, with one of its attributes replaced
LEMMA Replaced ==
    ASSUME NEW as \in AttrLists, NEW k \in DOMAIN as, NEW a \in Attr
    PROVE  [as EXCEPT ![k] = a] \in AttrLists
  <1>1. PICK n \in 0..MaxAttrs : as \in [1..n -> Attr]
    BY Zenon DEF AttrLists
  <1>2. [as EXCEPT ![k] = a] \in [1..n -> Attr]
    BY <1>1
  <1> QED
    BY <1>1, <1>2 DEF AttrLists

\* The edits of the dialog make lists of attributes of lists of attributes.
LEMMA Appended ==
    ASSUME NEW as \in AttrLists, Len(as) < MaxAttrs, NEW a \in Attr
    PROVE  Append(as, a) \in AttrLists
  <1>1. PICK n \in Nat : n = Len(as) /\ as \in Seq(Attr)
    BY ListFacts
  <1>2. n + 1 <= MaxAttrs
    <2>1. MaxAttrs \in Nat
      BY FTypeUpdateAssumption
    <2>2. n < MaxAttrs
      BY <1>1
    <2> QED
      BY <2>1, <2>2
  <1>3. Append(as, a) \in Seq(Attr) /\ Len(Append(as, a)) = Len(as) + 1
    BY <1>1, AppendProperties
  <1>4. Len(Append(as, a)) = n + 1
    BY <1>1, <1>3
  <1> QED
    BY <1>2, <1>3, <1>4, ListsAreSeqs

LEMMA Deleted ==
    ASSUME NEW as \in AttrLists, NEW k \in DOMAIN as
    PROVE  SubSeq(as, 1, k - 1) \o SubSeq(as, k + 1, Len(as)) \in AttrLists
  <1>1. PICK n \in Nat : n = Len(as) /\ n <= MaxAttrs /\ as \in Seq(Attr)
                         /\ DOMAIN as = 1..n /\ \A j \in 1..n : as[j] \in Attr
    BY ListFacts
  <1>2. k \in Int /\ k - 1 \in Int /\ k + 1 \in Int /\ n \in Int /\ 1 <= k /\ k <= n
    <2>1. k \in 1..n
      BY <1>1
    <2> QED
      BY <2>1
  <1>3. \A j \in 1..k - 1 : as[j] \in Attr
    <2>1. \A j \in 1..k - 1 : j \in 1..n
      BY <1>2
    <2> QED
      BY <1>1, <2>1
  <1>4. \A j \in k + 1..n : as[j] \in Attr
    <2>1. \A j \in k + 1..n : j \in 1..n
      BY <1>2
    <2> QED
      BY <1>1, <2>1
  <1> DEFINE s == SubSeq(as, 1, k - 1)
             t == SubSeq(as, k + 1, n)
  <1>5. s \in Seq(Attr) /\ Len(s) = IF 1 <= k - 1 THEN (k - 1) - 1 + 1 ELSE 0
    <2> DEFINE m == 1
    <2>1. m \in Int /\ k - 1 \in Int
      BY <1>2
    <2>2. \A j \in m..k - 1 : as[j] \in Attr
      BY <1>3
    <2> HIDE DEF m
    <2>3. /\ SubSeq(as, m, k - 1) \in Seq(Attr)
          /\ Len(SubSeq(as, m, k - 1)) = IF m <= k - 1 THEN (k - 1) - m + 1 ELSE 0
      BY <2>1, <2>2, SubSeqProperties, Zenon
    <2> QED
      BY <2>3 DEF m
  <1>6. t \in Seq(Attr) /\ Len(t) = IF k + 1 <= n THEN n - (k + 1) + 1 ELSE 0
    <2>1. k + 1 \in Int /\ n \in Int
      BY <1>2
    <2> QED
      BY <1>4, <2>1, SubSeqProperties, Zenon
  <1> HIDE DEF s, t
  <1>7. s \o t \in Seq(Attr) /\ Len(s \o t) = Len(s) + Len(t)
    BY <1>5, <1>6, ConcatProperties
  <1>8. \A p, q \in Int : /\ p = IF 1 <= k - 1 THEN (k - 1) - 1 + 1 ELSE 0
                          /\ q = IF k + 1 <= n THEN n - (k + 1) + 1 ELSE 0
                          => p + q <= n
    BY <1>2
  <1>9. Len(s) \in Int /\ Len(t) \in Int
    BY <1>5, <1>6, LenProperties
  <1>10. Len(s) + Len(t) <= n
    BY <1>5, <1>6, <1>8, <1>9
  <1>11. Len(s \o t) <= MaxAttrs
    <2>1. PICK l \in Nat : l = Len(s \o t)
      BY <1>7, LenProperties
    <2>2. MaxAttrs \in Nat
      BY FTypeUpdateAssumption
    <2>3. l <= n
      BY <1>7, <1>10, <2>1
    <2>4. n <= MaxAttrs
      BY <1>1
    <2>5. l <= MaxAttrs
      BY <2>2, <2>3, <2>4
    <2> QED
      BY <2>1, <2>5
  <1>12. s \o t \in AttrLists
    BY <1>7, <1>11, ListsAreSeqs
  <1> QED
    BY <1>1, <1>12 DEF s, t

LEMMA Swapped ==
    ASSUME NEW as \in AttrLists, NEW k \in 1..Len(as) - 1
    PROVE  [as EXCEPT ![k] = as[k + 1], ![k + 1] = as[k]] \in AttrLists
  <1>1. PICK n \in Nat : n = Len(as) /\ DOMAIN as = 1..n
                         /\ \A j \in 1..n : as[j] \in Attr
    BY ListFacts
  <1>2. k \in 1..n - 1
    BY <1>1
  <1>3. k \in 1..n /\ k + 1 \in 1..n
    BY <1>2
  <1> DEFINE s == [as EXCEPT ![k] = as[k + 1]]
  <1>4. s \in AttrLists
    BY <1>1, <1>3, Replaced
  <1>5. k + 1 \in DOMAIN s
    BY <1>1, <1>3
  <1> HIDE DEF s
  <1>6. [s EXCEPT ![k + 1] = as[k]] \in AttrLists
    BY <1>1, <1>3, <1>4, <1>5, Replaced
  <1> QED
    BY <1>6 DEF s

-----------------------------------------------------------------------------
(* Tables *)

Held == UNION {[c -> BOOLEAN] : c \in SUBSET ColumnNames}

LEMMA HeldIs ==
    ASSUME NEW S \in SUBSET ColumnNames, NEW f \in [S -> BOOLEAN]
    PROVE  f \in Held
  BY DEF Held

LEMMA HeldHas ==
    ASSUME NEW f \in Held
    PROVE  DOMAIN f \in SUBSET ColumnNames /\ f \in [DOMAIN f -> BOOLEAN]
  BY DEF Held

\* The columns of an attribute bear its name.
LEMMA ColumnsOf ==
    ASSUME NEW a \in Attr
    PROVE  /\ Columns(a) \in SUBSET ColumnNames
           /\ \A c \in Columns(a) : c[1] = a.col
           /\ \A b \in Attr : a.col = b.col /\ a.type = b.type => a = b
  <1>1. a.col \in Names
    BY DEF Attr
  <1>2. \A n \in {"", "x", "y"} :
           <<a.col, n>> \in ColumnNames /\ <<a.col, n>>[1] = a.col
    BY <1>1 DEF ColumnNames
  <1>3. \A c \in Columns(a) : \E n \in {"", "x", "y"} : c = <<a.col, n>>
    BY DEF Columns
  <1>4. Columns(a) \in SUBSET ColumnNames
    BY <1>2, <1>3
  <1>5. \A c \in Columns(a) : c[1] = a.col
    BY <1>2, <1>3
  <1>6. \A b \in Attr : a.col = b.col /\ a.type = b.type => a = b
    BY DEF Attr
  <1> QED
    BY <1>4, <1>5, <1>6

LEMMA AllColumnsOf ==
    ASSUME NEW as \in AttrLists
    PROVE  AllColumns(as) \in SUBSET ColumnNames
  <1>1. \A k \in DOMAIN as : as[k] \in Attr
    BY ElementIsAttr
  <1> QED
    BY <1>1, ColumnsOf DEF AllColumns

\* What a statement that adds columns does, field by field
LEMMA AddColumnsFields ==
    ASSUME NEW t \in Table, NEW a \in Attr
    PROVE  /\ AddColumns(t, a) \in Table
           /\ AddColumns(t, a).key <=> t.key
           /\ AddColumns(t, a).st \in {t.st, "thrown"}
           /\ AddColumns(t, a).st # "thrown" =>
                 /\ DOMAIN AddColumns(t, a).cols = DOMAIN t.cols \cup Columns(a)
                 /\ \A c \in DOMAIN t.cols : AddColumns(t, a).cols[c] = t.cols[c]
  <1>1. /\ t.cols \in Held /\ t.key \in BOOLEAN
        /\ t.st \in {"ok", "false", "thrown"}
    BY DEF Table, Held
  <1>2. DOMAIN t.cols \in SUBSET ColumnNames /\ t.cols \in [DOMAIN t.cols -> BOOLEAN]
    BY <1>1, HeldHas
  <1>3. CASE t.st = "thrown"
    BY <1>3 DEF AddColumns
  <1>4. CASE t.st # "thrown" /\ Columns(a) \cap DOMAIN t.cols # {}
    BY <1>4 DEF AddColumns, Table
  <1>5. CASE t.st # "thrown" /\ Columns(a) \cap DOMAIN t.cols = {}
    <2> DEFINE S == DOMAIN t.cols \cup Columns(a)
               f == [c \in S |-> c \in DOMAIN t.cols /\ t.cols[c]]
    <2>1. AddColumns(t, a) = [t EXCEPT !.cols = f]
      BY <1>5 DEF AddColumns
    <2>2. S \in SUBSET ColumnNames
      BY <1>2, ColumnsOf
    <2>3. f \in [S -> BOOLEAN]
      OBVIOUS
    <2>4. DOMAIN f = S /\ \A c \in DOMAIN t.cols : f[c] = t.cols[c]
      <3> SUFFICES ASSUME NEW c \in DOMAIN t.cols
                   PROVE  f[c] = t.cols[c]
        OBVIOUS
      <3>1. f[c] <=> t.cols[c]
        OBVIOUS
      <3>2. f[c] \in BOOLEAN /\ t.cols[c] \in BOOLEAN
        BY <1>2, <2>3
      <3> QED
        BY <3>1, <3>2, Zenon
    <2> HIDE DEF f, S
    <2>5. f \in Held
      BY <2>2, <2>3, HeldIs
    <2> QED
      BY <1>1, <2>1, <2>4, <2>5 DEF Table, Held, S
  <1> QED
    BY <1>3, <1>4, <1>5

LEMMA DropColumnsFields ==
    ASSUME NEW t \in Table, NEW a \in Attr
    PROVE  /\ DropColumns(t, a) \in Table
           /\ DropColumns(t, a).key <=> t.key
           /\ DropColumns(t, a).st \in {t.st, "thrown"}
           /\ DropColumns(t, a).st # "thrown" =>
                 /\ DOMAIN DropColumns(t, a).cols = DOMAIN t.cols \ Columns(a)
                 /\ \A c \in DOMAIN t.cols \ Columns(a) :
                       DropColumns(t, a).cols[c] = t.cols[c]
  <1>1. /\ t.cols \in Held /\ t.key \in BOOLEAN
        /\ t.st \in {"ok", "false", "thrown"}
    BY DEF Table, Held
  <1>2. DOMAIN t.cols \in SUBSET ColumnNames /\ t.cols \in [DOMAIN t.cols -> BOOLEAN]
    BY <1>1, HeldHas
  <1>3. CASE t.st = "thrown"
    BY <1>3 DEF DropColumns
  <1>4. CASE t.st # "thrown" /\ ~(Columns(a) \subseteq DOMAIN t.cols)
    BY <1>4 DEF DropColumns, Table
  <1>5. CASE t.st # "thrown" /\ Columns(a) \subseteq DOMAIN t.cols
    <2> DEFINE S == DOMAIN t.cols \ Columns(a)
               f == [c \in S |-> t.cols[c]]
    <2>1. DropColumns(t, a) = [t EXCEPT !.cols = f]
      BY <1>5 DEF DropColumns
    <2>2. S \in SUBSET ColumnNames
      BY <1>2
    <2>3. f \in [S -> BOOLEAN]
      BY <1>2
    <2>4. DOMAIN f = S /\ \A c \in S : f[c] = t.cols[c]
      OBVIOUS
    <2> HIDE DEF f, S
    <2>5. f \in Held
      BY <2>2, <2>3, HeldIs
    <2> QED
      BY <1>1, <2>1, <2>4, <2>5 DEF Table, Held, S
  <1> QED
    BY <1>3, <1>4, <1>5

LEMMA DropConstraintFields ==
    ASSUME NEW t \in Table, NEW a, NEW failure \in {"false", "thrown"}
    PROVE  /\ DropConstraint(t, a, failure) \in Table
           /\ DropConstraint(t, a, failure).cols = t.cols
           /\ DropConstraint(t, a, failure).key <=> t.key
           /\ DropConstraint(t, a, failure).st \in {t.st, failure}
  BY DEF DropConstraint, Table

\* A table that is created has the columns of its attributes, all of them empty.
LEMMA CreateTableFields ==
    ASSUME NEW as \in AttrLists
    PROVE  /\ CreateTable(as) \in Table
           /\ CreateTable(as).st = "ok" =>
                 DOMAIN CreateTable(as).cols = AllColumns(as) /\ CreateTable(as).key
  <1>1. Holding(AllColumns(as), FALSE) \in Held
    BY AllColumnsOf, HeldIs DEF Holding
  <1>2. NoTable \in Table
    <2>1. <<>> \in Held
      <3>1. <<>> \in [{} -> BOOLEAN]
        OBVIOUS
      <3> QED
        BY <3>1, HeldIs
    <2> QED
      BY <2>1 DEF NoTable, Table, Held
  <1>3. CASE \A m, n \in DOMAIN as : m # n => Columns(as[m]) \cap Columns(as[n]) = {}
    <2> DEFINE h == Holding(AllColumns(as), FALSE)
    <2>1. CreateTable(as) = [cols |-> h, key |-> TRUE, st |-> "ok"]
      BY <1>3 DEF CreateTable
    <2>2. DOMAIN h = AllColumns(as)
      BY DEF Holding
    <2>3. h \in Held
      BY <1>1
    <2> HIDE DEF h
    <2>4. CreateTable(as) \in Table
      BY <2>1, <2>3 DEF Table, Held
    <2>5. CreateTable(as).cols = h /\ CreateTable(as).key
      BY <2>1
    <2> QED
      BY <2>2, <2>4, <2>5
  <1>4. CASE ~ \A m, n \in DOMAIN as : m # n => Columns(as[m]) \cap Columns(as[n]) = {}
    <2>1. CreateTable(as) = [NoTable EXCEPT !.st = "thrown"]
      BY <1>4 DEF CreateTable
    <2> QED
      BY <1>2, <2>1 DEF Table, NoTable
  <1> QED
    BY <1>3, <1>4

-----------------------------------------------------------------------------
(* The columns an update has left when it has gone through k - 1 attributes *)

ColumnsAt(as, S) == UNION {Columns(as[n]) : n \in S}

\* ... of the new definition: what is before k is as it is to be, and what
\* bears none of these names is as it was.
NotYet(new, as, k) ==
    {n \in DOMAIN as : \A m \in DOMAIN new : m < k => new[m].col # as[n].col}
Altered(new, as, k) ==
    ColumnsAt(new, {m \in DOMAIN new : m < k}) \cup ColumnsAt(as, NotYet(new, as, k))

\* ... of the old one, when it removes what is no longer used.
Removed(new, as, k) ==
    AllColumns(new)
    \cup ColumnsAt(as, {n \in DOMAIN as : n >= k /\ as[n].col \notin ColNamesOf(new)})

LEMMA OtherColumns ==
    ASSUME NEW a \in Attr, NEW b \in Attr, a.col # b.col
    PROVE  Columns(a) \cap Columns(b) = {}
  BY ColumnsOf

LEMMA Counting ==
    ASSUME NEW as \in AttrLists, NEW k \in DOMAIN as
    PROVE  /\ \A m \in DOMAIN as : m < k + 1 <=> m < k \/ m = k
           /\ \A m \in DOMAIN as : m >= k <=> m >= k + 1 \/ m = k
           /\ ~(k < k)
           /\ ~(k >= k + 1)
  <1>1. PICK n \in Nat : DOMAIN as = 1..n
    BY ListFacts
  <1>2. k \in 1..n
    BY <1>1
  <1>3. \A m \in 1..n : (m < k + 1 <=> m < k \/ m = k) /\ (m >= k <=> m >= k + 1 \/ m = k)
    BY <1>2
  <1>4. ~(k < k) /\ ~(k >= k + 1)
    BY <1>2
  <1> QED
    BY <1>1, <1>3, <1>4

LEMMA InColumnsAt ==
    ASSUME NEW as, NEW S, NEW c
    PROVE  c \in ColumnsAt(as, S) <=> \E n \in S : c \in Columns(as[n])
  BY Zenon DEF ColumnsAt

LEMMA InAltered ==
    ASSUME NEW new, NEW as, NEW k, NEW c
    PROVE  c \in Altered(new, as, k) <=>
              \/ \E m \in DOMAIN new : m < k /\ c \in Columns(new[m])
              \/ \E n \in DOMAIN as :
                    /\ \A m \in DOMAIN new : m < k => new[m].col # as[n].col
                    /\ c \in Columns(as[n])
  <1> DEFINE M == {m \in DOMAIN new : m < k}
  <1>1. c \in ColumnsAt(new, M) <=> \E m \in M : c \in Columns(new[m])
    BY InColumnsAt
  <1>2. c \in ColumnsAt(as, NotYet(new, as, k)) <=>
           \E n \in NotYet(new, as, k) : c \in Columns(as[n])
    BY InColumnsAt
  <1>3. Altered(new, as, k) = ColumnsAt(new, M) \cup ColumnsAt(as, NotYet(new, as, k))
    BY DEF Altered
  <1>4. (\E m \in M : c \in Columns(new[m]))
           <=> \E m \in DOMAIN new : m < k /\ c \in Columns(new[m])
    OBVIOUS
  <1>5. (\E n \in NotYet(new, as, k) : c \in Columns(as[n]))
           <=> \E n \in DOMAIN as :
                  /\ \A m \in DOMAIN new : m < k => new[m].col # as[n].col
                  /\ c \in Columns(as[n])
    BY DEF NotYet
  <1> HIDE DEF M
  <1>6. c \in Altered(new, as, k) <=>
           c \in ColumnsAt(new, M) \/ c \in ColumnsAt(as, NotYet(new, as, k))
    BY <1>3
  <1> QED
    BY <1>1, <1>2, <1>4, <1>5, <1>6, Zenon

LEMMA InRemoved ==
    ASSUME NEW new, NEW as, NEW k, NEW c
    PROVE  c \in Removed(new, as, k) <=>
              \/ c \in AllColumns(new)
              \/ \E n \in DOMAIN as :
                    /\ n >= k
                    /\ as[n].col \notin ColNamesOf(new)
                    /\ c \in Columns(as[n])
  <1> DEFINE N == {n \in DOMAIN as : n >= k /\ as[n].col \notin ColNamesOf(new)}
  <1>1. c \in ColumnsAt(as, N) <=> \E n \in N : c \in Columns(as[n])
    BY InColumnsAt
  <1>2. Removed(new, as, k) = AllColumns(new) \cup ColumnsAt(as, N)
    BY DEF Removed
  <1>3. (\E n \in N : c \in Columns(as[n]))
           <=> \E n \in DOMAIN as : /\ n >= k
                                    /\ as[n].col \notin ColNamesOf(new)
                                    /\ c \in Columns(as[n])
    OBVIOUS
  <1> HIDE DEF N
  <1>4. c \in Removed(new, as, k) <=> c \in AllColumns(new) \/ c \in ColumnsAt(as, N)
    BY <1>2
  <1> QED
    BY <1>1, <1>3, <1>4, Zenon

LEMMA InAllColumns ==
    ASSUME NEW as, NEW c
    PROVE  c \in AllColumns(as) <=> \E n \in DOMAIN as : c \in Columns(as[n])
  BY Zenon DEF AllColumns

\* One pass: the attribute keeps its place and changes its type, ...
LEMMA AlteredRetyped ==
    ASSUME NEW new \in AttrLists, NEW as \in AttrLists, NEW k \in DOMAIN new,
           Distinct(new), Distinct(as), k \in DOMAIN as, as[k].col = new[k].col
    PROVE  Altered(new, as, k + 1) =
              (Altered(new, as, k) \ Columns(as[k])) \cup Columns(new[k])
  <1> SUFFICES ASSUME NEW c
               PROVE  c \in Altered(new, as, k + 1) <=>
                         \/ c \in Altered(new, as, k) /\ c \notin Columns(as[k])
                         \/ c \in Columns(new[k])
    OBVIOUS
  <1>1. /\ \A m \in DOMAIN new : new[m] \in Attr
        /\ \A n \in DOMAIN as : as[n] \in Attr
    BY ElementIsAttr
  <1>2. \A m \in DOMAIN new : m < k + 1 <=> m < k \/ m = k
    BY Counting
  <1>3. ~(k < k)
    BY Counting
  <1>4. ASSUME NEW m \in DOMAIN new, m < k, c \in Columns(new[m])
        PROVE  c \notin Columns(as[k])
    <2>1. new[m].col # as[k].col
      BY <1>3, <1>4 DEF Distinct
    <2> QED
      BY <1>1, <1>4, <2>1, OtherColumns
  <1>5. ASSUME NEW n \in DOMAIN as, n # k, c \in Columns(as[n])
        PROVE  c \notin Columns(as[k])
    <2>1. as[n].col # as[k].col
      BY <1>5 DEF Distinct
    <2> QED
      BY <1>1, <1>5, <2>1, OtherColumns
  <1>6. \A n \in DOMAIN as : as[n].col = new[k].col <=> n = k
    BY DEF Distinct
  <1> DEFINE F(j) == \E m \in DOMAIN new : m < j /\ c \in Columns(new[m])
             G(j) == \E n \in DOMAIN as :
                        /\ \A m \in DOMAIN new : m < j => new[m].col # as[n].col
                        /\ c \in Columns(as[n])
  <1>7. F(k + 1) <=> F(k) \/ c \in Columns(new[k])
    BY <1>2
  <1>8. G(k + 1) <=> G(k) /\ c \notin Columns(as[k])
    <2>1. ASSUME G(k + 1)
          PROVE  G(k) /\ c \notin Columns(as[k])
      <3>1. PICK n \in DOMAIN as : /\ \A m \in DOMAIN new : m < k + 1 => new[m].col # as[n].col
                                   /\ c \in Columns(as[n])
        BY <2>1
      <3>2. n # k
        BY <1>2, <3>1
      <3> QED
        BY <1>2, <1>5, <3>1, <3>2
    <2>2. ASSUME G(k), c \notin Columns(as[k])
          PROVE  G(k + 1)
      <3>1. PICK n \in DOMAIN as : /\ \A m \in DOMAIN new : m < k => new[m].col # as[n].col
                                   /\ c \in Columns(as[n])
        BY <2>2
      <3>2. n # k
        BY <2>2, <3>1
      <3>3. \A m \in DOMAIN new : m < k + 1 => new[m].col # as[n].col
        BY <1>2, <1>6, <3>1, <3>2
      <3> QED
        BY <3>1, <3>3
    <2> QED
      BY <2>1, <2>2
  <1>9. F(k) => c \notin Columns(as[k])
    BY <1>4
  <1>10. /\ c \in Altered(new, as, k + 1) <=> F(k + 1) \/ G(k + 1)
         /\ c \in Altered(new, as, k) <=> F(k) \/ G(k)
    <2>1. c \in Altered(new, as, k + 1) <=> F(k + 1) \/ G(k + 1)
      BY InAltered
    <2>2. c \in Altered(new, as, k) <=> F(k) \/ G(k)
      BY InAltered
    <2> QED
      BY <2>1, <2>2
  <1> HIDE DEF F, G
  <1> QED
    BY <1>7, <1>8, <1>9, <1>10

\* ... it is as it was, whatever its place was, ...
LEMMA AlteredSame ==
    ASSUME NEW new \in AttrLists, NEW as \in AttrLists, NEW k \in DOMAIN new,
           Distinct(new), Distinct(as), NEW j \in DOMAIN as, as[j] = new[k]
    PROVE  Altered(new, as, k + 1) = Altered(new, as, k)
  <1> SUFFICES ASSUME NEW c
               PROVE  c \in Altered(new, as, k + 1) <=> c \in Altered(new, as, k)
    OBVIOUS
  <1>1. \A m \in DOMAIN new : m < k + 1 <=> m < k \/ m = k
    BY Counting
  <1>2. ~(k < k)
    BY Counting
  <1>3. \A n \in DOMAIN as : as[n].col = new[k].col <=> n = j
    BY DEF Distinct
  <1>4. \A m \in DOMAIN new : m < k => new[m].col # as[j].col
    BY <1>2 DEF Distinct
  <1> DEFINE F(l) == \E m \in DOMAIN new : m < l /\ c \in Columns(new[m])
             G(l) == \E n \in DOMAIN as :
                        /\ \A m \in DOMAIN new : m < l => new[m].col # as[n].col
                        /\ c \in Columns(as[n])
  <1>5. F(k + 1) <=> F(k) \/ c \in Columns(new[k])
    BY <1>1
  <1>6. c \in Columns(new[k]) => G(k)
    BY <1>4
  <1>7. G(k + 1) => G(k)
    BY <1>1
  <1>8. G(k) => G(k + 1) \/ c \in Columns(new[k])
    <2>1. SUFFICES ASSUME NEW n \in DOMAIN as,
                          \A m \in DOMAIN new : m < k => new[m].col # as[n].col,
                          c \in Columns(as[n])
                   PROVE  G(k + 1) \/ c \in Columns(new[k])
      OBVIOUS
    <2>2. CASE n = j
      BY <2>1, <2>2
    <2>3. CASE n # j
      <3>1. \A m \in DOMAIN new : m < k + 1 => new[m].col # as[n].col
        BY <1>1, <1>3, <2>1, <2>3
      <3> QED
        BY <2>1, <3>1
    <2> QED
      BY <2>2, <2>3
  <1>9. /\ c \in Altered(new, as, k + 1) <=> F(k + 1) \/ G(k + 1)
        /\ c \in Altered(new, as, k) <=> F(k) \/ G(k)
    <2>1. c \in Altered(new, as, k + 1) <=> F(k + 1) \/ G(k + 1)
      BY InAltered
    <2>2. c \in Altered(new, as, k) <=> F(k) \/ G(k)
      BY InAltered
    <2> QED
      BY <2>1, <2>2
  <1> HIDE DEF F, G
  <1> QED
    BY <1>5, <1>6, <1>7, <1>8, <1>9

\* ... or it is new.
LEMMA AlteredAdded ==
    ASSUME NEW new \in AttrLists, NEW as \in AttrLists, NEW k \in DOMAIN new,
           new[k].col \notin ColNamesOf(as)
    PROVE  Altered(new, as, k + 1) = Altered(new, as, k) \cup Columns(new[k])
  <1> SUFFICES ASSUME NEW c
               PROVE  c \in Altered(new, as, k + 1) <=>
                         c \in Altered(new, as, k) \/ c \in Columns(new[k])
    OBVIOUS
  <1>1. \A m \in DOMAIN new : m < k + 1 <=> m < k \/ m = k
    BY Counting
  <1>2. \A n \in DOMAIN as : as[n].col # new[k].col
    BY DEF ColNamesOf
  <1> DEFINE F(l) == \E m \in DOMAIN new : m < l /\ c \in Columns(new[m])
             G(l) == \E n \in DOMAIN as :
                        /\ \A m \in DOMAIN new : m < l => new[m].col # as[n].col
                        /\ c \in Columns(as[n])
  <1>3. F(k + 1) <=> F(k) \/ c \in Columns(new[k])
    BY <1>1
  <1>4. G(k + 1) <=> G(k)
    BY <1>1, <1>2
  <1>5. /\ c \in Altered(new, as, k + 1) <=> F(k + 1) \/ G(k + 1)
        /\ c \in Altered(new, as, k) <=> F(k) \/ G(k)
    BY InAltered
  <1> HIDE DEF F, G
  <1> QED
    BY <1>3, <1>4, <1>5

\* Where the loops start and end
LEMMA LoopEnds ==
    ASSUME NEW new \in AttrLists, NEW as \in AttrLists, NEW k \in Nat
    PROVE  /\ Altered(new, as, 1) = AllColumns(as)
           /\ k > Len(new) => Altered(new, as, k) = Removed(new, as, 1)
           /\ k > Len(as) => Removed(new, as, k) = AllColumns(new)
  <1>1. PICK n \in Nat : n = Len(new) /\ DOMAIN new = 1..n
    BY ListFacts
  <1>2. PICK o \in Nat : o = Len(as) /\ DOMAIN as = 1..o
    BY ListFacts
  <1>3. \A m \in DOMAIN new : ~(m < 1)
    <2>1. \A m \in 1..n : ~(m < 1)
      OBVIOUS
    <2> QED
      BY <1>1, <2>1
  <1>4. \A m \in DOMAIN as : m >= 1
    <2>1. \A m \in 1..o : m >= 1
      OBVIOUS
    <2> QED
      BY <1>2, <2>1
  <1>5. Altered(new, as, 1) = AllColumns(as)
    <2>1. ASSUME NEW c
          PROVE  c \in Altered(new, as, 1) <=> c \in AllColumns(as)
      BY <1>3, InAltered, InAllColumns
    <2> QED
      BY <2>1
  <1>6. ASSUME k > Len(new)
        PROVE  Altered(new, as, k) = Removed(new, as, 1)
    <2>1. \A m \in DOMAIN new : m < k
      <3>1. k > n
        BY <1>1, <1>6
      <3>2. \A m \in 1..n : m < k
        BY <3>1
      <3> QED
        BY <1>1, <3>2
    <2>2. \A l \in DOMAIN as :
             (\A m \in DOMAIN new : m < k => new[m].col # as[l].col)
                <=> (l >= 1 /\ as[l].col \notin ColNamesOf(new))
      BY <1>4, <2>1 DEF ColNamesOf
    <2>3. ASSUME NEW c
          PROVE  c \in Altered(new, as, k) <=> c \in Removed(new, as, 1)
      <3>1. (\E m \in DOMAIN new : m < k /\ c \in Columns(new[m])) <=> c \in AllColumns(new)
        BY <2>1, InAllColumns
      <3>2. (\E l \in DOMAIN as :
                /\ \A m \in DOMAIN new : m < k => new[m].col # as[l].col
                /\ c \in Columns(as[l]))
             <=> (\E l \in DOMAIN as :
                     l >= 1 /\ as[l].col \notin ColNamesOf(new) /\ c \in Columns(as[l]))
        BY <2>2
      <3> DEFINE A == \E m \in DOMAIN new : m < k /\ c \in Columns(new[m])
                 B == \E l \in DOMAIN as :
                        /\ \A m \in DOMAIN new : m < k => new[m].col # as[l].col
                        /\ c \in Columns(as[l])
                 C == \E l \in DOMAIN as : l >= 1 /\ as[l].col \notin ColNamesOf(new)
                                              /\ c \in Columns(as[l])
      <3>3. c \in Altered(new, as, k) <=> A \/ B
        BY InAltered
      <3>4. c \in Removed(new, as, 1) <=> c \in AllColumns(new) \/ C
        BY InRemoved
      <3> HIDE DEF A, B, C
      <3>5. (A <=> c \in AllColumns(new)) /\ (B <=> C)
        BY <3>1, <3>2 DEF A, B, C
      <3> QED
        BY <3>3, <3>4, <3>5
    <2> QED
      BY <2>3
  <1>7. ASSUME k > Len(as)
        PROVE  Removed(new, as, k) = AllColumns(new)
    <2>1. \A m \in DOMAIN as : ~(m >= k)
      <3>1. k > o
        BY <1>2, <1>7
      <3>2. \A m \in 1..o : ~(m >= k)
        BY <3>1
      <3> QED
        BY <1>2, <3>2
    <2>2. ASSUME NEW c
          PROVE  c \in Removed(new, as, k) <=> c \in AllColumns(new)
      BY <2>1, InRemoved
    <2> QED
      BY <2>2
  <1> QED
    BY <1>5, <1>6, <1>7

\* One pass of the second loop
LEMMA RemovedStep ==
    ASSUME NEW new \in AttrLists, NEW as \in AttrLists, NEW k \in DOMAIN as,
           Distinct(as)
    PROVE  /\ as[k].col \in ColNamesOf(new) => Removed(new, as, k + 1) = Removed(new, as, k)
           /\ as[k].col \notin ColNamesOf(new) =>
                 Removed(new, as, k + 1) = Removed(new, as, k) \ Columns(as[k])
  <1>1. \A m \in DOMAIN as : m >= k <=> m >= k + 1 \/ m = k
    BY Counting
  <1>2. ~(k >= k + 1)
    BY Counting
  <1>3. ASSUME as[k].col \in ColNamesOf(new), NEW c
        PROVE  c \in Removed(new, as, k + 1) <=> c \in Removed(new, as, k)
    BY <1>1, <1>3, InRemoved
  <1>4. ASSUME as[k].col \notin ColNamesOf(new), NEW c
        PROVE  c \in Removed(new, as, k + 1) <=>
                  c \in Removed(new, as, k) /\ c \notin Columns(as[k])
    <2>1. c \in AllColumns(new) => c \notin Columns(as[k])
      <3>1. SUFFICES ASSUME NEW m \in DOMAIN new, c \in Columns(new[m])
                     PROVE  c \notin Columns(as[k])
        BY InAllColumns
      <3>2. new[m].col # as[k].col
        BY <1>4 DEF ColNamesOf
      <3> QED
        BY <3>1, <3>2, ElementIsAttr, OtherColumns
    <2>2. \A n \in DOMAIN as : n # k /\ c \in Columns(as[n]) => c \notin Columns(as[k])
      <3>1. SUFFICES ASSUME NEW n \in DOMAIN as, n # k, c \in Columns(as[n])
                     PROVE  c \notin Columns(as[k])
        OBVIOUS
      <3>2. as[n].col # as[k].col
        BY <3>1 DEF Distinct
      <3> QED
        BY <3>1, <3>2, ElementIsAttr, OtherColumns
    <2>3. \A n \in DOMAIN as : n >= k + 1 <=> n >= k /\ n # k
      BY <1>1, <1>2
    <2> QED
      BY <2>1, <2>2, <2>3, InRemoved
  <1> QED
    BY <1>3, <1>4

-----------------------------------------------------------------------------
(* The invariant *)

Updating == pc \in {"alter", "remove"}

\* RetainsData, of the table as it is now
Retained ==
    \A k \in DOMAIN old :
        (\E m \in DOMAIN def : def[m] = old[k]) =>
            \A c \in Columns(old[k]) \cap DOMAIN before.cols :
                c \in DOMAIN tb.cols /\ tb.cols[c] = before.cols[c]

\* A statement fails in an update only.
FailsInUpdate == before.st = "ok" /\ (~Updating => tb.st = "ok")

TidyInv == tidy =>
    /\ Distinct(def)
    /\ Updating => Distinct(old) /\ TidyEdit(def, old)
    /\ Updating /\ tb.st = "ok" => Retained

\* With a roll back that undoes table changes
TableInv == tidy =>
    /\ pc \in {"none", "adding"} => def = <<>>
    /\ pc \in {"closed", "editing"} => DOMAIN tb.cols = AllColumns(def) /\ tb.key
    /\ Updating => DOMAIN before.cols = AllColumns(old) /\ before.key
    /\ pc = "alter" /\ tb.st = "ok" => DOMAIN tb.cols = Altered(def, old, i)
    /\ pc = "remove" /\ tb.st = "ok" => DOMAIN tb.cols = Removed(def, old, i)

-----------------------------------------------------------------------------
(* Types *)

LEMMA NoTableIs ==
    NoTable \in Table /\ NoTable.st = "ok" /\ ~NoTable.key
  <1>1. <<>> \in Held
    <2>1. <<>> \in [{} -> BOOLEAN]
      OBVIOUS
    <2> QED
      BY <2>1, HeldIs
  <1> QED
    BY <1>1 DEF NoTable, Table, Held

LEMMA EnteredFields ==
    ASSUME NEW t \in Table
    PROVE  LET u == [t EXCEPT !.cols = Holding(DOMAIN t.cols, TRUE)]
           IN  /\ u \in Table /\ u.st = t.st
               /\ u.key <=> t.key
               /\ DOMAIN u.cols = DOMAIN t.cols
  <1> DEFINE h == Holding(DOMAIN t.cols, TRUE)
             u == [t EXCEPT !.cols = h]
  <1>1. /\ t.cols \in Held /\ t.key \in BOOLEAN
        /\ t.st \in {"ok", "false", "thrown"}
    BY DEF Table, Held
  <1>2. DOMAIN t.cols \in SUBSET ColumnNames
    BY <1>1, HeldHas
  <1>3. h \in Held /\ DOMAIN h = DOMAIN t.cols
    BY <1>2, HeldIs DEF Holding
  <1> HIDE DEF h
  <1>4. u \in Table
    BY <1>1, <1>3 DEF Table, Held
  <1>5. u.cols = h /\ u.st = t.st /\ (u.key <=> t.key)
    BY DEF Table
  <1> HIDE DEF u
  <1>6. DOMAIN u.cols = DOMAIN t.cols
    BY <1>3, <1>5
  <1>7. u.st = t.st /\ (u.key <=> t.key)
    BY <1>5
  <1> QED
    BY <1>4, <1>6, <1>7 DEF h, u

\* The primary key, and the flag of a failure, leave the columns alone.
LEMMA FlagFields ==
    ASSUME NEW t \in Table, NEW b \in BOOLEAN, NEW s \in {"ok", "false", "thrown"}
    PROVE  /\ [t EXCEPT !.key = b] \in Table
           /\ [t EXCEPT !.key = b].cols = t.cols
           /\ [t EXCEPT !.key = b].st = t.st
           /\ [t EXCEPT !.key = b].key <=> b
           /\ [t EXCEPT !.st = s] \in Table
           /\ [t EXCEPT !.st = s].st = s
  BY DEF Table

LEMMA KeyFields ==
    ASSUME NEW t \in Table
    PROVE  /\ DropPrimaryKey(t) \in Table /\ AddPrimaryKey(t) \in Table
           /\ DropPrimaryKey(t).cols = t.cols /\ AddPrimaryKey(t).cols = t.cols
           /\ DropPrimaryKey(t).st = t.st /\ AddPrimaryKey(t).st = t.st
           /\ AddPrimaryKey(t).key
  BY FlagFields DEF DropPrimaryKey, AddPrimaryKey

LEMMA AlterTyped ==
    ASSUME TypeOK, i \in DOMAIN def, Retyped(def[i]) => i \in DOMAIN old
    PROVE  AlterAttr(tb, i, def[i]) \in Table
  <1> USE DEF TypeOK
  <1>1. def[i] \in Attr
    BY ElementIsAttr
  <1>2. CASE Retyped(def[i])
    <2>1. old[i] \in Attr
      BY <1>2, ElementIsAttr
    <2>2. DropConstraint(tb, old[i], "false") \in Table
      BY DropConstraintFields
    <2>3. DropColumns(DropConstraint(tb, old[i], "false"), old[i]) \in Table
      BY <2>1, <2>2, DropColumnsFields
    <2> QED
      BY <1>1, <1>2, <2>3, AddColumnsFields DEF AlterAttr
  <1>3. CASE ~Retyped(def[i])
    BY <1>1, <1>3, AddColumnsFields DEF AlterAttr
  <1> QED
    BY <1>2, <1>3

LEMMA RemoveTyped ==
    ASSUME TypeOK, i \in DOMAIN old
    PROVE  RemoveAttr(tb, old[i]) \in Table
  <1>1. old[i] \in Attr /\ tb \in Table
    BY ElementIsAttr DEF TypeOK
  <1>2. DropConstraint(tb, old[i], "thrown") \in Table
    BY <1>1, DropConstraintFields
  <1> QED
    BY <1>1, <1>2, DropColumnsFields DEF RemoveAttr

\* The loop counter is at an attribute or behind the last one.
LEMMA CounterStep ==
    ASSUME NEW as \in AttrLists, NEW k \in 1..MaxAttrs + 1
    PROVE  /\ k <= Len(as) => k \in DOMAIN as /\ k + 1 \in 1..MaxAttrs + 1
           /\ k \in Nat
           /\ 1 \in 1..MaxAttrs + 1
           /\ ~(k <= Len(as)) => k > Len(as)
           /\ k > Len(as) => ~(k <= Len(as))
  <1>1. PICK n \in Nat : n = Len(as) /\ n <= MaxAttrs /\ DOMAIN as = 1..n
    BY ListFacts
  <1>2. MaxAttrs \in Nat
    BY FTypeUpdateAssumption
  <1>3. n <= MaxAttrs
    BY <1>1
  <1>4. k \in Nat /\ 1 <= k /\ 1 \in 1..MaxAttrs + 1
    BY <1>2
  <1>5. k <= n => k \in 1..n /\ k + 1 \in 1..MaxAttrs + 1
    BY <1>2, <1>3, <1>4
  <1>6. (~(k <= n) => k > n) /\ (k > n => ~(k <= n))
    BY <1>4
  <1> QED
    BY <1>1, <1>4, <1>5, <1>6

\* The handlers that only edit the list in the dialog
Editing == OnAdd \/ OnDelete \/ OnUpdate \/ OnDeltaposUpdown

LEMMA EditingStep ==
    ASSUME TypeOK, Editing
    PROVE  list' \in AttrLists /\ InDialog /\ UNCHANGED <<def, tb, old, before, pc, i, tidy>>
  <1>0. list \in AttrLists
    BY DEF TypeOK
  <1>1. CASE OnAdd
    <2>1. Len(list) < MaxAttrs /\ \E a \in Attr : list' = Append(list, a)
      BY <1>1 DEF OnAdd
    <2> QED
      BY <1>0, <1>1, <2>1, Appended DEF OnAdd
  <1>2. CASE OnDelete
    BY <1>0, <1>2, Deleted DEF OnDelete
  <1>3. CASE OnUpdate
    <2>1. \E k \in DOMAIN list, a \in Attr : list' = [list EXCEPT ![k] = a]
      BY <1>3 DEF OnUpdate
    <2> QED
      BY <1>0, <1>3, <2>1, Replaced DEF OnUpdate
  <1>4. CASE OnDeltaposUpdown
    BY <1>0, <1>4, Swapped DEF OnDeltaposUpdown
  <1> QED
    BY <1>1, <1>2, <1>3, <1>4 DEF Editing

LEMMA TypeInit == Init => TypeOK
  <1> SUFFICES ASSUME Init
               PROVE  TypeOK
    OBVIOUS
  <1>1. list \in AttrLists /\ def \in AttrLists /\ old \in AttrLists
    BY EmptyList DEF Init
  <1>2. tb \in Table /\ before \in Table
    BY NoTableIs DEF Init
  <1>3. 1 \in 1..MaxAttrs + 1
    BY FTypeUpdateAssumption
  <1> QED
    BY <1>1, <1>2, <1>3 DEF Init, TypeOK

LEMMA TypeStep == TypeOK /\ [Next]_vars => TypeOK'
  <1> SUFFICES ASSUME TypeOK, [Next]_vars
               PROVE  TypeOK'
    OBVIOUS
  <1>1. CASE Open
    BY <1>1 DEF Open, TypeOK
  <1>2. CASE Editing
    <2>1. list' \in AttrLists /\ UNCHANGED <<def, tb, old, before, pc, i, tidy>>
      BY <1>2, EditingStep
    <2> QED
      BY <2>1 DEF TypeOK
  <1>3. CASE OnCancel
    BY <1>3, EmptyList DEF OnCancel, TypeOK
  <1>4. CASE OnOKAdd
    <2>1. list' \in AttrLists /\ def' \in AttrLists
      BY <1>4, EmptyList DEF OnOKAdd, AddThrows, TypeOK
    <2>2. tb' \in Table
      BY <1>4, CreateTableFields DEF OnOKAdd, AddThrows, TypeOK
    <2>3. pc' \in {"none", "adding", "closed", "editing", "alter", "remove"}
      BY <1>4 DEF OnOKAdd, AddThrows, TypeOK
    <2>4. tidy' \in BOOLEAN /\ UNCHANGED <<old, before, i>>
      BY <1>4 DEF OnOKAdd, TypeOK
    <2> QED
      BY <2>1, <2>2, <2>3, <2>4 DEF TypeOK
  <1>5. CASE OnOKEdit
    <2>1. tb' \in Table
      BY <1>5, KeyFields DEF OnOKEdit, TypeOK
    <2>2. i' \in 1..MaxAttrs + 1
      BY <1>5, FTypeUpdateAssumption DEF OnOKEdit
    <2>3. /\ list' \in AttrLists /\ def' \in AttrLists /\ old' \in AttrLists
          /\ before' \in Table /\ pc' = "alter"
      BY <1>5 DEF OnOKEdit, TypeOK
    <2>4. tidy' \in BOOLEAN
      BY <1>5 DEF OnOKEdit, TypeOK
    <2> QED
      BY <2>1, <2>2, <2>3, <2>4 DEF TypeOK
  <1>6. CASE Fail \/ Crash
    <2>1. /\ list' \in AttrLists /\ def' \in AttrLists /\ old' \in AttrLists
          /\ pc' \in {"closed", "editing"}
      BY <1>6, EmptyList DEF Fail, Crash, Undone, Leave, TypeOK
    <2>2. tb' \in Table /\ before' \in Table
      <3>1. CASE Fail
        BY <3>1, FlagFields, NoTableIs DEF Fail, Undone, Leave, TypeOK
      <3>2. CASE Crash
        BY <3>2, FlagFields, NoTableIs DEF Crash, Undone, Leave, TypeOK
      <3> QED
        BY <1>6, <3>1, <3>2
    <2>3. i' \in 1..MaxAttrs + 1
      BY <1>6, FTypeUpdateAssumption DEF Fail, Crash, Leave
    <2>4. tidy' \in BOOLEAN
      BY <1>6 DEF Fail, Crash, TypeOK
    <2> QED
      BY <2>1, <2>2, <2>3, <2>4 DEF TypeOK
  <1>7. CASE Alter
    <2>1. /\ list' \in AttrLists /\ def' \in AttrLists /\ old' \in AttrLists
          /\ before' \in Table /\ tidy' \in BOOLEAN /\ pc' \in {"alter", "remove"}
      BY <1>7 DEF Alter, TypeOK
    <2>2. i \in 1..MaxAttrs + 1 /\ def \in AttrLists /\ old \in AttrLists
      BY DEF TypeOK
    <2>3. CASE i > Len(def)
      <3>1. tb' = tb /\ i' = 1
        BY <1>7, <2>3 DEF Alter
      <3>2. tb' \in Table /\ i' \in 1..MaxAttrs + 1
        BY <2>2, <3>1, CounterStep DEF TypeOK
      <3> QED
        BY <2>1, <3>2 DEF TypeOK
    <2>4. CASE ~(i > Len(def))
      <3>1. i \in DOMAIN def /\ i + 1 \in 1..MaxAttrs + 1
        BY <2>2, <2>4, CounterStep
      <3>2. /\ Retyped(def[i]) => i <= Len(old)
            /\ tb' = AlterAttr(tb, i, def[i]) /\ i' = i + 1
        BY <1>7, <2>4 DEF Alter
      <3>3. Retyped(def[i]) => i \in DOMAIN old
        BY <2>2, <3>2, CounterStep
      <3>4. tb' \in Table
        BY <3>1, <3>2, <3>3, AlterTyped
      <3> QED
        BY <2>1, <3>1, <3>2, <3>4 DEF TypeOK
    <2> QED
      BY <2>3, <2>4
  <1>8. CASE Remove
    <2>1. i \in DOMAIN old /\ i + 1 \in 1..MaxAttrs + 1
      BY <1>8, CounterStep DEF Remove, TypeOK
    <2>2. tb' = RemoveAttr(tb, old[i]) /\ i' = i + 1
          /\ UNCHANGED <<list, def, old, before, pc, tidy>>
      BY <1>8 DEF Remove
    <2>3. tb' \in Table
      BY <2>1, <2>2, RemoveTyped
    <2> QED
      BY <2>1, <2>2, <2>3 DEF TypeOK
  <1>9. CASE Done
    <2>1. tb' \in Table /\ before' \in Table
      BY <1>9, KeyFields, NoTableIs DEF Done, Leave, TypeOK
    <2>2. i' \in 1..MaxAttrs + 1
      BY <1>9, FTypeUpdateAssumption DEF Done, Leave
    <2>3. list' \in AttrLists /\ def' \in AttrLists /\ old' \in AttrLists /\ pc' = "closed"
      BY <1>9, EmptyList DEF Done, Leave, TypeOK
    <2> QED
      BY <1>9, <2>1, <2>2, <2>3 DEF Done, TypeOK
  <1>10. CASE Enter
    <2>1. tb' \in Table
      BY <1>10, EnteredFields DEF Enter, TypeOK
    <2> QED
      BY <1>10, <2>1 DEF Enter, TypeOK
  <1>11. CASE UNCHANGED vars
    BY <1>11 DEF vars, TypeOK
  <1> QED
    BY <1>1, <1>2, <1>3, <1>4, <1>5, <1>6, <1>7, <1>8, <1>9, <1>10, <1>11
    DEF Next, Editing

\* Whatever is edited, fails or is undone, the definitions stay lists of
\* attributes and the table one whose columns bear names of attributes; the
\* counter of the loops of BDFTypeUpdate passes no list by more than one.
THEOREM FTypeUpdateTypeCorrect == Spec => []TypeOK
  BY TypeInit, TypeStep, PTL DEF Spec

-----------------------------------------------------------------------------
(* One pass of each loop *)

LEMMA FoundIs ==
    ASSUME NEW as \in AttrLists, Distinct(as), NEW j \in DOMAIN as
    PROVE  Found(as, as[j].col) = j
  <1>1. PICK n \in Nat : DOMAIN as = 1..n
    BY ListFacts
  <1>2. \A k \in 1..j - 1 : k \in DOMAIN as /\ k # j
    <2>1. j \in 1..n
      BY <1>1
    <2>2. \A k \in 1..j - 1 : k \in 1..n /\ k # j
      BY <2>1
    <2> QED
      BY <1>1, <2>2
  <1>3. \A k \in 1..j - 1 : as[k].col # as[j].col
    BY <1>2 DEF Distinct
  <1>4. \A l \in DOMAIN as :
           as[l].col = as[j].col /\ (\A k \in 1..l - 1 : as[k].col # as[j].col) => l = j
    BY DEF Distinct
  <1> QED
    BY <1>3, <1>4 DEF Found

\* On a tidy edit the search stops at the attribute of the same name; when its
\* type has changed that one is in the same place, so that the columns that are
\* dropped are its own.
LEMMA TidySearch ==
    ASSUME TypeOK, Distinct(old), Distinct(def), TidyEdit(def, old), NEW k \in DOMAIN def
    PROVE  /\ Retyped(def[k]) =>
                /\ k \in DOMAIN old
                /\ old[k].col = def[k].col
                /\ old[k] # def[k]
           /\ ~Retyped(def[k]) /\ def[k].col \in ColNamesOf(old) =>
                \E j \in DOMAIN old : old[j] = def[k]
  <1>1. old \in AttrLists /\ def \in AttrLists /\ def[k] \in Attr
    BY ElementIsAttr DEF TypeOK
  <1>2. CASE def[k].col \in ColNamesOf(old)
    <2>1. PICK j \in DOMAIN old : old[j].col = def[k].col
      BY <1>2 DEF ColNamesOf
    <2>2. Found(old, def[k].col) = j
      BY <1>1, <2>1, FoundIs
    <2>3. Retyped(def[k]) <=> old[j].type # def[k].type
      BY <1>2, <2>2 DEF Retyped
    <2>4. Retyped(def[k]) => k = j
      BY <2>1, <2>3 DEF TidyEdit
    <2>5. ~Retyped(def[k]) => old[j] = def[k]
      BY <1>1, <2>1, <2>3, ElementIsAttr, ColumnsOf
    <2> QED
      BY <2>1, <2>3, <2>4, <2>5
  <1>3. CASE def[k].col \notin ColNamesOf(old)
    BY <1>3 DEF Retyped
  <1> QED
    BY <1>2, <1>3

\* What a pass that has not failed has done to the table
LEMMA AlterFields ==
    ASSUME TypeOK, i \in DOMAIN def, Retyped(def[i]) => i \in DOMAIN old,
           AlterAttr(tb, i, def[i]).st = "ok"
    PROVE  LET r == AlterAttr(tb, i, def[i]) IN
           /\ Retyped(def[i]) =>
                /\ DOMAIN r.cols = (DOMAIN tb.cols \ Columns(old[i])) \cup Columns(def[i])
                /\ \A c \in DOMAIN tb.cols \ Columns(old[i]) : r.cols[c] = tb.cols[c]
           /\ ~Retyped(def[i]) /\ def[i].col \in ColNamesOf(old) => r = tb
           /\ def[i].col \notin ColNamesOf(old) =>
                /\ DOMAIN r.cols = DOMAIN tb.cols \cup Columns(def[i])
                /\ \A c \in DOMAIN tb.cols : r.cols[c] = tb.cols[c]
  <1> DEFINE r == AlterAttr(tb, i, def[i])
  <1>1. def[i] \in Attr /\ tb \in Table
    BY ElementIsAttr DEF TypeOK
  <1>2. CASE Retyped(def[i])
    <2> DEFINE t == DropConstraint(tb, old[i], "false")
               u == DropColumns(t, old[i])
    <2>1. old[i] \in Attr
      BY <1>2, ElementIsAttr DEF TypeOK
    <2>2. t \in Table /\ t.cols = tb.cols
      BY <1>1, DropConstraintFields
    <2>3. r = AddColumns(u, def[i])
      BY <1>2 DEF AlterAttr
    <2>4. def[i].col \in ColNamesOf(old)
      BY <1>2 DEF Retyped
    <2>5. r.st = "ok"
      OBVIOUS
    <2> HIDE DEF t
    <2>6. /\ u \in Table
          /\ u.st # "thrown" =>
               /\ DOMAIN u.cols = DOMAIN t.cols \ Columns(old[i])
               /\ \A c \in DOMAIN t.cols \ Columns(old[i]) : u.cols[c] = t.cols[c]
      BY <2>1, <2>2, DropColumnsFields
    <2> HIDE DEF u, r
    <2>7. /\ r.st \in {u.st, "thrown"}
          /\ r.st # "thrown" =>
               /\ DOMAIN r.cols = DOMAIN u.cols \cup Columns(def[i])
               /\ \A c \in DOMAIN u.cols : r.cols[c] = u.cols[c]
      BY <1>1, <2>3, <2>6, AddColumnsFields
    <2>8. u.st = "ok" /\ r.st # "thrown"
      BY <2>5, <2>7
    <2>9. /\ DOMAIN u.cols = DOMAIN tb.cols \ Columns(old[i])
          /\ \A c \in DOMAIN tb.cols \ Columns(old[i]) : u.cols[c] = tb.cols[c]
      BY <2>2, <2>6, <2>8
    <2>10. /\ DOMAIN r.cols = (DOMAIN tb.cols \ Columns(old[i])) \cup Columns(def[i])
           /\ \A c \in DOMAIN tb.cols \ Columns(old[i]) : r.cols[c] = tb.cols[c]
      BY <2>7, <2>8, <2>9
    <2> QED
      BY <1>2, <2>4, <2>10 DEF r
  <1>3. CASE ~Retyped(def[i]) /\ def[i].col \in ColNamesOf(old)
    BY <1>3 DEF AlterAttr
  <1>4. CASE def[i].col \notin ColNamesOf(old)
    <2>1. ~Retyped(def[i])
      BY <1>4 DEF Retyped
    <2>2. r = AddColumns(tb, def[i])
      BY <1>4, <2>1 DEF AlterAttr
    <2>3. r.st = "ok"
      OBVIOUS
    <2> HIDE DEF r
    <2>4. /\ DOMAIN r.cols = DOMAIN tb.cols \cup Columns(def[i])
          /\ \A c \in DOMAIN tb.cols : r.cols[c] = tb.cols[c]
      BY <1>1, <2>2, <2>3, AddColumnsFields
    <2> QED
      BY <1>4, <2>1, <2>4 DEF r
  <1> QED
    BY <1>2, <1>3, <1>4

LEMMA RemoveFields ==
    ASSUME TypeOK, i \in DOMAIN old, RemoveAttr(tb, old[i]).st = "ok"
    PROVE  LET r == RemoveAttr(tb, old[i]) IN
           /\ old[i].col \in ColNamesOf(def) => r = tb
           /\ old[i].col \notin ColNamesOf(def) =>
                /\ DOMAIN r.cols = DOMAIN tb.cols \ Columns(old[i])
                /\ \A c \in DOMAIN tb.cols \ Columns(old[i]) : r.cols[c] = tb.cols[c]
  <1> DEFINE r == RemoveAttr(tb, old[i])
             t == DropConstraint(tb, old[i], "thrown")
  <1>1. old[i] \in Attr /\ tb \in Table
    BY ElementIsAttr DEF TypeOK
  <1>2. t \in Table /\ t.cols = tb.cols
    BY <1>1, DropConstraintFields
  <1>3. CASE old[i].col \in ColNamesOf(def)
    BY <1>3 DEF RemoveAttr
  <1>4. CASE old[i].col \notin ColNamesOf(def)
    <2>1. r = DropColumns(t, old[i])
      BY <1>4 DEF RemoveAttr
    <2>2. r.st = "ok"
      OBVIOUS
    <2> HIDE DEF r, t
    <2>3. /\ DOMAIN r.cols = DOMAIN t.cols \ Columns(old[i])
          /\ \A c \in DOMAIN t.cols \ Columns(old[i]) : r.cols[c] = t.cols[c]
      BY <1>1, <1>2, <2>1, <2>2, DropColumnsFields
    <2>4. /\ DOMAIN r.cols = DOMAIN tb.cols \ Columns(old[i])
          /\ \A c \in DOMAIN tb.cols \ Columns(old[i]) : r.cols[c] = tb.cols[c]
      BY <1>2, <2>3
    <2> QED
      BY <1>4, <2>4 DEF r
  <1> QED
    BY <1>3, <1>4

\* The passes, as the steps of Next they are
LEMMA AlterPass ==
    ASSUME TypeOK, Alter, ~(i > Len(def))
    PROVE  /\ i \in DOMAIN def
           /\ Retyped(def[i]) => i \in DOMAIN old
           /\ tb' = AlterAttr(tb, i, def[i]) /\ i' = i + 1
           /\ UNCHANGED <<list, def, old, before, pc, tidy>>
  <1>1. i \in 1..MaxAttrs + 1 /\ def \in AttrLists /\ old \in AttrLists
    BY DEF TypeOK
  <1>2. i \in DOMAIN def
    BY <1>1, CounterStep
  <1>3. /\ Retyped(def[i]) => i <= Len(old)
        /\ tb' = AlterAttr(tb, i, def[i]) /\ i' = i + 1
        /\ UNCHANGED <<list, def, old, before, pc, tidy>>
    BY DEF Alter
  <1>4. Retyped(def[i]) => i \in DOMAIN old
    BY <1>1, <1>3, CounterStep
  <1> QED
    BY <1>2, <1>3, <1>4

LEMMA RemovePass ==
    ASSUME TypeOK, Remove
    PROVE  /\ i \in DOMAIN old
           /\ tb' = RemoveAttr(tb, old[i]) /\ i' = i + 1
           /\ UNCHANGED <<list, def, old, before, pc, tidy>>
  BY CounterStep DEF Remove, TypeOK

-----------------------------------------------------------------------------
(* The invariant is one *)

LEMMA FailsStep ==
    ASSUME TypeOK, FailsInUpdate, [Next]_vars
    PROVE  FailsInUpdate'
  <1> USE DEF FailsInUpdate, Updating
  <1>1. CASE Open
    BY <1>1 DEF Open
  <1>2. CASE Editing
    BY <1>2, EditingStep
  <1>3. CASE OnCancel
    BY <1>3 DEF OnCancel, InDialog
  <1>4. CASE OnOKAdd
    BY <1>4 DEF OnOKAdd, AddThrows
  <1>5. CASE OnOKEdit
    BY <1>5 DEF OnOKEdit
  <1>6. CASE Fail \/ Crash
    <2>1. before'.st = "ok" /\ pc' \in {"closed", "editing"}
      BY <1>6, NoTableIs DEF Fail, Crash, Leave
    <2>2. tb' = before \/ tb' = [tb EXCEPT !.st = "ok"]
      BY <1>6 DEF Fail, Crash, Undone
    <2>3. [tb EXCEPT !.st = "ok"].st = "ok"
      BY FlagFields DEF TypeOK
    <2>4. tb'.st = "ok"
      BY <2>2, <2>3
    <2> QED
      BY <2>1, <2>4
  <1>7. CASE Alter
    BY <1>7 DEF Alter
  <1>8. CASE Remove
    BY <1>8 DEF Remove
  <1>9. CASE Done
    BY <1>9, KeyFields, NoTableIs DEF Done, Leave, TypeOK
  <1>10. CASE Enter
    BY <1>10, EnteredFields DEF Enter, TypeOK
  <1>11. CASE UNCHANGED vars
    BY <1>11 DEF vars
  <1> QED
    BY <1>1, <1>2, <1>3, <1>4, <1>5, <1>6, <1>7, <1>8, <1>9, <1>10, <1>11
    DEF Next, Editing

\* A pass leaves the columns of the attributes that do not change.
LEMMA RetainedAlter ==
    ASSUME TypeOK, Distinct(def), Distinct(old), TidyEdit(def, old), Retained,
           Alter, tb'.st = "ok"
    PROVE  Retained'
  <1>1. CASE i > Len(def)
    BY <1>1 DEF Alter, Retained
  <1>2. CASE ~(i > Len(def))
    <2>1. /\ i \in DOMAIN def
          /\ Retyped(def[i]) => i \in DOMAIN old
          /\ tb' = AlterAttr(tb, i, def[i])
          /\ UNCHANGED <<def, old, before>>
      BY <1>2, AlterPass
    <2>2. def \in AttrLists /\ old \in AttrLists
      BY DEF TypeOK
    <2>3. SUFFICES ASSUME NEW k \in DOMAIN old, NEW m \in DOMAIN def, def[m] = old[k],
                          NEW c \in Columns(old[k]) \cap DOMAIN before.cols
                   PROVE  c \in DOMAIN tb'.cols /\ tb'.cols[c] = before.cols[c]
      BY <2>1 DEF Retained
    <2>4. c \in DOMAIN tb.cols /\ tb.cols[c] = before.cols[c]
      BY <2>3 DEF Retained
    <2>5. CASE Retyped(def[i])
      <3>1. i \in DOMAIN old /\ old[i].col = def[i].col /\ old[i] # def[i]
        BY <2>1, <2>5, TidySearch
      <3>2. k # i
        <4>1. SUFFICES ASSUME k = i
                       PROVE  FALSE
          OBVIOUS
        <4>2. def[m].col = def[i].col
          BY <2>3, <3>1, <4>1
        <4>3. m = i
          BY <2>1, <4>2 DEF Distinct
        <4> QED
          BY <2>3, <3>1, <4>1, <4>3
      <3>3. old[k].col # old[i].col
        BY <3>1, <3>2 DEF Distinct
      <3>4. c \notin Columns(old[i])
        BY <2>2, <3>1, <3>3, ElementIsAttr, OtherColumns
      <3> QED
        BY <2>1, <2>4, <2>5, <3>4, AlterFields
    <2>6. CASE ~Retyped(def[i])
      BY <2>1, <2>4, <2>6, AlterFields
    <2> QED
      BY <2>5, <2>6
  <1> QED
    BY <1>1, <1>2

LEMMA RetainedRemove ==
    ASSUME TypeOK, Distinct(old), Retained, Remove, tb'.st = "ok"
    PROVE  Retained'
  <1>1. /\ i \in DOMAIN old
        /\ tb' = RemoveAttr(tb, old[i])
        /\ UNCHANGED <<def, old, before>>
    BY RemovePass
  <1>2. old \in AttrLists
    BY DEF TypeOK
  <1>3. SUFFICES ASSUME NEW k \in DOMAIN old, NEW m \in DOMAIN def, def[m] = old[k],
                        NEW c \in Columns(old[k]) \cap DOMAIN before.cols
                 PROVE  c \in DOMAIN tb'.cols /\ tb'.cols[c] = before.cols[c]
    BY <1>1 DEF Retained
  <1>4. c \in DOMAIN tb.cols /\ tb.cols[c] = before.cols[c]
    BY <1>3 DEF Retained
  <1>5. CASE old[i].col \in ColNamesOf(def)
    BY <1>1, <1>4, <1>5, RemoveFields
  <1>6. CASE old[i].col \notin ColNamesOf(def)
    <2>1. old[k].col # old[i].col
      BY <1>3, <1>6 DEF ColNamesOf
    <2>2. c \notin Columns(old[i])
      BY <1>1, <1>2, <2>1, ElementIsAttr, OtherColumns
    <2> QED
      BY <1>1, <1>4, <1>6, <2>2, RemoveFields
  <1> QED
    BY <1>5, <1>6

LEMMA TidyStep ==
    ASSUME TypeOK, FailsInUpdate, TidyInv, [Next]_vars
    PROVE  TidyInv'
  <1> SUFFICES ASSUME tidy'
               PROVE  /\ Distinct(def)'
                      /\ Updating' => Distinct(old)' /\ TidyEdit(def, old)'
                      /\ Updating' /\ tb'.st = "ok" => Retained'
    BY DEF TidyInv
  <1>1. CASE Open \/ Editing \/ OnCancel \/ Enter
    <2>1. def' = def /\ tidy' = tidy /\ ~Updating'
      BY <1>1, EditingStep DEF Open, OnCancel, Enter, InDialog, Updating
    <2> QED
      BY <2>1 DEF TidyInv, Distinct
  <1>2. CASE OnOKAdd
    <2>1. tidy /\ Distinct(list) /\ def' \in {def, list} /\ ~Updating'
      BY <1>2 DEF OnOKAdd, AddThrows, Updating
    <2> QED
      BY <2>1 DEF TidyInv, Distinct
  <1>3. CASE OnOKEdit
    <2>1. tidy /\ TidyEdit(list, def)
      BY <1>3 DEF OnOKEdit
    <2>2. Distinct(list) /\ Distinct(def)
      BY <2>1 DEF TidyInv, TidyEdit
    <2>3. def' = list /\ old' = def /\ before' = tb /\ tb'.cols = tb.cols
      BY <1>3, KeyFields DEF OnOKEdit, TypeOK
    <2>4. Retained'
      BY <2>3 DEF Retained
    <2> QED
      BY <2>1, <2>2, <2>3, <2>4 DEF Distinct, TidyEdit
  <1>4. CASE Fail \/ Crash
    <2>1. Updating
      BY <1>4 DEF Fail, Crash, FailsInUpdate, Updating
    <2>2. tidy /\ def' \in {def, old} /\ ~Updating'
      BY <1>4 DEF Fail, Crash, Undone, Updating
    <2> QED
      BY <2>1, <2>2 DEF TidyInv, Distinct
  <1>5. CASE Alter
    <2>1. Updating /\ tidy /\ tb.st = "ok" /\ def' = def /\ old' = old
      BY <1>5 DEF Alter, Updating
    <2>2. Distinct(def) /\ Distinct(old) /\ TidyEdit(def, old) /\ Retained
      BY <2>1 DEF TidyInv
    <2>3. tb'.st = "ok" => Retained'
      BY <1>5, <2>2, RetainedAlter
    <2> QED
      BY <2>1, <2>2, <2>3 DEF Distinct, TidyEdit
  <1>6. CASE Remove
    <2>1. Updating /\ tidy /\ tb.st = "ok" /\ def' = def /\ old' = old
      BY <1>6 DEF Remove, Updating
    <2>2. Distinct(def) /\ Distinct(old) /\ TidyEdit(def, old) /\ Retained
      BY <2>1 DEF TidyInv
    <2>3. tb'.st = "ok" => Retained'
      BY <1>6, <2>2, RetainedRemove
    <2> QED
      BY <2>1, <2>2, <2>3 DEF Distinct, TidyEdit
  <1>7. CASE Done
    <2>1. def' = def /\ tidy /\ ~Updating'
      BY <1>7 DEF Done, Updating
    <2> QED
      BY <2>1 DEF TidyInv, Distinct
  <1>8. CASE UNCHANGED vars
    BY <1>8 DEF vars, TidyInv, Distinct, TidyEdit, Retained, Updating
  <1> QED
    BY <1>1, <1>2, <1>3, <1>4, <1>5, <1>6, <1>7, <1>8 DEF Next, Editing

LEMMA TableStep ==
    ASSUME DDLUndone, TypeOK, FailsInUpdate, TidyInv, TableInv, [Next]_vars
    PROVE  TableInv'
  <1> SUFFICES ASSUME tidy'
               PROVE  /\ pc' \in {"none", "adding"} => def' = <<>>
                      /\ pc' \in {"closed", "editing"} =>
                            DOMAIN tb'.cols = AllColumns(def') /\ tb'.key
                      /\ Updating' => DOMAIN before'.cols = AllColumns(old') /\ before'.key
                      /\ pc' = "alter" /\ tb'.st = "ok" =>
                            DOMAIN tb'.cols = Altered(def', old', i')
                      /\ pc' = "remove" /\ tb'.st = "ok" =>
                            DOMAIN tb'.cols = Removed(def', old', i')
    BY DEF TableInv
  <1>0. def \in AttrLists /\ old \in AttrLists /\ list \in AttrLists
    BY DEF TypeOK
  <1>1. CASE Open \/ Editing \/ OnCancel
    <2>1. def' = def /\ tb' = tb /\ tidy' = tidy
      BY <1>1, EditingStep DEF Open, OnCancel
    <2>2. \/ /\ pc \in {"none", "adding"}
             /\ pc' \in {"none", "adding", "closed"}
             /\ pc' = "closed" => def # <<>>
          \/ /\ pc \in {"closed", "editing"}
             /\ pc' \in {"closed", "editing"}
      BY <1>1, EditingStep DEF Open, OnCancel, InDialog
    <2> QED
      BY <2>1, <2>2 DEF TableInv, Updating
  <1>2. CASE OnOKAdd
    <2>1. tidy /\ pc = "adding" /\ def = <<>>
      BY <1>2 DEF OnOKAdd, TableInv
    <2>2. CASE AddThrows /\ UNCHANGED pc
      BY <2>1, <2>2 DEF AddThrows, Updating
    <2>3. CASE CreateTable(list).st = "ok" /\ def' = list /\ tb' = CreateTable(list)
               /\ pc' = "closed"
      BY <1>0, <2>3, CreateTableFields DEF Updating
    <2> QED
      BY <1>2, <2>1, <2>2, <2>3 DEF OnOKAdd, AddThrows
  <1>3. CASE OnOKEdit
    <2>1. tidy /\ pc = "editing"
      BY <1>3 DEF OnOKEdit
    <2>2. DOMAIN tb.cols = AllColumns(def) /\ tb.key
      BY <2>1 DEF TableInv
    <2>3. def' = list /\ old' = def /\ before' = tb /\ tb'.cols = tb.cols
          /\ i' = 1 /\ pc' = "alter"
      BY <1>3, KeyFields DEF OnOKEdit, TypeOK
    <2>4. Altered(list, def, 1) = AllColumns(def)
      BY <1>0, LoopEnds
    <2> QED
      BY <2>2, <2>3, <2>4 DEF Updating
  <1>4. CASE Fail \/ Crash
    <2>1. Updating
      BY <1>4 DEF Fail, Crash, FailsInUpdate, Updating
    <2>2. tidy /\ tb' = before /\ def' = old /\ pc' \in {"closed", "editing"}
      BY <1>4 DEF Fail, Crash, Undone
    <2> QED
      BY <2>1, <2>2 DEF TableInv, Updating
  <1>5. CASE Alter
    <2>1. /\ Updating /\ tidy /\ tb.st = "ok" /\ pc = "alter"
          /\ UNCHANGED <<def, old, before>>
      BY <1>5 DEF Alter, Updating
    <2>2. /\ Distinct(def) /\ Distinct(old) /\ TidyEdit(def, old)
          /\ DOMAIN before.cols = AllColumns(old) /\ before.key
          /\ DOMAIN tb.cols = Altered(def, old, i)
      BY <2>1 DEF TidyInv, TableInv
    <2>3. CASE i > Len(def)
      <3>1. pc' = "remove" /\ i' = 1 /\ tb' = tb
        BY <1>5, <2>3 DEF Alter
      <3>2. Altered(def, old, i) = Removed(def, old, 1)
        BY <1>0, <2>3, CounterStep, LoopEnds DEF TypeOK
      <3> QED
        BY <2>1, <2>2, <3>1, <3>2 DEF Updating
    <2>4. CASE ~(i > Len(def))
      <3>1. /\ i \in DOMAIN def
            /\ Retyped(def[i]) => i \in DOMAIN old
            /\ tb' = AlterAttr(tb, i, def[i]) /\ i' = i + 1 /\ pc' = "alter"
        BY <1>5, <2>1, <2>4, AlterPass
      <3>2. ASSUME tb'.st = "ok"
            PROVE  DOMAIN tb'.cols = Altered(def, old, i + 1)
        <4>1. CASE Retyped(def[i])
          <5>1. i \in DOMAIN old /\ old[i].col = def[i].col
            BY <2>2, <3>1, <4>1, TidySearch
          <5>2. Altered(def, old, i + 1) =
                   (Altered(def, old, i) \ Columns(old[i])) \cup Columns(def[i])
            BY <1>0, <2>2, <3>1, <5>1, AlteredRetyped
          <5>3. DOMAIN tb'.cols = (DOMAIN tb.cols \ Columns(old[i])) \cup Columns(def[i])
            BY <3>1, <3>2, <4>1, AlterFields
          <5> QED
            BY <2>2, <5>2, <5>3
        <4>2. CASE ~Retyped(def[i]) /\ def[i].col \in ColNamesOf(old)
          <5>1. PICK j \in DOMAIN old : old[j] = def[i]
            BY <2>2, <3>1, <4>2, TidySearch
          <5>2. Altered(def, old, i + 1) = Altered(def, old, i)
            BY <1>0, <2>2, <3>1, <5>1, AlteredSame
          <5>3. tb' = tb
            BY <3>1, <3>2, <4>2, AlterFields
          <5> QED
            BY <2>2, <5>2, <5>3
        <4>3. CASE def[i].col \notin ColNamesOf(old)
          <5>1. Altered(def, old, i + 1) = Altered(def, old, i) \cup Columns(def[i])
            BY <1>0, <3>1, <4>3, AlteredAdded
          <5>2. DOMAIN tb'.cols = DOMAIN tb.cols \cup Columns(def[i])
            BY <3>1, <3>2, <4>3, AlterFields
          <5> QED
            BY <2>2, <5>1, <5>2
        <4> QED
          BY <4>1, <4>2, <4>3
      <3> QED
        BY <2>1, <2>2, <3>1, <3>2 DEF Updating
    <2> QED
      BY <2>3, <2>4
  <1>6. CASE Remove
    <2>1. /\ Updating /\ tidy /\ tb.st = "ok" /\ pc = "remove"
          /\ UNCHANGED <<def, old, before, pc>>
      BY <1>6 DEF Remove, Updating
    <2>2. /\ Distinct(old)
          /\ DOMAIN before.cols = AllColumns(old) /\ before.key
          /\ DOMAIN tb.cols = Removed(def, old, i)
      BY <2>1 DEF TidyInv, TableInv
    <2>3. i \in DOMAIN old /\ tb' = RemoveAttr(tb, old[i]) /\ i' = i + 1
      BY <1>6, RemovePass
    <2>4. ASSUME tb'.st = "ok"
          PROVE  DOMAIN tb'.cols = Removed(def, old, i + 1)
      <3>1. CASE old[i].col \in ColNamesOf(def)
        BY <1>0, <2>2, <2>3, <2>4, <3>1, RemoveFields, RemovedStep
      <3>2. CASE old[i].col \notin ColNamesOf(def)
        <4>1. DOMAIN tb'.cols = DOMAIN tb.cols \ Columns(old[i])
          BY <2>3, <2>4, <3>2, RemoveFields
        <4>2. Removed(def, old, i + 1) = Removed(def, old, i) \ Columns(old[i])
          BY <1>0, <2>2, <2>3, <3>2, RemovedStep
        <4> QED
          BY <2>2, <4>1, <4>2
      <3> QED
        BY <3>1, <3>2
    <2> QED
      BY <2>1, <2>2, <2>3, <2>4 DEF Updating
  <1>7. CASE Done
    <2>1. /\ pc = "remove" /\ tb.st = "ok" /\ i > Len(old) /\ tidy
          /\ tb' = AddPrimaryKey(tb) /\ def' = def /\ pc' = "closed"
      BY <1>7 DEF Done
    <2>2. DOMAIN tb.cols = Removed(def, old, i)
      BY <2>1 DEF TableInv
    <2>3. Removed(def, old, i) = AllColumns(def)
      BY <1>0, <2>1, CounterStep, LoopEnds DEF TypeOK
    <2>4. tb'.cols = tb.cols /\ tb'.key
      BY <2>1, KeyFields DEF TypeOK
    <2> QED
      BY <2>1, <2>2, <2>3, <2>4 DEF Updating
  <1>8. CASE Enter
    <2>1. pc = "closed" /\ pc' = pc /\ def' = def /\ tidy' = tidy
      BY <1>8 DEF Enter
    <2>2. DOMAIN tb'.cols = DOMAIN tb.cols /\ (tb'.key <=> tb.key)
      BY <1>8, EnteredFields DEF Enter, TypeOK
    <2> QED
      BY <2>1, <2>2 DEF TableInv, Updating
  <1>9. CASE UNCHANGED vars
    BY <1>9 DEF vars, TableInv, Updating
  <1> QED
    BY <1>1, <1>2, <1>3, <1>4, <1>5, <1>6, <1>7, <1>8, <1>9 DEF Next, Editing

LEMMA InvInit == Init => FailsInUpdate /\ TidyInv /\ TableInv
  <1> SUFFICES ASSUME Init
               PROVE  FailsInUpdate /\ TidyInv /\ TableInv
    OBVIOUS
  <1>1. DOMAIN def = {}
    BY DEF Init
  <1>2. before.st = "ok" /\ tb.st = "ok" /\ pc = "none" /\ def = <<>>
    BY NoTableIs DEF Init
  <1> QED
    BY <1>1, <1>2 DEF FailsInUpdate, TidyInv, TableInv, Updating, Distinct

LEMMA TidyInvariant == Spec => [](TypeOK /\ FailsInUpdate /\ TidyInv)
  <1>1. Init => TypeOK /\ FailsInUpdate /\ TidyInv
    BY TypeInit, InvInit
  <1>2. TypeOK /\ FailsInUpdate /\ TidyInv /\ [Next]_vars
           => (TypeOK /\ FailsInUpdate /\ TidyInv)'
    BY TypeStep, FailsStep, TidyStep
  <1> QED
    BY <1>1, <1>2, PTL DEF Spec

\* Where the driver undoes table changes, every attribute has its columns, every
\* column its attribute and the table its key whenever no update is on its way:
\* after any tidy edits, whatever statement of them failed and wherever the
\* program ended.
THEOREM FTypeUpdateMatches ==
    ASSUME DDLUndone
    PROVE  Spec => []TableMatchesDefinition
  <1> DEFINE I == TypeOK /\ FailsInUpdate /\ TidyInv /\ TableInv
  <1>1. Init => I
    BY TypeInit, InvInit
  <1>2. I /\ [Next]_vars => I'
    BY TypeStep, FailsStep, TidyStep, TableStep
  <1>3. I => TableMatchesDefinition
    BY DEF TableInv, TableMatchesDefinition
  <1> HIDE DEF I
  <1> QED
    BY <1>1, <1>2, <1>3, PTL DEF Spec

\* An update that succeeds has left the columns of the attributes that did not
\* change, with what was entered in them, as they were, under either driver.
THEOREM FTypeUpdateRetains == Spec => TidyUpdateRetainsData
  <1>1. TypeOK /\ FailsInUpdate /\ TidyInv /\ [Next]_vars
           => [Done /\ tidy => RetainsData]_vars
    <2> SUFFICES ASSUME TypeOK, TidyInv, Done, tidy
                 PROVE  RetainsData
      OBVIOUS
    <2>1. Retained
      BY DEF Done, TidyInv, Updating
    <2>2. tb'.cols = tb.cols
      BY KeyFields DEF Done, TypeOK
    <2> QED
      BY <2>1, <2>2 DEF Retained, RetainsData
  <1> QED
    BY <1>1, TidyInvariant, PTL DEF Spec, TidyUpdateRetainsData
=============================================================================
