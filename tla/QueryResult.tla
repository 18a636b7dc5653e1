----------------------------- MODULE QueryResult -----------------------------
(***************************************************************************)
(* How NRDB Pro fills the table a query shows (CQueryResult, Query.cpp).   *)
(*                                                                         *)
(* A query is about the features of one type, and may show what the types  *)
(* it inherits from hold of their parents. The types are levels here: 1 is *)
(* the type of the query, l + 1 the parent type of l. The table is a list  *)
(* of results. For each level it is sorted by the features that are active *)
(* on that level, all rows of data the query may need are read in one go,  *)
(* and each row is put into the results of its feature; a result may be    *)
(* doubled for it. Then the parents become active.                         *)
(*                                                                         *)
(* Every type is selected, so that each result has names; a level with     *)
(* conditions has attributes selected. What a row holds is left out but    *)
(* for its date and whether it meets the conditions, which the database    *)
(* looks at for values and CheckConditions and CheckValueCond for links.   *)
(***************************************************************************)
EXTENDS Integers, SequencesExt

CONSTANTS
    Depth,      \* the number of levels
    MaxId,      \* bound on the ids of the features of a type
    Queries,    \* the queries that are made
    RowSets     \* the sets of rows a feature of each level may have

VARIABLES
    query,      \* m_pQuery
    phase,      \* where RetrieveData is
    level,      \* the type it is at
    results,    \* the list
    rows,       \* the rows still to be read
    ok,         \* bOK
    data,       \* the rows in the database of the active features
    before,     \* the results when the level was begun (history)
    scrambled   \* parents were looked for in a list that was not sorted by
                \* them, or that has one of them twice (history)

vars == <<query, phase, level, results, rows, ok, data, before, scrambled>>

Levels == 1..Depth
Ids == 1..MaxId
NoName == 0
NoDate == 0

----------------------------------------------------------------------------
(***************************************************************************)
(* Dates. A date below 10 is a year, other dates have the year in front of *)
(* a digit for month and day.                                              *)
(***************************************************************************)
Dates == 1..99
IsYear(d) == d < 10

\* CDateTime::DateCompare: as precise as the less precise of the two.
DateCompare(d, e) ==
    (IF IsYear(e) /\ ~IsYear(d) THEN d \div 10 ELSE d)
        - (IF IsYear(d) /\ ~IsYear(e) THEN e \div 10 ELSE e)

\* sDate of GetDefaultSQL: a year is the day before its first.
Padded(d) == IF IsYear(d) THEN d * 10 ELSE d

Row == [date : Dates, order : Nat, meets : BOOLEAN]
NoRow == [date |-> NoDate, order |-> 0, meets |-> FALSE]

Firsts == {"first", "firstrange"}
Lasts == {"last", "lastrange"}
Ranges == {"firstrange", "lastrange", "allrange"}
Conds == Firsts \cup Lasts \cup Ranges \cup {"all", "after", "before"}

\* cond        GetDateCond
\* start, end  GetStartDate and GetEndDate
\* showAll     IsShowAllFeatures
\* wanted      the parent types with attributes selected (IsFTypeSelected)
\* manyToOne   the types with many features to one of the parent type
Query == [cond : Conds, start : Dates, end : Dates, showAll : BOOLEAN,
          wanted : SUBSET (2..Depth), manyToOne : SUBSET Levels]

ASSUME QueryResultAssumption ==
    /\ Depth \in Nat \ {0} /\ MaxId \in Nat \ {0}
    /\ \A q \in Queries : q \in Query
    /\ \A l \in Levels : \A S \in RowSets[l] :
          /\ IsFiniteSet(S) /\ S \subseteq Row
          /\ \A q, r \in S : q.date = r.date /\ q.order = r.order => q = r

\* active, next   m_lFeatureActive, m_lParentFeatureActive
\* name           m_sFeatureActive
\* names, data    the attributes in the array, by level
\* date, met      m_dateActive, m_bCondMet
\* self, parent   the feature it should be at, and its parent (history)
Result == [active : Ids, next : Ids, name : Ids \cup {NoName},
           names : [Levels -> Ids \cup {NoName}],
           data : [Levels -> Row \cup {NoRow}],
           date : Dates \cup {NoDate}, met : BOOLEAN,
           self : Ids, parent : Ids]

Active == {results[j].active : j \in DOMAIN results}
Sorted(s) == \A j, k \in DOMAIN s : j < k => s[j].active <= s[k].active

SetAt(s, k, res) == [j \in DOMAIN s |-> IF j = k THEN res ELSE s[j]]

\* The lists of the results of s
Lists(s) == [DOMAIN s -> {s[j] : j \in DOMAIN s}]

\* The parts of these, from left to right
Parts(s) == Lists(s) \X (DOMAIN s) \X (DOMAIN s)

\* The list with the element at left, p, first of those from left to right, in
\* its place, and this place; the smaller and the greater ones change sides.
Partition(s, left, right) ==
    LET p == s[left]
        part[x \in Parts(s)] ==
            LET t == x[1]
                lo == x[2]
                r == Max({lo} \cup {j \in lo + 1..x[3] : t[j].active < p.active})
                t1 == SetAt(t, lo, t[r])
                l == Min({r} \cup {j \in lo + 1..r - 1 : t1[j].active > p.active})
                t2 == SetAt(t1, r, t1[l])
            IN  IF r = lo THEN <<SetAt(t, lo, p), lo>>
                ELSE IF l = r THEN <<SetAt(t1, r, p), r>>
                ELSE part[<<t2, l, r - 1>>]
    IN  part[<<s, left, right>>]

\* Mutant: the left half is not sorted.
M_SortFeature(s, left, right) ==
    LET sort[x \in Parts(s)] ==
            LET q == Partition(x[1], x[2], x[3])
            IN  IF x[3] > q[2] THEN sort[<<q[1], q[2] + 1, x[3]>>] ELSE q[1]
    IN  sort[<<s, left, right>>]

\* Quick sort, which does not leave equals in their order.
SortFeature(s, left, right) ==
    LET sort[x \in Parts(s)] ==
            LET q == Partition(x[1], x[2], x[3])
                pivot == q[2]
                low == IF x[2] < pivot THEN sort[<<q[1], x[2], pivot - 1>>] ELSE q[1]
            IN  IF x[3] > pivot THEN sort[<<low, pivot + 1, x[3]>>] ELSE low
    IN  sort[<<s, left, right>>]

\* Binary search; 0 is not found.
FindSorted(s, id) ==
    LET Search[x \in (1..Len(s) + 1) \X (0..Len(s))] ==
            LET mid == (x[1] + x[2]) \div 2
            IN  IF x[1] > x[2] THEN 0
                ELSE IF id > s[mid].active THEN Search[<<mid + 1, x[2]>>]
                ELSE IF id < s[mid].active THEN Search[<<x[1], mid - 1>>]
                ELSE mid
    IN  Search[<<1, Len(s)>>]

\* The neighbours of k with the same active feature that come after it.
From(s, k) ==
    {j \in DOMAIN s : k <= j /\ \A i \in k..j : s[i].active = s[k].active}

\* All neighbours of the result found, which LoadDataAll goes back for.
Matches(s, id) ==
    LET k == FindSorted(s, id)
    IN  IF k = 0 THEN {}
        ELSE {j \in DOMAIN s : \E i \in From(s, j) : i = k} \cup From(s, k)

TypeOK ==
    /\ query \in Queries
    /\ phase \in {"begin", "load", "loaded", "skipped", "done"}
    /\ level \in Levels
    /\ results \in Seq(Result) /\ before \in Seq(Result)
    /\ rows \in Seq([feature : Ids, row : Row])
    /\ ok \in BOOLEAN /\ scrambled \in BOOLEAN
    /\ \A id \in DOMAIN data : id \in Ids /\ data[id] \subseteq Row
    /\ phase = "load" => Sorted(results)

----------------------------------------------------------------------------
(***************************************************************************)
(* What the database returns.                                              *)
(***************************************************************************)

\* The subquery's where clause, which is there for ranges only.
Window(S) ==
    {r \in S : query.cond \in Ranges =>
                   Padded(query.start) <= Padded(r.date)
                   /\ Padded(r.date) <= Padded(query.end)}

\* How often the table joined with the subquery has the row r of those in S:
\* once with min or max, which are grouped, or else for every date as its own.
Joined(S, r) ==
    LET same == {q \in Window(S) : Padded(q.date) = Padded(r.date)}
        least == \A q \in Window(S) : Padded(r.date) <= Padded(q.date)
        most == \A q \in Window(S) : Padded(q.date) <= Padded(r.date)
    IN  CASE query.cond \in Firsts -> IF same # {} /\ least THEN 1 ELSE 0
          [] query.cond \in Lasts -> IF same # {} /\ most THEN 1 ELSE 0
          [] OTHER -> Cardinality(same)

RowBefore(x, y) ==
    \/ x.feature < y.feature
    \/ x.feature = y.feature /\ x.row.date < y.row.date
    \/ x.feature = y.feature /\ x.row.date = y.row.date
           /\ x.row.order < y.row.order

\* The rows of S in the order of GetSortOrder
InOrder(S) ==
    [k \in 1..Cardinality(S) |->
        CHOOSE x \in S : Cardinality({y \in S : RowBefore(y, x)}) = k - 1]

\* BDAttributeCond of the features between the least and the greatest that is
\* active.
BDAttributeCond(table) ==
    LET read == UNION {{[feature |-> id, row |-> r] : r \in table[id]} :
                           id \in DOMAIN table}
        sorted == InOrder(read)
    IN  FlattenSeq([k \in DOMAIN sorted |->
            [c \in 1..Joined(table[sorted[k].feature], sorted[k].row) |->
                sorted[k]]])

\* CheckConditions and CheckValueCond; dates are looked at for the query's own
\* type only.
CheckConditions(r) ==
    /\ r.meets
    /\ level = 1 =>
          /\ query.cond \in Ranges => /\ DateCompare(r.date, query.start) >= 0
                                      /\ DateCompare(r.date, query.end) <= 0
          /\ query.cond = "after" => DateCompare(r.date, query.start) >= 0
          /\ query.cond = "before" => DateCompare(r.date, query.start) <= 0

----------------------------------------------------------------------------

Init ==
    /\ query \in Queries
    /\ phase = "done" /\ level = 1 /\ ok = TRUE
    /\ results = <<>> /\ rows = <<>> /\ data = <<>> /\ before = <<>>
    /\ scrambled = FALSE

\* A result for each of the features selected, ids in their order, of parents up.
InitFeatures ==
    /\ phase = "done"
    /\ \E n \in Ids, up \in [Ids -> Ids] : \E ids \in [1..n -> Ids] :
          /\ \A j, k \in 1..n : j < k => ids[j] < ids[k]
          /\ results' = [j \in 1..n |->
                            [active |-> ids[j], next |-> up[ids[j]],
                             name |-> ids[j],
                             names |-> [l \in Levels |-> NoName],
                             data |-> [l \in Levels |-> NoRow],
                             date |-> NoDate, met |-> FALSE,
                             self |-> ids[j], parent |-> up[ids[j]]]]
    /\ phase' = "begin" /\ level' = 1 /\ ok' = TRUE
    /\ rows' = <<>> /\ data' = <<>> /\ before' = <<>>
    /\ scrambled' = FALSE
    /\ UNCHANGED query

\* LoadDataAll to its loop. RetrieveFeatures comes first: the names are there
\* for types without attributes too.
LoadDataAll ==
    /\ phase = "begin"
    /\ results # <<>>
    /\ LET named == [j \in DOMAIN results |->
                        [results[j] EXCEPT !.names[level] = results[j].name]]
       IN  IF level = 1 \/ level \in query.wanted
           THEN /\ results' = SortFeature([j \in DOMAIN named |->
                                   [named[j] EXCEPT !.met = FALSE]],
                                 1, Len(named))
                /\ data' \in [Active -> RowSets[level]]
                /\ rows' = BDAttributeCond(data')
                /\ before' = results'
                /\ phase' = "load"
           ELSE /\ results' = named
                /\ phase' = "skipped"
                /\ UNCHANGED <<rows, data, before>>
    /\ UNCHANGED <<query, level, ok, scrambled>>

NoResults ==
    /\ phase = "begin"
    /\ results = <<>>
    /\ phase' = "done" /\ ok' = FALSE
    /\ UNCHANGED <<query, level, results, rows, data, before, scrambled>>

\* Mutant: the next of several dates takes the place of the one before.
M_Status(date, res) ==
    LET c == DateCompare(date, res.date)
    IN  IF res.date = NoDate \/ query.cond \notin Firsts \cup Lasts
        THEN "replace"
        ELSE IF c = 0 THEN "new"
        ELSE IF (c > 0) = (query.cond \in Firsts) THEN "keep"
        ELSE "replace"

\* UpdateDates: what a row of the date is to a result.
Status(date, res) ==
    LET c == DateCompare(date, res.date)
    IN  IF res.date = NoDate THEN "replace"
        ELSE IF query.cond \in Firsts \cup Lasts
        THEN IF c = 0 THEN "new"
             ELSE IF (c > 0) = (query.cond \in Firsts) THEN "keep"
             ELSE "replace"
        ELSE IF level = 1 THEN "new" ELSE "replace"

\* A result that takes a row
Replace(res, row) ==
    [res EXCEPT !.met = TRUE, !.data[level] = row, !.date = row.date]

\* The copy of a result for one more row: only its names are kept.
Copy(res, row) ==
    [res EXCEPT !.data = [l \in Levels |-> IF l = level THEN row ELSE NoRow],
                !.date = row.date]

\* One row read: each result of its feature takes it, until one is copied for
\* it. The user may cancel when a result took it, which is not asked after a
\* copy. What RetrieveMissing takes from a row that is not shown is left out.
GetNext ==
    /\ phase = "load" /\ ok /\ rows # <<>>
    /\ LET row == Head(rows).row
           all == Matches(results, Head(rows).feature)
           new == {j \in all : Status(row.date, results[j]) = "new"}
           at == IF new = {} THEN all ELSE {j \in all : j <= Min(new)}
           took == [j \in DOMAIN results |->
                       IF j \notin at THEN results[j]
                       ELSE IF Status(row.date, results[j]) = "replace"
                       THEN Replace(results[j], row)
                       ELSE [results[j] EXCEPT !.met = TRUE]]
       IN  IF at = {} \/ ~CheckConditions(row)
           THEN UNCHANGED <<results, ok>>
           ELSE /\ results' = IF new = {} THEN took
                              ELSE InsertAt(took, Min(new) + 1,
                                            Copy(took[Min(new)], row))
                /\ ok' \in IF at \subseteq new THEN {TRUE} ELSE BOOLEAN
    /\ rows' = Tail(rows)
    /\ UNCHANGED <<query, phase, level, data, before, scrambled>>

\* The elements of s at the places in K, in their order
Kept(s, K) ==
    LET kept[k \in 0..Len(s)] ==
            IF k = 0 THEN <<>>
            ELSE IF k \in K THEN Append(kept[k - 1], s[k])
            ELSE kept[k - 1]
    IN  kept[Len(s)]

\* The results a condition was met for
Met(s) == Kept(s, {k \in DOMAIN s : s[k].met})

\* All features without data are removed, or shown blank.
RemoveUnmet ==
    /\ phase = "load"
    /\ rows = <<>> \/ ~ok
    /\ results' = IF query.showAll THEN results ELSE Met(results)
    /\ rows' = <<>>
    /\ phase' = "loaded"
    /\ UNCHANGED <<query, level, ok, data, before, scrambled>>

\* Mutant: a name is kept until another is found.
M_Moved(res) ==
    [res EXCEPT !.active = res.next, !.self = res.parent]

\* RetrieveData: the parent becomes active, without a name until it is found.
Moved(res) ==
    [res EXCEPT !.active = res.next, !.name = NoName, !.self = res.parent]

\* The parents are looked for among the results, whose order is still that of
\* the children, and from the one found onwards only.
Parents(up) ==
    LET moved == [j \in DOMAIN results |-> Moved(results[j])]
        found == {j \in DOMAIN moved :
                     LET k == FindSorted(moved, moved[j].active)
                     IN  k # 0 /\ j \in From(moved, k)}
    IN  [j \in DOMAIN moved |->
            [moved[j] EXCEPT
                !.next = IF j \in found THEN up[moved[j].active] ELSE @,
                !.name = IF j \in found THEN moved[j].active ELSE @,
                !.parent = up[moved[j].self]]]

\* Mutant: the dates of the type before stay.
M_Dateless(s) == s

Dateless(s) == [j \in DOMAIN s |-> [s[j] EXCEPT !.date = NoDate]]

NextType ==
    /\ phase \in {"loaded", "skipped"}
    /\ IF ok /\ level < Depth
       THEN /\ level' = level + 1
            /\ phase' = "begin"
            /\ IF level \in query.manyToOne
               THEN \E up \in [Ids -> Ids] :
                       /\ results' = Dateless(Parents(up))
                       /\ scrambled' =
                             (scrambled \/ \E j, k \in DOMAIN results :
                                 /\ j < k
                                 /\ results[j].next >= results[k].next)
               ELSE results' = Dateless(results) /\ UNCHANGED scrambled
       ELSE /\ phase' = "done"
            /\ UNCHANGED <<level, results, scrambled>>
    /\ data' = <<>> /\ before' = <<>>
    /\ UNCHANGED <<query, rows, ok>>

Next ==
    \/ InitFeatures \/ LoadDataAll \/ NoResults
    \/ GetNext \/ RemoveUnmet \/ NextType

Spec == Init /\ [][Next]_vars

----------------------------------------------------------------------------
(***************************************************************************)
(* What the table should show.                                             *)
(***************************************************************************)

InRange(d) ==
    /\ query.cond \in Ranges => /\ DateCompare(d, query.start) >= 0
                                /\ DateCompare(d, query.end) <= 0
    /\ level = 1 /\ query.cond = "after" => DateCompare(d, query.start) >= 0
    /\ level = 1 /\ query.cond = "before" => DateCompare(d, query.start) <= 0

\* The rows of a feature the query asks for: of those in the range the first
\* or last, or all; and of these the ones that meet the conditions.
Chosen(id) ==
    LET in == {r \in data[id] : InRange(r.date)}
        dated == {r \in in :
                    /\ query.cond \in Firsts =>
                          \A q \in in : DateCompare(r.date, q.date) <= 0
                    /\ query.cond \in Lasts =>
                          \A q \in in : DateCompare(r.date, q.date) >= 0}
    IN  {r \in dated : r.meets}

\* Full dates only: then SQL and DateCompare compare them alike.
Precise ==
    /\ ~IsYear(query.start) /\ ~IsYear(query.end)
    /\ \A id \in DOMAIN data : \A r \in data[id] : ~IsYear(r.date)

Shown(id) == {results[j].data[level] : j \in {k \in DOMAIN results :
                                                results[k].active = id}}
Times(id, r) == Cardinality({j \in DOMAIN results :
                    results[j].active = id /\ results[j].data[level] = r})

\* When the query's own type is loaded, what is shown of a feature are rows of
\* its own that are in the range and meet the conditions; with full dates
\* exactly the rows asked for, each once unless another has its date, and a
\* feature without any is left out or shown blank. This is about the subquery
\* of GetDefaultSQL, CheckConditions and UpdateDates agreeing on the dates.
RowsShown ==
    phase = "loaded" /\ level = 1 /\ ok =>
        \A id \in DOMAIN data :
            /\ \A r \in Shown(id) \ {NoRow} :
                  r \in data[id] /\ r.meets /\ InRange(r.date)
            /\ Precise =>
                  /\ Shown(id) \ {NoRow} = Chosen(id)
                  /\ NoRow \in Shown(id) <=> query.showAll /\ Chosen(id) = {}
                  /\ \A r \in Shown(id) : \/ Times(id, r) = 1
                                          \/ \E q \in data[id] \ {r} :
                                                q.date = r.date

\* The row a parent has for its children: with all dates the last one read.
IsLast(r, S) == \A q \in S \ {r} :
                    \/ q.date < r.date
                    \/ q.date = r.date /\ q.order < r.order
RowFor(id) == IF query.cond \in Firsts \cup Lasts THEN Chosen(id)
              ELSE {r \in Chosen(id) : IsLast(r, Chosen(id))}

\* The parents have no two rows for the same date.
SingleRows == \A id \in DOMAIN data : Cardinality(RowFor(id)) <= 1

\* What becomes of the rows of a result b.
Expected(b) ==
    IF RowFor(b.active) = {} THEN b.data
    ELSE [b.data EXCEPT ![level] = CHOOSE r \in RowFor(b.active) : TRUE]

\* When a parent type is loaded, the results are those there were, in the same
\* order and with all they had, each with the row of its own parent; those
\* whose parent has none are left out, or kept as they are. With two rows for
\* one date there are more results, but what is shown is a row of the parent
\* and no child with a parent's row is lost. This is about dates and flags
\* left over from one type to the next, and rows that several children share.
ParentsJoined ==
    phase = "loaded" /\ level > 1 /\ ok /\ Precise =>
        /\ \A j \in DOMAIN results :
              LET r == results[j].data[level] IN
              r # NoRow => r \in Chosen(results[j].active)
        /\ SingleRows =>
              [j \in DOMAIN results |-> results[j].data] =
              LET kept == Kept(before, {k \in DOMAIN before :
                              query.showAll \/ RowFor(before[k].active) # {}})
              IN  [j \in DOMAIN kept |-> Expected(kept[j])]
        /\ \A k \in DOMAIN before : RowFor(before[k].active) # {} =>
              \E j \in DOMAIN results :
                  /\ results[j].active = before[k].active
                  /\ results[j].data[level] # NoRow
                  /\ \A l \in 1..level - 1 :
                        results[j].data[l] = before[k].data[l]

\* A result is at the ancestor of its own feature, and shows its name, unless
\* the parents were looked for in a list they are not sorted in, or are in it
\* twice; even then a name that is shown is that of the active feature. This is
\* about the order RetrieveData relies on when it goes from type to type.
OnAncestor ==
    /\ phase \in {"loaded", "skipped"} =>
          \A j \in DOMAIN results :
              results[j].names[level] \in {results[j].active, NoName}
    /\ ~scrambled =>
          \A j \in DOMAIN results :
              /\ results[j].active = results[j].self
              /\ results[j].next = results[j].parent
              /\ results[j].name = results[j].self
=============================================================================
