---------------------------- MODULE MCQueryResult ----------------------------
\* The queries and rows for the model checking of QueryResult.
EXTENDS QueryResult

RowAt(d, o, m) == [date |-> d, order |-> o, meets |-> m]

\* None, one, two of one date, two of different dates of which the later does
\* not meet the conditions, a year with one of its days, two of which the
\* later counts.
MCRowSets ==
    <<{{}, {RowAt(11, 1, TRUE), RowAt(11, 2, TRUE)},
       {RowAt(11, 1, TRUE), RowAt(21, 1, FALSE)},
       {RowAt(1, 1, TRUE), RowAt(12, 1, TRUE)}},
      {{}, {RowAt(11, 1, TRUE), RowAt(11, 2, TRUE)},
       {RowAt(12, 1, TRUE), RowAt(21, 1, TRUE)}},
      {{}, {RowAt(12, 1, TRUE)}}>>

Asked(cond, start, end, showAll, wanted, manyToOne) ==
    [cond |-> cond, start |-> start, end |-> end, showAll |-> showAll,
     wanted |-> wanted, manyToOne |-> manyToOne]

\* Each condition on dates with data of the parents; ranges that begin or end
\* with a year; names only, of parents and grandparents; data of all types.
MCQueries ==
    {Asked(cond, 11, 12, showAll, {2}, {1}) :
        cond \in Conds, showAll \in BOOLEAN} \cup
    {Asked(cond, 1, 2, FALSE, {}, {2}) : cond \in Ranges \cup {"before"}} \cup
    {Asked("all", 11, 12, FALSE, {}, {1, 2}),
     Asked("last", 11, 12, FALSE, {2, 3}, {1, 2})}
=============================================================================
