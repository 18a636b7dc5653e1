------------------------------ MODULE RecordLoad ------------------------------
(***************************************************************************)
(* What a program that imports files of records may rely on. A row is      *)
(* known by the import it came with and its line in the file. Imports come *)
(* one after the other, each into the tables of one database, and the rows *)
(* of one type arrive in the order of their lines, so each at most once.   *)
(* Rows may fail to arrive.                                                *)
(***************************************************************************)
EXTENDS Integers

CONSTANTS Databases, Types, MaxImports, MaxLines

VARIABLES
    loaded,  \* how often each row is in each table of each database
    import,  \* the number of the last import that was begun
    into     \* the database that import goes to

loadVars == <<loaded, import, into>>

Rows == (1..MaxImports) \X (1..MaxLines)

\* r comes after every row of its own import that is in the table t.
After(r, t) == \A q \in Rows : q[1] = r[1] /\ t[q] > 0 => q[2] < r[2]

LoadInit ==
    /\ loaded = [d \in Databases |-> [k \in Types |-> [r \in Rows |-> 0]]]
    /\ import = 0
    /\ into \in Databases

Begin(d) ==
    /\ import' = import + 1
    /\ into' = d
    /\ UNCHANGED loaded

Add(k, S) ==
    /\ \A r \in S : r[1] = import /\ After(r, loaded[into][k])
    /\ loaded' = [loaded EXCEPT ![into][k] =
                     [r \in Rows |-> @[r] + IF r \in S THEN 1 ELSE 0]]
    /\ UNCHANGED <<import, into>>

LoadNext ==
    \/ \E d \in Databases : Begin(d)
    \/ \E k \in Types, S \in SUBSET Rows : Add(k, S)

LoadSpec == LoadInit /\ [][LoadNext]_loadVars
=============================================================================
