----------------------------- MODULE NRDBConnect -----------------------------
(***************************************************************************)
(* What the connections of one program share (CInternalInfo): the count    *)
(* of connections, the internal connection, and the names of features and  *)
(* feature types that are read by it once and held.                        *)
(*                                                                         *)
(* A database is reduced to the name of one feature and of one feature     *)
(* type. The internal connection reads what is committed.                  *)
(***************************************************************************)
EXTENDS Integers, FiniteSets

CONSTANTS
    Handles,        \* the handles of a program
    Databases,      \* the databases it connects to
    Names,          \* what a feature or a feature type may be called
    Absent,         \* the name of a feature that was deleted
    None,           \* no database, nothing pending, nothing held
    MaxCount        \* bound on the count, where connects fail

ASSUME NRDBConnectAssumption ==
    /\ IsFiniteSet(Handles)
    /\ None \notin Databases \cup Names \cup {Absent}
    /\ Absent \notin Names
    /\ MaxCount \in Nat

VARIABLES
    conn,     \* the database each handle is open on
    count,    \* m_nConnections
    int,      \* the database m_hConnectInt is open on
    stored,   \* the names in each database
    pending,  \* the names a handle has in its open transaction
    links,    \* m_links: the feature's name, if held
    ftypes,   \* m_aFType: the feature type's name, if held
    failed,   \* a connect has failed after it was counted (history)
    bypassed  \* a change has got past the reset of the held names (history)

vars == <<conn, count, int, stored, pending, links, ftypes, failed, bypassed>>
database == <<stored, pending>>
held == <<links, ftypes>>
history == <<failed, bypassed>>

Data == [feature : Names \cup {Absent}, ftype : Names]

Connected == {h \in Handles : conn[h] # None}

TypeOK ==
    /\ conn \in [Handles -> Databases \cup {None}]
    /\ count \in Nat
    /\ int \in Databases \cup {None}
    /\ stored \in [Databases -> Data]
    /\ pending \in [Handles -> Data \cup {None}]
    /\ links \in Names \cup {Absent, None}
    /\ ftypes \in Names \cup {None}
    /\ failed \in BOOLEAN /\ bypassed \in BOOLEAN

Init ==
    /\ conn = [h \in Handles |-> None]
    /\ count = 0
    /\ int = None
    /\ stored \in [Databases -> [feature : Names, ftype : Names]]
    /\ pending = [h \in Handles |-> None]
    /\ links = None
    /\ ftypes = None
    /\ failed = FALSE /\ bypassed = FALSE

-----------------------------------------------------------------------------
(* BDConnect.cpp, BDDisconnect.cpp *)

\* The count goes up before the internal connection is opened, by the first
\* handle that finds none.
BDConnect(h, d) ==
    /\ conn[h] = None
    /\ count' = count + 1
    /\ \/ /\ conn' = [conn EXCEPT ![h] = d]
          /\ int' = IF int = None THEN d ELSE int
          /\ bypassed' = (bypassed \/ (int = None /\ links # None))
          /\ failed' = failed
       \/ /\ int = None
          /\ count < MaxCount
          /\ failed' = TRUE
          /\ UNCHANGED <<conn, int, bypassed>>
    /\ UNCHANGED <<database, held>>

\* Mutant: a handle that disconnects takes the internal connection with it if
\* at most one other is left.
M_BDDisconnect(h) ==
    /\ conn[h] # None
    /\ conn' = [conn EXCEPT ![h] = None]
    /\ pending' = [pending EXCEPT ![h] = None]
    /\ count' = count - 1
    /\ int' = IF count - 1 <= 1 THEN None ELSE int
    /\ UNCHANGED <<stored, held, history>>

\* Mutant: the count goes down twice, here and with the internal connection.
M_BDDisconnectTwice(h) ==
    /\ conn[h] # None
    /\ conn' = [conn EXCEPT ![h] = None]
    /\ pending' = [pending EXCEPT ![h] = None]
    /\ count' = count - 2
    /\ int' = IF count - 1 = 0 THEN None ELSE int
    /\ UNCHANGED <<stored, held, history>>

\* Mutant: the internal connection is only ever opened.
M_BDDisconnectKeep(h) ==
    /\ conn[h] # None
    /\ conn' = [conn EXCEPT ![h] = None]
    /\ pending' = [pending EXCEPT ![h] = None]
    /\ count' = count - 1
    /\ UNCHANGED <<int, stored, held, history>>

BDDisconnect(h) ==
    /\ conn[h] # None
    /\ conn' = [conn EXCEPT ![h] = None]
    /\ pending' = [pending EXCEPT ![h] = None]
    /\ count' = count - 1
    /\ int' = IF count - 1 = 0 THEN None ELSE int
    /\ UNCHANGED <<stored, held, history>>

-----------------------------------------------------------------------------
(* BDFeature, BDFeatureType *)

View(h) == IF pending[h] # None THEN pending[h] ELSE stored[conn[h]]

Write(h, data) ==
    \/ /\ pending[h] = None
       /\ stored' = [stored EXCEPT ![conn[h]] = data]
       /\ pending' = pending
    \/ /\ pending' = [pending EXCEPT ![h] = data]
       /\ stored' = stored

\* Mutant: what is held is not reset.
M_BDFeature(h) ==
    /\ conn[h] # None
    /\ \E n \in Names \cup {Absent} : Write(h, [View(h) EXCEPT !.feature = n])
    /\ UNCHANGED <<conn, count, int, held, history>>

\* BDADD, BDUPDATE, BDDELETE: "reset globally held info"
BDFeature(h) ==
    /\ conn[h] # None
    /\ \E n \in Names \cup {Absent} : Write(h, [View(h) EXCEPT !.feature = n])
    /\ links' = None
    /\ UNCHANGED <<conn, count, int, ftypes, history>>

\* The same, and it is the features' names that are reset.
BDFeatureType(h) ==
    /\ conn[h] # None
    /\ \E n \in Names : Write(h, [View(h) EXCEPT !.ftype = n])
    /\ links' = None
    /\ UNCHANGED <<conn, count, int, ftypes, history>>

\* BDFTypeDelete with BDDELFEATURE deletes by a statement of its own, which is
\* committed before it returns.
BDFTypeDelete(h) ==
    /\ conn[h] # None
    /\ pending[h] = None
    /\ stored' = [stored EXCEPT ![conn[h]].feature = Absent]
    /\ bypassed' = TRUE
    /\ UNCHANGED <<conn, count, int, pending, held, failed>>

BDCommit(h) ==
    /\ pending[h] # None
    /\ stored' = [stored EXCEPT ![conn[h]] = pending[h]]
    /\ pending' = [pending EXCEPT ![h] = None]
    /\ bypassed' = TRUE
    /\ UNCHANGED <<conn, count, int, held, failed>>

BDRollBack(h) ==
    /\ pending[h] # None
    /\ pending' = [pending EXCEPT ![h] = None]
    /\ UNCHANGED <<conn, count, int, stored, held, history>>

-----------------------------------------------------------------------------
(* CFeatureLinks and CFTypeLinks: the names are read when none are held *)

GetFeature ==
    /\ Connected # {}
    /\ links = None
    /\ links' = IF int = None THEN Absent ELSE stored[int].feature
    /\ UNCHANGED <<conn, count, int, database, ftypes, history>>

GetFType ==
    /\ Connected # {}
    /\ ftypes = None
    /\ ftypes' = IF int = None THEN None ELSE stored[int].ftype
    /\ UNCHANGED <<conn, count, int, database, links, history>>

-----------------------------------------------------------------------------
Next ==
    \/ \E h \in Handles :
          \/ \E d \in Databases : BDConnect(h, d)
          \/ BDDisconnect(h)
          \/ BDFeature(h) \/ BDFeatureType(h) \/ BDFTypeDelete(h)
          \/ BDCommit(h) \/ BDRollBack(h)
    \/ GetFeature \/ GetFType

Spec == Init /\ [][Next]_vars

-----------------------------------------------------------------------------
(* Properties *)

\* Whoever looks a name up finds the internal connection open: it is never
\* closed under a handle that is still in use, whatever connects failed.
InternalWhileConnected == Connected # {} => int # None

\* "If this is the last connection then disconnect the internal connection"
\* (BDDisconnect.cpp:60): with it goes the binding to its database. Unless a
\* connect has failed half way, since which the count is one too high.
InternalOnlyWhileConnected == ~failed /\ Connected = {} => int = None

\* "If updating features then reset globally held info" (FeatureSet.cpp:199):
\* the name held is the one in the database the internal connection reads, as
\* long as features change only by BDFeature and outside of transactions, and
\* the internal connection was not opened anew.
FeatureNamesFresh ==
    ~bypassed /\ links # None /\ int # None => links = stored[int].feature
=============================================================================
