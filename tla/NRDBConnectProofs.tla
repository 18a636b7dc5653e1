-------------------------- MODULE NRDBConnectProofs --------------------------
(***************************************************************************)
(* The internal connection is there whenever a handle is open, for any     *)
(* number of handles and databases and however many connects failed; and   *)
(* only then, as long as none has failed.                                  *)
(***************************************************************************)
EXTENDS NRDBConnect, FiniteSetTheorems, TLAPS

Opens == Cardinality(Connected)

\* A connect that fails counts a connection that is never disconnected: the
\* count may be too high, and so never reaches 0 too early.
ConnectInv ==
    /\ conn \in [Handles -> Databases \cup {None}]
    /\ count \in Nat
    /\ Opens <= count
    /\ InternalWhileConnected

\* Until then the count is exact.
ExactInv ==
    ~failed => /\ count = Opens
               /\ Connected = {} => int = None

LEMMA ConnectedFinite ==
    IsFiniteSet(Connected) /\ Opens \in Nat
  <1>1. Connected \subseteq Handles
    BY DEF Connected
  <1>2. QED
    BY <1>1, FS_Subset, FS_CardinalityType, NRDBConnectAssumption DEF Opens

LEMMA ConnectedFinite2 ==
    IsFiniteSet(Connected') /\ Opens' \in Nat
  <1>1. Connected' \subseteq Handles
    BY DEF Connected
  <1>2. QED
    BY <1>1, FS_Subset, FS_CardinalityType, NRDBConnectAssumption DEF Opens

LEMMA ConnectInit == Init => ConnectInv /\ ExactInv
  <1> SUFFICES ASSUME Init PROVE ConnectInv /\ ExactInv
    OBVIOUS
  <1>1. Connected = {}
    BY DEF Init, Connected
  <1>2. Opens = 0
    BY <1>1, FS_EmptySet DEF Opens
  <1>3. QED
    BY <1>1, <1>2
    DEF Init, ConnectInv, ExactInv, InternalWhileConnected

\* One more handle.
LEMMA OpenStep ==
    ASSUME conn \in [Handles -> Databases \cup {None}],
           NEW h \in Handles, NEW d \in Databases,
           conn[h] = None, conn' = [conn EXCEPT ![h] = d]
    PROVE  /\ conn' \in [Handles -> Databases \cup {None}]
           /\ Opens' = Opens + 1
           /\ Connected' # {}
  <1>1. Connected' = Connected \cup {h} /\ h \notin Connected
    BY NRDBConnectAssumption DEF Connected
  <1>2. Opens' = Opens + 1
    BY <1>1, ConnectedFinite, FS_AddElement DEF Opens
  <1>3. QED
    BY <1>1, <1>2

\* One handle less.
LEMMA CloseStep ==
    ASSUME conn \in [Handles -> Databases \cup {None}],
           NEW h \in Handles,
           conn[h] # None, conn' = [conn EXCEPT ![h] = None]
    PROVE  /\ conn' \in [Handles -> Databases \cup {None}]
           /\ Opens' = Opens - 1
           /\ Connected # {}
  <1>1. Connected' = Connected \ {h} /\ h \in Connected
    BY DEF Connected
  <1>2. Opens' = Opens - 1
    BY <1>1, ConnectedFinite, FS_RemoveElement DEF Opens
  <1>3. QED
    BY <1>1, <1>2

LEMMA NoHandles == Opens = 0 <=> Connected = {}
  BY ConnectedFinite, FS_EmptySet DEF Opens

LEMMA NoHandles2 == Opens' = 0 <=> Connected' = {}
  BY ConnectedFinite2, FS_EmptySet DEF Opens

LEMMA SameHandles ==
    ASSUME ConnectInv, ExactInv,
           conn' = conn, count' = count, int' = int, failed' = failed
    PROVE  ConnectInv' /\ ExactInv'
  <1>1. Connected' = Connected /\ Opens' = Opens
    BY DEF Connected, Opens
  <1>2. QED
    BY <1>1
    DEF ConnectInv, ExactInv, InternalWhileConnected

LEMMA ConnectStep ==
    ASSUME ConnectInv, ExactInv, [Next]_vars
    PROVE  ConnectInv' /\ ExactInv'
  <1> USE DEF ConnectInv, ExactInv
  <1>1. ASSUME NEW h \in Handles, NEW d \in Databases, BDConnect(h, d)
        PROVE  ConnectInv' /\ ExactInv'
    <2>1. count' = count + 1 /\ conn[h] = None
      BY <1>1 DEF BDConnect
    <2>2. CASE /\ conn' = [conn EXCEPT ![h] = d]
               /\ int' = IF int = None THEN d ELSE int
               /\ failed' = failed
      <3>1. int' # None
        BY <2>2, NRDBConnectAssumption
      <3>2. /\ conn' \in [Handles -> Databases \cup {None}]
            /\ Opens' = Opens + 1
            /\ Connected' # {}
        BY <2>1, <2>2, OpenStep
      <3>3. ConnectInv'
        BY <2>1, <3>1, <3>2, ConnectedFinite DEF InternalWhileConnected
      <3>4. CASE failed
        BY <2>2, <3>3, <3>4
      <3>5. CASE ~failed
        BY <2>1, <3>2, <3>3, <3>5
      <3>6. QED
        BY <3>4, <3>5
    <2>3. CASE failed' = TRUE /\ UNCHANGED <<conn, int>>
      <3>1. Connected' = Connected /\ Opens' = Opens
        BY <2>3 DEF Connected, Opens
      <3>2. QED
        BY <2>1, <2>3, <3>1, ConnectedFinite DEF InternalWhileConnected
    <2>4. QED
      BY <1>1, <2>2, <2>3 DEF BDConnect
  <1>2. ASSUME NEW h \in Handles, BDDisconnect(h)
        PROVE  ConnectInv' /\ ExactInv'
    <2>1. /\ conn[h] # None /\ conn' = [conn EXCEPT ![h] = None]
          /\ count' = count - 1
          /\ int' = IF count - 1 = 0 THEN None ELSE int
          /\ failed' = failed
      BY <1>2 DEF BDDisconnect, history
    <2>2. /\ conn' \in [Handles -> Databases \cup {None}]
          /\ Opens' = Opens - 1
          /\ Connected # {}
      BY <2>1, CloseStep
    <2>3. Opens' \in Nat /\ Opens \in Nat
      BY ConnectedFinite, ConnectedFinite2
    <2>4. count' \in Nat /\ Opens' <= count'
      BY <2>1, <2>2, <2>3
    <2>5. Connected' # {} => int' # None
      BY <2>1, <2>2, <2>3, <2>4, NoHandles2 DEF InternalWhileConnected
    <2>6. ExactInv'
      BY <2>1, <2>2, <2>3, NoHandles2
    <2>7. QED
      BY <2>2, <2>4, <2>5, <2>6 DEF InternalWhileConnected
  <1>3. ASSUME NEW h \in Handles,
               \/ BDFeature(h) \/ BDFeatureType(h) \/ BDFTypeDelete(h)
               \/ BDCommit(h) \/ BDRollBack(h)
        PROVE  conn' = conn /\ count' = count /\ int' = int /\ failed' = failed
    BY <1>3
    DEF BDFeature, BDFeatureType, BDFTypeDelete, BDCommit, BDRollBack, history
  <1>4. CASE GetFeature \/ GetFType
    BY <1>4, SameHandles DEF GetFeature, GetFType, history
  <1>5. CASE UNCHANGED vars
    BY <1>5, SameHandles DEF vars
  <1>6. QED
    BY <1>1, <1>2, <1>3, <1>4, <1>5, SameHandles DEF Next

\* However many connects failed half way, no handle that is open is left
\* without the internal connection that names are looked up by.
THEOREM InternalThere == Spec => []InternalWhileConnected
  <1>1. Init => ConnectInv /\ ExactInv
    BY ConnectInit
  <1>2. ConnectInv /\ ExactInv /\ [Next]_vars => (ConnectInv /\ ExactInv)'
    BY ConnectStep
  <1>3. ConnectInv => InternalWhileConnected
    BY DEF ConnectInv
  <1>4. QED
    BY <1>1, <1>2, <1>3, PTL DEF Spec

\* As long as no connect failed after it was counted, the last disconnect
\* closes the internal connection.
THEOREM InternalGone == Spec => []InternalOnlyWhileConnected
  <1>1. Init => ConnectInv /\ ExactInv
    BY ConnectInit
  <1>2. ConnectInv /\ ExactInv /\ [Next]_vars => (ConnectInv /\ ExactInv)'
    BY ConnectStep
  <1>3. ExactInv => InternalOnlyWhileConnected
    BY DEF ExactInv, InternalOnlyWhileConnected
  <1>4. QED
    BY <1>1, <1>2, <1>3, PTL DEF Spec

-----------------------------------------------------------------------------
(* The databases and the names that are held *)

LEMMA WrittenTypes ==
    ASSUME TypeOK, NEW h \in Handles, conn[h] # None, NEW data \in Data, Write(h, data)
    PROVE  stored' \in [Databases -> Data] /\ pending' \in [Handles -> Data \cup {None}]
  BY DEF TypeOK, Write

LEMMA ViewType ==
    ASSUME TypeOK, NEW h \in Handles, conn[h] # None
    PROVE  View(h) \in Data
  BY DEF TypeOK, View

LEMMA TypeStep ==
    ASSUME TypeOK, ConnectInv, ConnectInv', [Next]_vars
    PROVE  TypeOK'
  <1>0. conn' \in [Handles -> Databases \cup {None}] /\ count' \in Nat
    BY DEF ConnectInv
  <1>1. ASSUME NEW h \in Handles, NEW d \in Databases, BDConnect(h, d)
        PROVE  TypeOK'
    <2>1. int' \in Databases \cup {None} /\ failed' \in BOOLEAN /\ bypassed' \in BOOLEAN
      BY <1>1 DEF BDConnect, TypeOK
    <2>2. UNCHANGED <<stored, pending, links, ftypes>>
      BY <1>1 DEF BDConnect, database, held
    <2> QED
      BY <1>0, <2>1, <2>2 DEF TypeOK
  <1>2. ASSUME NEW h \in Handles, BDDisconnect(h)
        PROVE  TypeOK'
    <2>1. int' \in Databases \cup {None} /\ pending' \in [Handles -> Data \cup {None}]
      BY <1>2 DEF BDDisconnect, TypeOK
    <2>2. UNCHANGED <<stored, links, ftypes, failed, bypassed>>
      BY <1>2 DEF BDDisconnect, held, history
    <2> QED
      BY <1>0, <2>1, <2>2 DEF TypeOK
  <1>3. ASSUME NEW h \in Handles, BDFeature(h) \/ BDFeatureType(h)
        PROVE  TypeOK'
    <2>1. conn[h] # None
      BY <1>3 DEF BDFeature, BDFeatureType
    <2>2. View(h) \in Data
      BY <2>1, ViewType
    <2>3. \E data \in Data : Write(h, data)
      <3>1. CASE BDFeature(h)
        <4>1. PICK n \in Names \cup {Absent} : Write(h, [View(h) EXCEPT !.feature = n])
          BY <3>1 DEF BDFeature
        <4>2. [View(h) EXCEPT !.feature = n] \in Data
          BY <2>2 DEF Data
        <4> QED
          BY <4>1, <4>2
      <3>2. CASE BDFeatureType(h)
        <4>1. PICK n \in Names : Write(h, [View(h) EXCEPT !.ftype = n])
          BY <3>2 DEF BDFeatureType
        <4>2. [View(h) EXCEPT !.ftype = n] \in Data
          BY <2>2 DEF Data
        <4> QED
          BY <4>1, <4>2
      <3> QED
        BY <1>3, <3>1, <3>2
    <2>4. stored' \in [Databases -> Data] /\ pending' \in [Handles -> Data \cup {None}]
      BY <2>1, <2>3, WrittenTypes
    <2>5. links' = None /\ UNCHANGED <<int, ftypes, failed, bypassed>>
      BY <1>3 DEF BDFeature, BDFeatureType, history
    <2> QED
      BY <1>0, <2>4, <2>5 DEF TypeOK
  <1>4. ASSUME NEW h \in Handles, BDFTypeDelete(h)
        PROVE  TypeOK'
    <2>1. stored[conn[h]] \in Data
      BY <1>4 DEF BDFTypeDelete, TypeOK
    <2>2. [stored[conn[h]] EXCEPT !.feature = Absent] \in Data
      BY <2>1 DEF Data
    <2>3. stored' = [stored EXCEPT ![conn[h]] = [stored[conn[h]] EXCEPT !.feature = Absent]]
      BY <1>4 DEF BDFTypeDelete, TypeOK
    <2>4. stored' \in [Databases -> Data]
      BY <2>2, <2>3 DEF TypeOK
    <2>5. bypassed' = TRUE /\ UNCHANGED <<int, pending, links, ftypes, failed>>
      BY <1>4 DEF BDFTypeDelete, held
    <2> QED
      BY <1>0, <2>4, <2>5 DEF TypeOK
  <1>5. ASSUME NEW h \in Handles, BDCommit(h) \/ BDRollBack(h)
        PROVE  TypeOK'
    <2>1. pending[h] \in Data /\ pending' \in [Handles -> Data \cup {None}]
      BY <1>5 DEF BDCommit, BDRollBack, TypeOK
    <2>2. stored' \in [Databases -> Data]
      BY <1>5, <2>1 DEF BDCommit, BDRollBack, TypeOK
    <2>3. bypassed' \in BOOLEAN /\ UNCHANGED <<int, links, ftypes, failed>>
      BY <1>5 DEF BDCommit, BDRollBack, held, history, TypeOK
    <2> QED
      BY <1>0, <2>1, <2>2, <2>3 DEF TypeOK
  <1>6. CASE GetFeature \/ GetFType
    <2>1. int # None => stored[int].feature \in Names \cup {Absent} /\ stored[int].ftype \in Names
      BY DEF TypeOK, Data
    <2>2. links' \in Names \cup {Absent, None} /\ ftypes' \in Names \cup {None}
      BY <1>6, <2>1 DEF GetFeature, GetFType, TypeOK
    <2>3. UNCHANGED <<int, stored, pending, failed, bypassed>>
      BY <1>6 DEF GetFeature, GetFType, database, history
    <2> QED
      BY <1>0, <2>2, <2>3 DEF TypeOK
  <1>7. CASE UNCHANGED vars
    BY <1>7 DEF vars, TypeOK
  <1> QED
    BY <1>1, <1>2, <1>3, <1>4, <1>5, <1>6, <1>7 DEF Next

\* The count is a natural number however connects and disconnects, those that
\* failed half way included, follow each other: it never passes zero.
THEOREM ConnectTypeCorrect == Spec => []TypeOK
  <1>1. Init => TypeOK
    <2> SUFFICES ASSUME Init
                 PROVE  TypeOK
      OBVIOUS
    <2>1. stored \in [Databases -> Data]
      BY DEF Init, Data
    <2>2. conn \in [Handles -> Databases \cup {None}] /\ pending \in [Handles -> Data \cup {None}]
      BY DEF Init
    <2> QED
      BY <2>1, <2>2 DEF Init, TypeOK
  <1>2. ConnectInv /\ ExactInv /\ [Next]_vars => (ConnectInv /\ ExactInv)'
    BY ConnectStep
  <1>3. TypeOK /\ ConnectInv /\ ConnectInv' /\ [Next]_vars => TypeOK'
    BY TypeStep
  <1> QED
    BY <1>1, <1>2, <1>3, ConnectInit, PTL DEF Spec

\* A name that is held is the one in the database the internal connection
\* reads: the names are reset by whatever changes them, with the exceptions
\* that bypassed records.
THEOREM NamesFresh == Spec => []FeatureNamesFresh
  <1>1. Init => FeatureNamesFresh
    BY DEF Init, FeatureNamesFresh
  <1>2. FeatureNamesFresh /\ [Next]_vars => FeatureNamesFresh'
    <2> SUFFICES ASSUME FeatureNamesFresh, [Next]_vars
                 PROVE  FeatureNamesFresh'
      OBVIOUS
    <2> USE DEF FeatureNamesFresh
    <2>1. ASSUME NEW h \in Handles, NEW d \in Databases, BDConnect(h, d)
          PROVE  FeatureNamesFresh'
      BY <2>1 DEF BDConnect, database, held
    <2>2. ASSUME NEW h \in Handles, BDDisconnect(h)
          PROVE  FeatureNamesFresh'
      BY <2>2 DEF BDDisconnect, held, history
    <2>3. ASSUME NEW h \in Handles, BDFeature(h) \/ BDFeatureType(h)
          PROVE  FeatureNamesFresh'
      BY <2>3 DEF BDFeature, BDFeatureType
    <2>4. ASSUME NEW h \in Handles, BDFTypeDelete(h) \/ BDCommit(h)
          PROVE  FeatureNamesFresh'
      BY <2>4 DEF BDFTypeDelete, BDCommit
    <2>5. ASSUME NEW h \in Handles, BDRollBack(h)
          PROVE  FeatureNamesFresh'
      BY <2>5 DEF BDRollBack, held, history
    <2>6. CASE GetFeature \/ GetFType
      BY <2>6 DEF GetFeature, GetFType, database, history
    <2>7. CASE UNCHANGED vars
      BY <2>7 DEF vars
    <2> QED
      BY <2>1, <2>2, <2>3, <2>4, <2>5, <2>6, <2>7 DEF Next
  <1> QED
    BY <1>1, <1>2, PTL DEF Spec
=============================================================================
