------------------------- MODULE NRDBFeaturesProofs -------------------------
(***************************************************************************)
(* For any number of users, types and features: a type is younger than its *)
(* parent, so that the recursions of BDFTypeI and GetChildren end and are  *)
(* what they say; and the types of the tables and of the dialogs.          *)
(*                                                                         *)
(* With one user, of any number of types and features: the parent of a     *)
(* type is defined, a feature's parent is there unless an import stored    *)
(* none or the feature has a blank name, and the checks before a feature   *)
(* is deleted find all data that refers to it.                             *)
(***************************************************************************)
EXTENDS NRDBFeatures, WellFoundedInduction, TLAPS

\* A bounded set of numbers has a greatest one: the least distance to the bound.
LEMMA Greatest ==
    ASSUME NEW B \in Nat, NEW S \in SUBSET (1..B), S # {}
    PROVE  \E m \in S : \A n \in S : n <= m
  <1> DEFINE D == {B - m : m \in S}
  <1>1. D \subseteq Nat /\ D # {}
    <2>1. \A m \in S : B - m \in Nat
      BY SMT
    <2>2. PICK m \in S : TRUE
      OBVIOUS
    <2>3. B - m \in D
      OBVIOUS
    <2>4. QED
      BY <2>1, <2>3
  <1>2. PICK d \in D : \A e \in D : ~(<<e, d>> \in OpToRel(<, Nat))
    <2>1. IsWellFoundedOn(OpToRel(<, Nat), Nat)
      BY NatLessThanWellFounded, Zenon
    <2>2. QED
      BY <1>1, <2>1, WFMin, Zenon
  <1>3. \A e \in D : ~(e < d)
    BY <1>1, <1>2 DEF OpToRel
  <1>4. PICK m \in S : d = B - m
    OBVIOUS
  <1>5. ASSUME NEW n \in S PROVE n <= m
    <2>1. ~(B - n < B - m)
      BY <1>3, <1>4
    <2>2. QED
      BY <2>1
  <1>6. QED
    BY <1>5

\* The next id is greater than every id in use.
LEMMA NextIdGreater ==
    ASSUME NEW B \in Nat, NEW S \in SUBSET (1..B)
    PROVE  /\ BDNextId(S) \in Nat \ {0}
           /\ \A n \in S : n < BDNextId(S)
  <1>1. CASE S = {}
    BY <1>1 DEF BDNextId
  <1>2. CASE S # {}
    <2> DEFINE P(m) == \A n \in S : n <= m
               M == CHOOSE m \in S : P(m)
    <2>1. \E m \in S : P(m)
      BY <1>2, Greatest
    <2>2. M \in S /\ P(M)
      BY <2>1
    <2>3. BDNextId(S) = M + 1
      BY <1>2 DEF BDNextId
    <2> HIDE DEF M
    <2>4. M \in Nat \ {0}
      BY <2>2
    <2>5. \A n \in S : n < M + 1
      BY <2>2, <2>4
    <2>6. QED
      BY <2>3, <2>4, <2>5
  <1>3. QED
    BY <1>1, <1>2

-----------------------------------------------------------------------------
\* A row of BDFeature_Types, of which only the parent matters here.
Row(r) == /\ r = [parent |-> r.parent, m2o |-> r.m2o, ref |-> r.ref]
          /\ r = NoType \/ r.parent \in 0..MaxType

\* The strengthening of ParentOlder: what a dialog offers as parents is older
\* than the id the dialog has taken.
OlderInv ==
    /\ DOMAIN ftypes = Types
    /\ \A t \in Types : Row(ftypes[t])
    /\ ParentOlder
    /\ DOMAIN dlg = Users
    /\ \A u \in Users : dlg[u].op = "addtype" =>
          /\ dlg[u].t \in Types
          /\ dlg[u].ps \subseteq 0..dlg[u].t - 1

LEMMA OlderInit == Init => OlderInv
  BY NRDBFeaturesAssumption
  DEF Init, OlderInv, Row, ParentOlder, Types, NoType, None, Closed

\* Steps that leave the types alone and open no dialog to add one.
LEMMA OlderOther ==
    ASSUME OlderInv, UNCHANGED ftypes, NEW u \in Users, NEW d,
           d.op # "addtype", dlg' = [dlg EXCEPT ![u] = d]
    PROVE  OlderInv'
  BY DEF OlderInv, ParentOlder

LEMMA OlderClose ==
    ASSUME OlderInv, UNCHANGED ftypes, NEW u \in Users, Close(u)
    PROVE  OlderInv'
  <1>1. Closed.op # "addtype"
    BY DEF Closed
  <1>2. QED
    BY <1>1, OlderOther DEF Close

LEMMA OlderShow ==
    ASSUME OlderInv, UNCHANGED ftypes, NEW u \in Users,
           NEW op, NEW t, NEW id, NEW ps, op # "addtype", Show(u, op, t, id, ps)
    PROVE  OlderInv'
  <1> DEFINE d == [op |-> op, t |-> t, id |-> id, ps |-> ps]
  <1>1. d.op # "addtype"
    OBVIOUS
  <1>2. dlg' = [dlg EXCEPT ![u] = d]
    BY DEF Show
  <1> HIDE DEF d
  <1>3. QED
    BY <1>1, <1>2, OlderOther

\* A type that is added is younger than the parents it was offered.
LEMMA CreateTypeOlder ==
    ASSUME NEW ts, DOMAIN ts = Types, \A t \in Types : Row(ts[t]),
           \A t \in Types : ts[t] # NoType => ts[t].parent < t,
           NEW t \in Types, NEW p \in 0..t - 1, NEW m2o \in BOOLEAN,
           NEW new, new = CreateType(ts, t, p, m2o)
    PROVE  /\ DOMAIN new = Types
           /\ \A c \in Types : Row(new[c])
           /\ \A c \in Types : new[c] # NoType => new[c].parent < c
           /\ \A c \in Types : c # t => new[c] = ts[c]
           /\ new[t].parent = p /\ new[t] # NoType
  <1> DEFINE r == BDFTypeI([ts EXCEPT ![t] = [parent |-> p, m2o |-> m2o, ref |-> 0]], t)
  <1>1. new = [ts EXCEPT ![t] = [parent |-> p, m2o |-> m2o, ref |-> r]]
    BY DEF CreateType
  <1>2. new[t] = [parent |-> p, m2o |-> m2o, ref |-> r] /\ DOMAIN new = Types
    BY <1>1
  <1>3. \A c \in Types : c # t => new[c] = ts[c]
    BY <1>1
  <1> HIDE DEF r
  <1>4. p \in 0..MaxType /\ p < t
    BY NRDBFeaturesAssumption DEF Types
  <1>5. Row(new[t]) /\ new[t].parent = p /\ new[t] # NoType
    BY <1>2, <1>4 DEF Row, NoType, None
  <1>6. QED
    BY <1>2, <1>3, <1>4, <1>5

LEMMA OlderAddType ==
    ASSUME OlderInv, NEW u \in Users, AddType(u)
    PROVE  OlderInv'
  <1> DEFINE n == BDNextId(Defined(ftypes))
             d == [op |-> "addtype", t |-> n, id |-> 0, ps |-> {0} \cup Defined(ftypes)]
  <1>1. Defined(ftypes) \in SUBSET (1..MaxType)
    BY DEF Defined, Types
  <1>2. n \in Nat \ {0} /\ \A m \in Defined(ftypes) : m < n
    BY <1>1, NextIdGreater, NRDBFeaturesAssumption
  <1>3. n \in Types /\ UNCHANGED ftypes /\ dlg' = [dlg EXCEPT ![u] = d]
    BY <1>2, NRDBFeaturesAssumption DEF AddType, Show, Types
  <1>4. {0} \cup Defined(ftypes) \subseteq 0..n - 1
    BY <1>1, <1>2, NRDBFeaturesAssumption
  <1> HIDE DEF n
  <1>5. QED
    BY <1>3, <1>4 DEF OlderInv, ParentOlder

\* What OnOK leaves of the types: one or, with a link, two more.
LEMMA OKAddTypes ==
    ASSUME OlderInv, NEW u \in Users, OnOKAdd(u), ftypes' # ftypes
    PROVE  /\ dlg[u].op = "addtype" /\ Close(u)
           /\ DOMAIN ftypes' = Types
           /\ \A c \in Types : Row(ftypes'[c])
           /\ ParentOlder'
           /\ \A c \in Types : ftypes[c] # NoType => ftypes'[c] # NoType
           /\ \A c \in Types : \/ ftypes'[c] = ftypes[c]
                               \/ ftypes'[c].parent \in dlg[u].ps \cup {0}
  <1>1. PICK p \in dlg[u].ps, m2o \in BOOLEAN, link \in BOOLEAN :
           LET ts == CreateType(ftypes, dlg[u].t, p, m2o)
               l == BDNextId(Defined(ts))
           IN  /\ ftypes[dlg[u].t] = NoType
               /\ link => l <= MaxType
               /\ ftypes' = IF link THEN CreateType(ts, l, 0, TRUE) ELSE ts
               /\ Close(u)
    BY DEF OnOKAdd
  <1> DEFINE t == dlg[u].t
             ts == CreateType(ftypes, t, p, m2o)
             l == BDNextId(Defined(ts))
  <1>2. dlg[u].op = "addtype" /\ t \in Types /\ p \in 0..t - 1
    BY DEF OnOKAdd, OlderInv
  <1>3. /\ DOMAIN ts = Types
        /\ \A c \in Types : Row(ts[c])
        /\ \A c \in Types : ts[c] # NoType => ts[c].parent < c
        /\ \A c \in Types : c # t => ts[c] = ftypes[c]
        /\ ts[t].parent = p /\ ts[t] # NoType
    BY <1>2, CreateTypeOlder DEF OlderInv, ParentOlder
  <1>4. /\ ftypes[t] = NoType
        /\ link => l <= MaxType
        /\ ftypes' = IF link THEN CreateType(ts, l, 0, TRUE) ELSE ts
        /\ Close(u)
    BY <1>1
  <1>5. CASE ~link
    BY <1>2, <1>3, <1>4, <1>5 DEF ParentOlder
  <1>6. CASE link
    <2>1. Defined(ts) \in SUBSET (1..MaxType)
      BY DEF Defined, Types
    <2>2. l \in Nat \ {0} /\ \A n \in Defined(ts) : n < l
      BY <2>1, NextIdGreater, NRDBFeaturesAssumption
    <2>3. l \in Types /\ 0 \in 0..l - 1 /\ l \notin Defined(ts)
      BY <1>4, <1>6, <2>2, NRDBFeaturesAssumption DEF Types
    <2> DEFINE new == CreateType(ts, l, 0, TRUE)
    <2> HIDE DEF ts, l
    <2>4. /\ DOMAIN new = Types
          /\ \A c \in Types : Row(new[c])
          /\ \A c \in Types : new[c] # NoType => new[c].parent < c
          /\ \A c \in Types : c # l => new[c] = ts[c]
          /\ new[l].parent = 0 /\ new[l] # NoType
      <3>1. /\ DOMAIN ts = Types
            /\ \A c \in Types : Row(ts[c])
            /\ \A c \in Types : ts[c] # NoType => ts[c].parent < c
        BY <1>3
      <3>2. PICK many \in BOOLEAN : new = CreateType(ts, l, 0, many)
        OBVIOUS
      <3> HIDE DEF new
      <3>3. QED
        BY <2>3, <3>1, <3>2, CreateTypeOlder
    <2> HIDE DEF new
    <2>5. ftypes' = new
      BY <1>4, <1>6 DEF ts, l, new
    <2>6. \A c \in Types : \/ new[c] = ftypes[c]
                           \/ new[c].parent \in dlg[u].ps \cup {0}
      BY <1>3, <2>4
    <2>7. \A c \in Types : ftypes[c] # NoType => new[c] # NoType
      BY <1>3, <1>4, <2>4
    <2>8. QED
      BY <1>2, <1>4, <2>4, <2>5, <2>6, <2>7 DEF ParentOlder
  <1>7. QED
    BY <1>5, <1>6

LEMMA OlderOnOKAdd ==
    ASSUME OlderInv, NEW u \in Users, OnOKAdd(u)
    PROVE  OlderInv'
  <1>1. CASE ftypes' # ftypes
    <2>1. \A v \in Users : dlg'[v] = dlg[v] \/ dlg'[v].op # "addtype"
      BY <1>1, OKAddTypes DEF OlderInv, Close, Closed
    <2>2. DOMAIN dlg' = Users
      BY <1>1, OKAddTypes DEF OlderInv, Close
    <2>3. QED
      BY <1>1, <2>1, <2>2, OKAddTypes DEF OlderInv
  <1>2. CASE UNCHANGED ftypes
    <2>1. CASE Close(u)
      BY <1>2, <2>1, OlderClose
    <2>2. CASE UNCHANGED dlg
      BY <1>2, <2>2 DEF OlderInv, ParentOlder
    <2>3. Close(u) \/ UNCHANGED dlg
      BY DEF OnOKAdd
    <2>4. QED
      BY <2>1, <2>2, <2>3
  <1>3. QED
    BY <1>1, <1>2

\* What BDFTypeDelete leaves of the types: a definition may go, or its table.
LEMMA DeleteTypes ==
    ASSUME OlderInv, NEW u \in Users, BDFTypeDelete(u), ftypes' # ftypes
    PROVE  /\ dlg[u].op = "type"
           /\ DOMAIN ftypes' = Types
           /\ \A c \in Types :
                 \/ ftypes'[c] = ftypes[c]
                 \/ c = dlg[u].t /\ ftypes'[c] = NoType
                 \/ /\ Row(ftypes'[c]) /\ ftypes'[c] # NoType
                    /\ ftypes[c] # NoType /\ ftypes'[c].parent = ftypes[c].parent
  <1> DEFINE t == dlg[u].t
  <1>1. dlg[u].op = "type" /\ DropTables(t)
    BY DEF BDFTypeDelete, DeleteRows
  <1>2. \/ ftypes' = [ftypes EXCEPT ![t] = NoType]
        \/ ftypes' = [ftypes EXCEPT ![t].ref = 0] /\ ftypes[t].ref # 0
    BY <1>1 DEF DropTables
  <1>3. CASE ftypes' = [ftypes EXCEPT ![t] = NoType]
    BY <1>1, <1>3 DEF OlderInv
  <1>4. CASE ftypes' = [ftypes EXCEPT ![t].ref = 0] /\ ftypes[t].ref # 0
    <2>1. \A c \in Types : c # t => ftypes'[c] = ftypes[c]
      BY <1>4 DEF OlderInv
    <2>2. ASSUME t \in Types
          PROVE  /\ Row(ftypes'[t]) /\ ftypes'[t] # NoType
                 /\ ftypes[t] # NoType /\ ftypes'[t].parent = ftypes[t].parent
      <3>1. ftypes[t] # NoType
        BY <1>4 DEF NoType
      <3>2. /\ ftypes[t] = [parent |-> ftypes[t].parent, m2o |-> ftypes[t].m2o,
                            ref |-> ftypes[t].ref]
            /\ ftypes[t].parent \in 0..MaxType
        BY <2>2, <3>1 DEF OlderInv, Row
      <3>3. ftypes'[t] = [parent |-> ftypes[t].parent, m2o |-> ftypes[t].m2o,
                          ref |-> 0]
        BY <1>4, <2>2, <3>2 DEF OlderInv
      <3>4. QED
        BY <3>1, <3>2, <3>3 DEF Row, NoType, None
    <2>3. QED
      BY <1>1, <1>4, <2>1, <2>2 DEF OlderInv
  <1>5. QED
    BY <1>2, <1>3, <1>4

LEMMA OlderBDFTypeDelete ==
    ASSUME OlderInv, NEW u \in Users, BDFTypeDelete(u)
    PROVE  OlderInv'
  <1>1. Close(u)
    BY DEF BDFTypeDelete
  <1>2. CASE UNCHANGED ftypes
    BY <1>1, <1>2, OlderClose
  <1>3. CASE ftypes' # ftypes
    <2>1. \A c \in Types : Row(ftypes'[c])
      <3>1. Row(NoType)
        BY DEF Row, NoType
      <3>2. QED
        BY <1>3, <3>1, DeleteTypes DEF OlderInv
    <2>2. ParentOlder'
      BY <1>3, DeleteTypes DEF OlderInv, ParentOlder
    <2>3. /\ DOMAIN dlg' = Users
          /\ \A v \in Users : dlg'[v] = dlg[v] \/ dlg'[v].op # "addtype"
      BY <1>1 DEF OlderInv, Close, Closed
    <2>4. QED
      BY <1>3, <2>1, <2>2, <2>3, DeleteTypes DEF OlderInv
  <1>4. QED
    BY <1>2, <1>3

LEMMA OlderNext ==
    ASSUME OlderInv, [Next]_vars
    PROVE  OlderInv'
  <1>1. CASE UNCHANGED vars
    BY <1>1 DEF vars, OlderInv, ParentOlder
  <1>2. ASSUME NEW u \in Users, Cancel(u) PROVE OlderInv'
    BY <1>2, OlderClose DEF Cancel
  <1>3. ASSUME NEW u \in Users, AddType(u) PROVE OlderInv'
    BY <1>3, OlderAddType
  <1>4. ASSUME NEW u \in Users, OnOKAdd(u) PROVE OlderInv'
    BY <1>4, OlderOnOKAdd
  <1>5. ASSUME NEW u \in Users, DeleteType(u) PROVE OlderInv'
    <2>1. PICK t \in Defined(ftypes), what \in {"data", "features", "type"} :
             Show(u, what, t, 0, {})
      BY <1>5 DEF DeleteType
    <2>2. what # "addtype" /\ UNCHANGED ftypes
      BY <1>5 DEF DeleteType
    <2>3. QED
      BY <2>1, <2>2, OlderShow
  <1>6. ASSUME NEW u \in Users, BDFTypeDelete(u) PROVE OlderInv'
    BY <1>6, OlderBDFTypeDelete
  <1>7. ASSUME NEW u \in Users, AddFeature(u) PROVE OlderInv'
    BY <1>7, OlderShow DEF AddFeature
  <1>8. ASSUME NEW u \in Users, EditFeature(u) PROVE OlderInv'
    BY <1>8, OlderShow DEF EditFeature
  <1>9. ASSUME NEW u \in Users, FeatureOK(u) PROVE OlderInv'
    BY <1>9, OlderClose DEF FeatureOK
  <1>10. ASSUME NEW u \in Users, ImportRecord(u) PROVE OlderInv'
    BY <1>10 DEF ImportRecord, OlderInv, ParentOlder
  <1>11. ASSUME NEW u \in Users, DeleteFeature(u) PROVE OlderInv'
    BY <1>11, OlderShow DEF DeleteFeature
  <1>12. ASSUME NEW u \in Users, DeleteData(u) PROVE OlderInv'
    BY <1>12, OlderShow DEF DeleteData
  <1>13. ASSUME NEW u \in Users, DeleteRow(u) PROVE OlderInv'
    BY <1>13, OlderClose DEF DeleteRow
  <1>14. ASSUME NEW u \in Users, EditData(u) PROVE OlderInv'
    BY <1>14, OlderShow DEF EditData
  <1>15. ASSUME NEW u \in Users, DataOK(u) PROVE OlderInv'
    BY <1>15, OlderClose DEF DataOK
  <1>16. QED
    BY <1>1, <1>2, <1>3, <1>4, <1>5, <1>6, <1>7, <1>8, <1>9, <1>10, <1>11,
       <1>12, <1>13, <1>14, <1>15 DEF Next

\* However many users add and delete feature types at the same time, a type is
\* younger than its parent: the loop of BDFTypeI and the recursion of
\* GetChildren end.
THEOREM OlderTheorem == Spec => []ParentOlder
  <1>1. Init => OlderInv
    BY OlderInit
  <1>2. OlderInv /\ [Next]_vars => OlderInv'
    BY OlderNext
  <1>3. OlderInv => ParentOlder
    BY DEF OlderInv
  <1>4. QED
    BY <1>1, <1>2, <1>3, PTL DEF Spec

-----------------------------------------------------------------------------
OneUser == \A u, v \in Users : u = v

\* The strengthening of ParentFound for one user: what the dialog offers is
\* defined, and a type that is being deleted has no child.
FoundInv ==
    /\ OlderInv
    /\ ParentFound
    /\ \A u \in Users :
          /\ dlg[u].op = "addtype" =>
                \A p \in dlg[u].ps : p # 0 => ftypes[p] # NoType
          /\ dlg[u].op = "type" =>
                \A c \in Types : ftypes[c].parent # dlg[u].t

LEMMA FoundInit == Init => FoundInv
  BY OlderInit DEF Init, FoundInv, ParentFound, NoType, Closed

\* Steps that leave the types alone and start neither to add nor to delete one.
LEMMA FoundOther ==
    ASSUME FoundInv, OlderInv', UNCHANGED ftypes, NEW u \in Users,
           UNCHANGED dlg \/ Close(u) \/
           \E op \in Ops \ {"addtype", "type"} : \E t, id, ps : Show(u, op, t, id, ps)
    PROVE  FoundInv'
  <1>1. \A v \in Users : dlg'[v] = dlg[v] \/ dlg'[v].op \notin {"addtype", "type"}
    BY DEF FoundInv, OlderInv, Close, Closed, Show
  <1>2. QED
    BY <1>1 DEF FoundInv, ParentFound

LEMMA FoundAddType ==
    ASSUME FoundInv, OlderInv', NEW u \in Users, AddType(u)
    PROVE  FoundInv'
  <1>1. \A v \in Users :
           \/ dlg'[v] = dlg[v]
           \/ dlg'[v].op = "addtype" /\ dlg'[v].ps = {0} \cup Defined(ftypes)
    BY DEF AddType, Show, FoundInv, OlderInv
  <1>2. QED
    BY <1>1 DEF AddType, Defined, FoundInv, ParentFound

LEMMA FoundOnOKAdd ==
    ASSUME FoundInv, OlderInv', OneUser, NEW u \in Users, OnOKAdd(u)
    PROVE  FoundInv'
  <1>1. CASE UNCHANGED ftypes
    BY <1>1, FoundOther DEF OnOKAdd
  <1>2. CASE ftypes' # ftypes
    <2>1. \A v \in Users : dlg'[v] = Closed
      BY <1>2, OKAddTypes DEF OneUser, Close, FoundInv, OlderInv
    <2>2. ASSUME NEW c \in Types, ftypes'[c] # NoType, ftypes'[c].parent # 0
          PROVE  ftypes'[ftypes'[c].parent] # NoType
      <3>1. ftypes'[c].parent \in Types
        BY <2>2, NRDBFeaturesAssumption DEF OlderInv, Row, Types
      <3>2. ftypes[ftypes'[c].parent] # NoType
        <4>1. dlg[u].op = "addtype"
          BY <1>2, OKAddTypes DEF FoundInv
        <4>2. CASE ftypes'[c] = ftypes[c]
          BY <2>2, <4>2 DEF FoundInv, ParentFound
        <4>3. CASE ftypes'[c].parent \in dlg[u].ps \cup {0}
          BY <2>2, <4>1, <4>3 DEF FoundInv
        <4>4. QED
          BY <1>2, <4>2, <4>3, OKAddTypes DEF FoundInv
      <3>3. QED
        BY <1>2, <3>1, <3>2, OKAddTypes DEF FoundInv
    <2>3. QED
      BY <2>1, <2>2 DEF FoundInv, ParentFound, Closed
  <1>3. QED
    BY <1>1, <1>2

LEMMA FoundDeleteType ==
    ASSUME FoundInv, OlderInv', NEW u \in Users, DeleteType(u)
    PROVE  FoundInv'
  <1>1. PICK t \in Defined(ftypes), what \in {"data", "features", "type"} :
           /\ what # "data" => Children(ftypes, t) = {}
           /\ Show(u, what, t, 0, {})
    BY DEF DeleteType
  <1>2. what = "type" => \A c \in Types : ftypes[c].parent # t
    BY <1>1 DEF Children
  <1>3. \A v \in Users : \/ dlg'[v] = dlg[v]
                         \/ dlg'[v].op = what /\ dlg'[v].t = t
    BY <1>1 DEF Show, FoundInv, OlderInv
  <1>4. QED
    BY <1>2, <1>3 DEF DeleteType, FoundInv, ParentFound

LEMMA FoundBDFTypeDelete ==
    ASSUME FoundInv, OlderInv', OneUser, NEW u \in Users, BDFTypeDelete(u)
    PROVE  FoundInv'
  <1>1. CASE UNCHANGED ftypes
    BY <1>1, FoundOther DEF BDFTypeDelete
  <1>2. CASE ftypes' # ftypes
    <2>1. \A v \in Users : dlg'[v] = Closed
      BY DEF BDFTypeDelete, OneUser, Close, FoundInv, OlderInv
    <2>2. ASSUME NEW c \in Types, ftypes'[c] # NoType, ftypes'[c].parent # 0
          PROVE  ftypes'[ftypes'[c].parent] # NoType
      <3>1. ftypes[c] # NoType /\ ftypes'[c].parent = ftypes[c].parent
        BY <1>2, <2>2, DeleteTypes DEF FoundInv
      <3>2. ftypes'[c].parent \in Types
        BY <2>2, NRDBFeaturesAssumption DEF OlderInv, Row, Types
      <3>3. ftypes[ftypes'[c].parent] # NoType /\ ftypes'[c].parent # dlg[u].t
        BY <1>2, <2>2, <3>1, DeleteTypes DEF FoundInv, ParentFound
      <3>4. QED
        BY <1>2, <3>2, <3>3, DeleteTypes DEF FoundInv
    <2>3. QED
      BY <2>1, <2>2 DEF FoundInv, ParentFound, Closed
  <1>3. QED
    BY <1>1, <1>2

LEMMA FoundNext ==
    ASSUME FoundInv, OneUser, [Next]_vars
    PROVE  FoundInv'
  <1>1. OlderInv'
    BY OlderNext DEF FoundInv
  <1>2. CASE UNCHANGED vars
    BY <1>1, <1>2 DEF vars, FoundInv, ParentFound
  <1>3. ASSUME NEW u \in Users, AddType(u) PROVE FoundInv'
    BY <1>1, <1>3, FoundAddType
  <1>4. ASSUME NEW u \in Users, OnOKAdd(u) PROVE FoundInv'
    BY <1>1, <1>4, FoundOnOKAdd
  <1>5. ASSUME NEW u \in Users, DeleteType(u) PROVE FoundInv'
    BY <1>1, <1>5, FoundDeleteType
  <1>6. ASSUME NEW u \in Users, BDFTypeDelete(u) PROVE FoundInv'
    BY <1>1, <1>6, FoundBDFTypeDelete
  <1>7. ASSUME NEW u \in Users,
               \/ Cancel(u) \/ FeatureOK(u) \/ DeleteRow(u) \/ DataOK(u)
        PROVE  FoundInv'
    <2>1. UNCHANGED ftypes /\ Close(u)
      BY <1>7 DEF Cancel, FeatureOK, DeleteRow, DataOK
    <2>2. QED
      BY <1>1, <2>1, FoundOther
  <1>8. ASSUME NEW u \in Users, ImportRecord(u) PROVE FoundInv'
    BY <1>1, <1>8, FoundOther DEF ImportRecord
  <1>9. ASSUME NEW u \in Users,
               \/ AddFeature(u) \/ EditFeature(u) \/ DeleteFeature(u)
               \/ DeleteData(u) \/ EditData(u)
        PROVE  FoundInv'
    <2>1. \E op \in Ops \ {"addtype", "type"} : \E t, id, ps : Show(u, op, t, id, ps)
      BY <1>9 DEF AddFeature, EditFeature, DeleteFeature, DeleteData, EditData, Ops
    <2>2. UNCHANGED ftypes
      BY <1>9 DEF AddFeature, EditFeature, DeleteFeature, DeleteData, EditData
    <2>3. QED
      BY <1>1, <2>1, <2>2, FoundOther
  <1>10. QED
    BY <1>2, <1>3, <1>4, <1>5, <1>6, <1>7, <1>8, <1>9 DEF Next

\* With one user the assertion of BDFTypeI holds: whatever is added and deleted,
\* the parent of a type is defined.
THEOREM FoundTheorem == OneUser => (Spec => []ParentFound)
  <1> SUFFICES ASSUME OneUser PROVE Spec => []ParentFound
    OBVIOUS
  <1>1. Init => FoundInv
    BY FoundInit
  <1>2. FoundInv /\ [Next]_vars => FoundInv'
    BY FoundNext
  <1>3. FoundInv => ParentFound
    BY DEF FoundInv
  <1>4. QED
    BY <1>1, <1>2, <1>3, PTL DEF Spec

-----------------------------------------------------------------------------
\* Induction over the numbers, for a set: the least number outside it.
LEMMA Induct ==
    ASSUME NEW S, \A n \in Nat : (\A m \in Nat : m < n => m \in S) => n \in S
    PROVE  \A n \in Nat : n \in S
  <1> DEFINE D == Nat \ S
  <1> SUFFICES ASSUME D # {} PROVE FALSE
    OBVIOUS
  <1>1. PICK d \in D : \A e \in D : ~(<<e, d>> \in OpToRel(<, Nat))
    <2>1. IsWellFoundedOn(OpToRel(<, Nat), Nat)
      BY NatLessThanWellFounded, Zenon
    <2>2. D \subseteq Nat
      OBVIOUS
    <2> QED
      BY <2>1, <2>2, WFMin, Zenon
  <1>2. \A m \in Nat : m < d => m \in S
    BY <1>1 DEF OpToRel
  <1> QED
    BY <1>2

-----------------------------------------------------------------------------
\* The function of BDFTypeI: g goes up from t with its values for the types before.
Up(ts, g, t) == IF t = 0 \/ ts[t] = NoType THEN 0
                ELSE IF OwnFeatures(ts, t) THEN t
                ELSE g[ts[t].parent]

Older(ts) == \A t \in Types : ts[t] # NoType => ts[t].parent \in 0..t - 1

LEMMA UpIs ==
    ASSUME NEW ts, NEW x
    PROVE  BDFTypeI(ts, x) = (CHOOSE g : g = [t \in 0..MaxType |-> Up(ts, g, t)])[x]
  BY DEF BDFTypeI, Up

\* The recursion has a solution, as it goes up to older types.
LEMMA UpExists ==
    ASSUME NEW ts, Older(ts)
    PROVE  \E g : g = [t \in 0..MaxType |-> Up(ts, g, t)]
  <1> DEFINE Solves(g, n) == /\ g \in [0..n -> 0..MaxType]
                             /\ \A t \in 0..n : g[t] = Up(ts, g, t)
             S == {n \in Nat : n <= MaxType => \E g : Solves(g, n)}
  <1>0. MaxType \in Nat \ {0}
    BY NRDBFeaturesAssumption
  <1>1. ASSUME NEW n \in Nat, \A m \in Nat : m < n => m \in S
        PROVE  n \in S
    <2> SUFFICES ASSUME n <= MaxType PROVE \E g : Solves(g, n)
      OBVIOUS
    <2>1. PICK h : \A t \in 0..n - 1 : h[t] \in 0..MaxType /\ h[t] = Up(ts, h, t)
      <3>1. CASE n = 0
        BY <3>1
      <3>2. CASE n # 0
        <4>1. n - 1 \in Nat /\ n - 1 < n /\ n - 1 <= MaxType
          BY <1>0, <3>2
        <4>2. PICK g : Solves(g, n - 1)
          BY <1>1, <4>1
        <4> QED
          BY <4>2
      <3> QED
        BY <3>1, <3>2
    <2> DEFINE g == [t \in 0..n |-> Up(ts, h, t)]
    <2>2. \A t \in 0..n : Up(ts, h, t) \in 0..MaxType
      <3> SUFFICES ASSUME NEW t \in 0..n PROVE Up(ts, h, t) \in 0..MaxType
        OBVIOUS
      <3>1. t \in 0..MaxType
        BY <1>0
      <3>2. ASSUME t # 0, ts[t] # NoType
            PROVE  h[ts[t].parent] \in 0..MaxType
        <4>1. t \in Types
          BY <3>1, <3>2, <1>0 DEF Types
        <4>2. ts[t].parent \in 0..t - 1
          BY <3>2, <4>1 DEF Older
        <4>3. ts[t].parent \in 0..n - 1
          BY <4>2
        <4> QED
          BY <2>1, <4>3
      <3> QED
        BY <1>0, <3>1, <3>2 DEF Up
    <2>3. \A t \in 0..n - 1 : g[t] = h[t]
      BY <2>1
    <2>4. \A t \in 0..n : Up(ts, g, t) = Up(ts, h, t)
      <3> SUFFICES ASSUME NEW t \in 0..n, t # 0, ts[t] # NoType
                   PROVE  g[ts[t].parent] = h[ts[t].parent]
        BY DEF Up
      <3>1. t \in Types
        BY <1>0 DEF Types
      <3>2. ts[t].parent \in 0..t - 1
        BY <3>1 DEF Older
      <3>3. ts[t].parent \in 0..n - 1
        BY <3>2
      <3> QED
        BY <2>3, <3>3
    <2>5. Solves(g, n)
      <3>1. g \in [0..n -> 0..MaxType]
        BY <2>2
      <3>2. \A t \in 0..n : g[t] = Up(ts, h, t)
        OBVIOUS
      <3> HIDE DEF g
      <3> QED
        BY <2>4, <3>1, <3>2
    <2> QED
      BY <2>5
  <1>2. MaxType \in S
    <2> HIDE DEF S
    <2> QED
      BY <1>0, <1>1, Induct
  <1>3. PICK g : Solves(g, MaxType)
    BY <1>0, <1>2
  <1>4. g = [t \in 0..MaxType |-> Up(ts, g, t)]
    BY <1>3
  <1> QED
    BY <1>4

\* So BDFTypeI is what its recursion says.
LEMMA BDFTypeIIs ==
    ASSUME NEW ts, Older(ts), NEW t \in 0..MaxType
    PROVE  BDFTypeI(ts, t) = IF t = 0 \/ ts[t] = NoType THEN 0
                             ELSE IF OwnFeatures(ts, t) THEN t
                             ELSE BDFTypeI(ts, ts[t].parent)
  <1> DEFINE up == CHOOSE g : g = [x \in 0..MaxType |-> Up(ts, g, x)]
  <1>1. up = [x \in 0..MaxType |-> Up(ts, up, x)]
    BY UpExists
  <1>2. \A x : BDFTypeI(ts, x) = up[x]
    BY UpIs
  <1> HIDE DEF up
  <1>3. up[t] = Up(ts, up, t)
    BY <1>1
  <1> QED
    BY <1>2, <1>3 DEF Up

LEMMA BDFTypeIType ==
    ASSUME NEW ts, Older(ts), NEW t \in 0..MaxType
    PROVE  BDFTypeI(ts, t) \in 0..MaxType
  <1> DEFINE S == {n \in Nat : n <= MaxType => BDFTypeI(ts, n) \in 0..MaxType}
  <1>0. MaxType \in Nat \ {0}
    BY NRDBFeaturesAssumption
  <1>1. ASSUME NEW n \in Nat, \A m \in Nat : m < n => m \in S
        PROVE  n \in S
    <2> SUFFICES ASSUME n <= MaxType PROVE BDFTypeI(ts, n) \in 0..MaxType
      OBVIOUS
    <2>0. n \in 0..MaxType
      BY <1>0
    <2>1. ASSUME n # 0, ts[n] # NoType
          PROVE  BDFTypeI(ts, ts[n].parent) \in 0..MaxType
      <3>1. n \in Types
        BY <1>0, <2>1 DEF Types
      <3>2. ts[n].parent \in 0..n - 1
        BY <2>1, <3>1 DEF Older
      <3>3. ts[n].parent \in Nat /\ ts[n].parent < n /\ ts[n].parent <= MaxType
        BY <1>0, <3>2
      <3> QED
        BY <1>1, <3>3
    <2> QED
      BY <1>0, <2>0, <2>1, BDFTypeIIs
  <1>2. t \in Nat /\ t <= MaxType
    BY <1>0
  <1>3. t \in S
    <2> HIDE DEF S
    <2> QED
      BY <1>1, <1>2, Induct
  <1> QED
    BY <1>2, <1>3

-----------------------------------------------------------------------------
\* The function of GetChildren: g goes down to the children that are 1:1.
Kids(ts, t) == {c \in Children(ts, t) : ~ts[c].m2o}
Down(ts, g, t) == Kids(ts, t) \cup UNION {g[c] : c \in Kids(ts, t)}

LEMMA DownIs ==
    ASSUME NEW ts, NEW x
    PROVE  GetChildren121(ts, x) = (CHOOSE g : g = [t \in Types |-> Down(ts, g, t)])[x]
  BY DEF GetChildren121, Down, Kids

LEMMA KidsYounger ==
    ASSUME NEW ts, Older(ts), NEW t \in Types, NEW c \in Kids(ts, t)
    PROVE  c \in Types /\ t < c /\ c <= MaxType /\ ts[c].parent = t /\ ~ts[c].m2o
  <1>1. c \in Types /\ ts[c].parent = t /\ ~ts[c].m2o
    BY DEF Kids, Children
  <1>2. ts[c] # NoType
    <2>1. NoType.parent = -1 /\ t # -1
      BY NRDBFeaturesAssumption DEF NoType, None, Types
    <2> QED
      BY <1>1, <2>1
  <1>3. t \in 0..c - 1
    BY <1>1, <1>2 DEF Older
  <1> QED
    BY <1>1, <1>3, NRDBFeaturesAssumption DEF Types

\* Down looks at g for the 1:1 children only.
LEMMA DownSame ==
    ASSUME NEW ts, NEW t, NEW g, NEW h, \A c \in Kids(ts, t) : g[c] = h[c]
    PROVE  Down(ts, g, t) = Down(ts, h, t)
  <1>1. {g[c] : c \in Kids(ts, t)} = {h[c] : c \in Kids(ts, t)}
    OBVIOUS
  <1> QED
    BY <1>1 DEF Down

\* The recursion has a solution, as it goes down to younger types.
LEMMA DownExists ==
    ASSUME NEW ts, Older(ts)
    PROVE  \E g : g = [t \in Types |-> Down(ts, g, t)]
  <1> DEFINE Solves(g, n) == \A t \in Types : MaxType - n <= t => g[t] = Down(ts, g, t)
             S == {n \in Nat : \E g : Solves(g, n)}
  <1>0. MaxType \in Nat \ {0}
    BY NRDBFeaturesAssumption
  <1>1. ASSUME NEW n \in Nat, \A m \in Nat : m < n => m \in S
        PROVE  n \in S
    <2>1. PICK h : \A t \in Types : MaxType - n < t => h[t] = Down(ts, h, t)
      <3>1. CASE n = 0
        <4>1. \A t \in Types : ~(MaxType < t)
          BY <1>0 DEF Types
        <4> QED
          BY <3>1, <4>1, <1>0
      <3>2. CASE n # 0
        <4>1. n - 1 \in Nat /\ n - 1 < n
          BY <3>2
        <4>2. PICK g : Solves(g, n - 1)
          BY <1>1, <4>1
        <4>3. \A t \in Types : MaxType - n < t => MaxType - (n - 1) <= t
          BY <1>0 DEF Types
        <4> QED
          BY <4>2, <4>3
      <3> QED
        BY <3>1, <3>2
    <2> DEFINE g == [t \in Types |-> Down(ts, h, t)]
    <2>2. \A t \in Types : MaxType - n < t => g[t] = h[t]
      BY <2>1
    <2>3. \A t \in Types : g[t] = Down(ts, h, t)
      OBVIOUS
    <2> HIDE DEF g
    <2>4. ASSUME NEW t \in Types, MaxType - n <= t
          PROVE  g[t] = Down(ts, g, t)
      <3>1. \A c \in Kids(ts, t) : c \in Types /\ t < c
        BY KidsYounger
      <3>2. \A c \in Kids(ts, t) : c \in Types /\ MaxType - n < c
        BY <1>0, <2>4, <3>1 DEF Types
      <3>3. Down(ts, g, t) = Down(ts, h, t)
        BY <2>2, <3>2, DownSame
      <3> QED
        BY <2>3, <3>3
    <2> QED
      BY <2>4
  <1>2. MaxType \in S
    <2> HIDE DEF S
    <2> QED
      BY <1>0, <1>1, Induct
  <1>3. PICK g : Solves(g, MaxType)
    BY <1>2
  <1>4. \A t \in Types : g[t] = Down(ts, g, t)
    BY <1>0, <1>3 DEF Types
  <1> DEFINE f == [t \in Types |-> g[t]]
  <1>5. \A t \in Types : f[t] = g[t]
    OBVIOUS
  <1>6. f = [t \in Types |-> f[t]]
    OBVIOUS
  <1> HIDE DEF f
  <1>7. ASSUME NEW t \in Types
        PROVE  f[t] = Down(ts, f, t)
    <2>1. \A c \in Kids(ts, t) : f[c] = g[c]
      BY <1>5, KidsYounger
    <2> QED
      BY <1>4, <1>5, <2>1, DownSame
  <1>8. f = [t \in Types |-> Down(ts, f, t)]
    BY <1>6, <1>7
  <1> QED
    BY <1>8

\* So GetChildren is what its recursion says.
LEMMA GetChildren121Is ==
    ASSUME NEW ts, Older(ts), NEW t \in Types
    PROVE  GetChildren121(ts, t) =
              Kids(ts, t) \cup UNION {GetChildren121(ts, c) : c \in Kids(ts, t)}
  <1> DEFINE down == CHOOSE g : g = [x \in Types |-> Down(ts, g, x)]
  <1>1. down = [x \in Types |-> Down(ts, down, x)]
    BY DownExists
  <1>2. \A x : GetChildren121(ts, x) = down[x]
    BY DownIs
  <1> HIDE DEF down
  <1>3. down[t] = Down(ts, down, t)
    BY <1>1
  <1>4. {GetChildren121(ts, c) : c \in Kids(ts, t)} = {down[c] : c \in Kids(ts, t)}
    BY <1>2
  <1> QED
    BY <1>2, <1>3, <1>4 DEF Down

\* It misses none: the 1:1 children of those it has found are among them.
LEMMA GetChildren121Closed ==
    ASSUME NEW ts, Older(ts), NEW t \in Types, NEW q \in GetChildren121(ts, t)
    PROVE  q \in Types /\ Kids(ts, q) \subseteq GetChildren121(ts, t)
  <1> DEFINE G(x) == GetChildren121(ts, x)
             Good(x) == \A y \in G(x) : y \in Types /\ Kids(ts, y) \subseteq G(x)
             S == {n \in Nat : \A x \in Types : x = MaxType - n => Good(x)}
  <1>0. MaxType \in Nat \ {0}
    BY NRDBFeaturesAssumption
  <1>1. \A x \in Types : \A y : y \in G(x) <=>
            y \in Kids(ts, x) \/ \E c \in Kids(ts, x) : y \in G(c)
    BY GetChildren121Is
  <1>2. \A x \in Types : \A c \in Kids(ts, x) : c \in Types /\ x < c
    BY KidsYounger
  <1> HIDE DEF G
  <1>3. ASSUME NEW n \in Nat, \A m \in Nat : m < n => m \in S
        PROVE  n \in S
    <2> SUFFICES ASSUME NEW x \in Types, x = MaxType - n,
                        NEW y \in G(x)
                 PROVE  y \in Types /\ Kids(ts, y) \subseteq G(x)
      OBVIOUS
    <2>1. CASE y \in Kids(ts, x)
      BY <1>1, <1>2, <2>1
    <2>2. ASSUME NEW c \in Kids(ts, x), y \in G(c)
          PROVE  y \in Types /\ Kids(ts, y) \subseteq G(x)
      <3>1. c \in Types /\ x < c
        BY <1>2
      <3>2. MaxType - c \in Nat /\ MaxType - c < n /\ c = MaxType - (MaxType - c)
        BY <1>0, <3>1 DEF Types
      <3>3. Good(c)
        BY <1>3, <3>1, <3>2
      <3> QED
        BY <1>1, <2>2, <3>3
    <2> QED
      BY <1>1, <2>1, <2>2
  <1>4. MaxType - t \in Nat /\ t = MaxType - (MaxType - t)
    BY <1>0 DEF Types
  <1>5. MaxType - t \in S
    <2> HIDE DEF S
    <2> QED
      BY <1>3, <1>4, Induct
  <1>6. Good(t)
    BY <1>4, <1>5
  <1> QED
    BY <1>6 DEF G

-----------------------------------------------------------------------------
(* Types *)

\* TypeOK needs to know which of the two kinds of parents a dialog offers, and
\* that a feature is added or changed with an id that features have.
DialogType(d) ==
    /\ d.op # "addtype" => d.ps \subseteq 0..MaxFeature
    /\ d.op \in {"addfeature", "editfeature"} => d.id \in Ids

TypeInv ==
    /\ OlderInv
    /\ TypeOK
    /\ \A u \in Users : DialogType(dlg[u])

LEMMA TypesOlder ==
    ASSUME TypeInv
    PROVE  Older(ftypes)
  BY NRDBFeaturesAssumption
  DEF TypeInv, OlderInv, ParentOlder, TypeOK, FType, NoType, None, Older, Types

LEMMA TypeInit == Init => TypeInv
  <1> SUFFICES ASSUME Init PROVE TypeInv
    OBVIOUS
  <1>1. OlderInv
    BY OlderInit
  <1>2. DialogType(Closed)
    BY DEF Closed, DialogType
  <1> QED
    BY <1>1, <1>2 DEF Init, TypeInv, TypeOK, rows

\* The dialog that is open when a step has closed or shown one
LEMMA CloseType ==
    ASSUME TypeInv, NEW u \in Users, Close(u)
    PROVE  /\ dlg' \in [Users -> Dialog \cup {Closed}]
           /\ \A v \in Users : DialogType(dlg'[v])
  <1>1. DialogType(Closed)
    BY DEF Closed, DialogType
  <1> QED
    BY <1>1 DEF Close, TypeInv, TypeOK, rows

LEMMA ShowType ==
    ASSUME TypeInv, NEW u \in Users,
           NEW op \in Ops \ {"addtype"}, NEW t \in Types, NEW id \in 0..MaxFeature,
           NEW ps \in SUBSET (0..MaxFeature), Show(u, op, t, id, ps),
           op \in {"addfeature", "editfeature"} => id \in Ids
    PROVE  /\ dlg' \in [Users -> Dialog \cup {Closed}]
           /\ \A v \in Users : DialogType(dlg'[v])
  <1> DEFINE d == [op |-> op, t |-> t, id |-> id, ps |-> ps]
  <1>1. d \in Dialog /\ DialogType(d)
    BY DEF Dialog, DialogType
  <1>2. dlg' = [dlg EXCEPT ![u] = d]
    BY DEF Show
  <1> HIDE DEF d
  <1> QED
    BY <1>1, <1>2 DEF TypeInv, TypeOK, rows

\* Features are numbered from 1, and so is the next one.
LEMMA FeatureIds ==
    ASSUME NEW t, BDNextId(FeaturesOf(t)) <= MaxFeature
    PROVE  /\ FeaturesOf(t) \subseteq Ids
           /\ BDNextId(FeaturesOf(t)) \in Ids
           /\ BDNextId(FeaturesOf(t)) \notin FeaturesOf(t)
  <1>1. FeaturesOf(t) \in SUBSET (1..MaxFeature)
    BY DEF FeaturesOf, Ids
  <1> DEFINE next == BDNextId(FeaturesOf(t))
  <1>2. next \in Nat \ {0} /\ \A n \in FeaturesOf(t) : n < next
    BY <1>1, NextIdGreater, NRDBFeaturesAssumption
  <1>3. next <= MaxFeature
    OBVIOUS
  <1> HIDE DEF next
  <1>4. next \in Ids /\ next \notin FeaturesOf(t)
    BY <1>2, <1>3, NRDBFeaturesAssumption DEF Ids
  <1> QED
    BY <1>1, <1>4 DEF Ids, next

LEMMA IdsSmall == Ids \subseteq 0..MaxFeature /\ 0 \in 0..MaxFeature
  BY NRDBFeaturesAssumption DEF Ids

LEMMA ParentListType ==
    ASSUME NEW t
    PROVE  ParentList(t) \subseteq 0..MaxFeature /\ Parents(t) \subseteq 0..MaxFeature
  <1>1. \A x : FeaturesOf(x) \subseteq Ids
    BY DEF FeaturesOf
  <1> QED
    BY <1>1, IdsSmall DEF ParentList, Parents, NoParent

LEMMA CreateTypeType ==
    ASSUME NEW ts \in [Types -> FType \cup {NoType}], Older(ts),
           NEW t \in Types, NEW p \in 0..t - 1, NEW m2o \in BOOLEAN
    PROVE  /\ CreateType(ts, t, p, m2o) \in [Types -> FType \cup {NoType}]
           /\ Older(CreateType(ts, t, p, m2o))
  <1>1. p \in 0..MaxType /\ t \in 0..MaxType
    BY NRDBFeaturesAssumption DEF Types
  <1> DEFINE rec(r) == [parent |-> p, m2o |-> m2o, ref |-> r]
             added(r) == [ts EXCEPT ![t] = rec(r)]
  <1>2. \A r : rec(r).parent = p
    OBVIOUS
  <1>3. \A r \in 0..MaxType : rec(r) \in FType
    BY <1>1 DEF FType
  <1> HIDE DEF rec
  <1>4. \A r : Older(added(r))
    BY <1>2 DEF Older
  <1>5. \A r \in 0..MaxType : added(r) \in [Types -> FType \cup {NoType}]
    BY <1>3
  <1>6. BDFTypeI(added(0), t) \in 0..MaxType
    BY <1>1, <1>4, BDFTypeIType
  <1>7. CreateType(ts, t, p, m2o) = added(BDFTypeI(added(0), t))
    BY DEF CreateType, rec
  <1> QED
    BY <1>4, <1>5, <1>6, <1>7

LEMMA TypeAddType ==
    ASSUME TypeInv, OlderInv', NEW u \in Users, AddType(u)
    PROVE  TypeInv'
  <1> DEFINE n == BDNextId(Defined(ftypes))
             d == [op |-> "addtype", t |-> n, id |-> 0, ps |-> {0} \cup Defined(ftypes)]
  <1>1. Defined(ftypes) \in SUBSET (1..MaxType)
    BY DEF Defined, Types
  <1>2. n \in Nat \ {0}
    BY <1>1, NextIdGreater, NRDBFeaturesAssumption
  <1>3. n \in Types /\ UNCHANGED <<ftypes, rows, data>> /\ dlg' = [dlg EXCEPT ![u] = d]
    BY <1>2, NRDBFeaturesAssumption DEF AddType, Show, Types
  <1>4. {0} \cup Defined(ftypes) \in SUBSET (0..MaxType)
    BY <1>1, NRDBFeaturesAssumption
  <1> HIDE DEF n
  <1>5. d \in Dialog /\ DialogType(d)
    BY <1>3, <1>4, IdsSmall DEF Dialog, DialogType, Ops
  <1> HIDE DEF d
  <1> QED
    BY <1>3, <1>5 DEF TypeInv, TypeOK, rows

LEMMA TypeOnOKAdd ==
    ASSUME TypeInv, OlderInv', NEW u \in Users, OnOKAdd(u)
    PROVE  TypeInv'
  <1>1. UNCHANGED <<rows, data>>
    BY DEF OnOKAdd
  <1>2. CASE UNCHANGED ftypes
    <2>1. Close(u) \/ UNCHANGED dlg
      BY DEF OnOKAdd
    <2> QED
      BY <1>1, <1>2, <2>1, CloseType DEF TypeInv, TypeOK, rows
  <1>3. CASE ftypes' # ftypes
    <2> DEFINE t == dlg[u].t
    <2>1. PICK p \in dlg[u].ps, m2o \in BOOLEAN, link \in BOOLEAN :
             LET ts == CreateType(ftypes, t, p, m2o)
                 l == BDNextId(Defined(ts))
             IN  /\ link => l <= MaxType
                 /\ ftypes' = IF link THEN CreateType(ts, l, 0, TRUE) ELSE ts
                 /\ Close(u)
      BY <1>3 DEF OnOKAdd
    <2> DEFINE ts == CreateType(ftypes, t, p, m2o)
               l == BDNextId(Defined(ts))
    <2>2. t \in Types /\ p \in 0..t - 1
      BY DEF OnOKAdd, TypeInv, OlderInv
    <2>3. ts \in [Types -> FType \cup {NoType}] /\ Older(ts)
      BY <2>2, TypesOlder, CreateTypeType DEF TypeInv, TypeOK, rows
    <2>4. link => l \in Types /\ 0 \in 0..l - 1
      <3>1. Defined(ts) \in SUBSET (1..MaxType)
        BY DEF Defined, Types
      <3>2. l \in Nat \ {0}
        BY <3>1, NextIdGreater, NRDBFeaturesAssumption
      <3> QED
        BY <2>1, <3>2, NRDBFeaturesAssumption DEF Types
    <2>5. ftypes' = (IF link THEN CreateType(ts, l, 0, TRUE) ELSE ts) /\ Close(u)
      BY <2>1
    <2> HIDE DEF ts, l
    <2>6. ftypes' \in [Types -> FType \cup {NoType}]
      <3>1. PICK many \in BOOLEAN : many = TRUE
        OBVIOUS
      <3>2. link => CreateType(ts, l, 0, many) \in [Types -> FType \cup {NoType}]
        BY <2>3, <2>4, CreateTypeType
      <3> QED
        BY <2>3, <2>5, <3>1, <3>2
    <2> QED
      BY <1>1, <2>5, <2>6, CloseType DEF TypeInv, TypeOK, rows
  <1> QED
    BY <1>2, <1>3

LEMMA DropFeaturesType ==
    ASSUME TypeInv, NEW t, DropFeatures(t)
    PROVE  /\ features' \in [Types \X Ids -> {None} \cup 0..MaxFeature]
           /\ blank' \subseteq Types \X Ids
  BY DEF TypeInv, TypeOK, DropFeatures

LEMMA SetFeatureType ==
    ASSUME TypeInv, NEW t \in Types, NEW f, NEW p \in {None} \cup 0..MaxFeature, NEW b,
           SetFeature(t, f, p, b), f \in Ids \/ b = FALSE
    PROVE  /\ features' \in [Types \X Ids -> {None} \cup 0..MaxFeature]
           /\ blank' \subseteq Types \X Ids
  BY DEF TypeInv, TypeOK, SetFeature

LEMMA TypeBDFTypeDelete ==
    ASSUME TypeInv, OlderInv', NEW u \in Users, BDFTypeDelete(u)
    PROVE  TypeInv'
  <1> DEFINE t == dlg[u].t
  <1>1. DeleteRows(t, dlg[u].op) \/ DropTables(t)
    BY DEF BDFTypeDelete
  <1>2. UNCHANGED rows \/ DropFeatures(t)
    BY <1>1 DEF DeleteRows, DropTables
  <1>3. /\ features' \in [Types \X Ids -> {None} \cup 0..MaxFeature]
        /\ blank' \subseteq Types \X Ids
    BY <1>2, DropFeaturesType DEF TypeInv, TypeOK, rows
  <1>4. data' \subseteq Types \X Ids
    <2>1. UNCHANGED data \/ DropData(t)
      BY <1>1 DEF DeleteRows, DropTables
    <2> QED
      BY <2>1 DEF DropData, TypeInv, TypeOK, rows
  <1>5. ftypes' \in [Types -> FType \cup {NoType}]
    <2>1. \/ UNCHANGED ftypes \/ ftypes' = [ftypes EXCEPT ![t] = NoType]
          \/ ftypes' = [ftypes EXCEPT ![t].ref = 0] /\ ftypes[t].ref # 0
      BY <1>1 DEF DeleteRows, DropTables
    <2>2. CASE UNCHANGED ftypes \/ ftypes' = [ftypes EXCEPT ![t] = NoType]
      BY <2>2 DEF TypeInv, TypeOK, rows
    <2>3. CASE ftypes' = [ftypes EXCEPT ![t].ref = 0] /\ ftypes[t].ref # 0
      <3>1. t \in Types => ftypes[t] \in FType
        BY <2>3 DEF TypeInv, TypeOK, rows, NoType
      <3>2. t \in Types => [ftypes[t] EXCEPT !.ref = 0] \in FType
        BY <3>1, NRDBFeaturesAssumption DEF FType
      <3> QED
        BY <2>3, <3>2 DEF TypeInv, TypeOK, rows
    <2> QED
      BY <2>1, <2>2, <2>3
  <1> QED
    BY <1>3, <1>4, <1>5, CloseType DEF BDFTypeDelete, TypeInv, TypeOK, rows

\* Steps that only show a dialog
LEMMA TypeShow ==
    ASSUME TypeInv, OlderInv', UNCHANGED <<ftypes, rows, data>>, NEW u \in Users,
           \E op \in Ops \ {"addtype"}, t \in Types, id \in 0..MaxFeature,
              ps \in SUBSET (0..MaxFeature) :
              /\ Show(u, op, t, id, ps)
              /\ op \in {"addfeature", "editfeature"} => id \in Ids
    PROVE  TypeInv'
  BY ShowType DEF TypeInv, TypeOK, rows

LEMMA TypeNext ==
    ASSUME TypeInv, [Next]_vars
    PROVE  TypeInv'
  <1>0. OlderInv'
    BY OlderNext DEF TypeInv
  <1>1. CASE UNCHANGED vars
    BY <1>0, <1>1 DEF vars, rows, TypeInv, TypeOK
  <1>2. ASSUME NEW u \in Users, Cancel(u) PROVE TypeInv'
    BY <1>0, <1>2, CloseType DEF Cancel, TypeInv, TypeOK, rows
  <1>3. ASSUME NEW u \in Users, AddType(u) PROVE TypeInv'
    BY <1>0, <1>3, TypeAddType
  <1>4. ASSUME NEW u \in Users, OnOKAdd(u) PROVE TypeInv'
    BY <1>0, <1>4, TypeOnOKAdd
  <1>5. ASSUME NEW u \in Users, DeleteType(u) PROVE TypeInv'
    <2>1. UNCHANGED <<ftypes, rows, data>>
      BY <1>5 DEF DeleteType
    <2>2. PICK t \in Defined(ftypes), what \in {"data", "features", "type"} :
             Show(u, what, t, 0, {})
      BY <1>5 DEF DeleteType
    <2>3. t \in Types /\ what \in Ops \ {"addtype"} /\ {} \in SUBSET (0..MaxFeature)
      BY DEF Defined, Ops
    <2> QED
      BY <1>0, <2>1, <2>2, <2>3, IdsSmall, TypeShow
  <1>6. ASSUME NEW u \in Users, BDFTypeDelete(u) PROVE TypeInv'
    BY <1>0, <1>6, TypeBDFTypeDelete
  <1>7. ASSUME NEW u \in Users, AddFeature(u) PROVE TypeInv'
    <2>1. UNCHANGED <<ftypes, rows, data>> /\ "addfeature" \in Ops \ {"addtype"}
      BY <1>7 DEF AddFeature, Ops
    <2>2. PICK t \in Types :
             /\ BDNextId(FeaturesOf(t)) <= MaxFeature
             /\ Show(u, "addfeature", t, BDNextId(FeaturesOf(t)), ParentList(t))
      BY <1>7 DEF AddFeature
    <2>3. BDNextId(FeaturesOf(t)) \in 0..MaxFeature /\ BDNextId(FeaturesOf(t)) \in Ids
      BY <2>2, FeatureIds, IdsSmall
    <2> QED
      BY <1>0, <2>1, <2>2, <2>3, ParentListType, TypeShow
  <1>8. ASSUME NEW u \in Users, EditFeature(u) PROVE TypeInv'
    <2>1. UNCHANGED <<ftypes, rows, data>> /\ "editfeature" \in Ops \ {"addtype"}
      BY <1>8 DEF EditFeature, Ops
    <2>2. PICK t \in Types : \E f \in FeaturesOf(t) :
             Show(u, "editfeature", t, f, ParentList(t))
      BY <1>8 DEF EditFeature
    <2>3. FeaturesOf(t) \subseteq 0..MaxFeature /\ FeaturesOf(t) \subseteq Ids
      BY IdsSmall DEF FeaturesOf
    <2> QED
      BY <1>0, <2>1, <2>2, <2>3, ParentListType, TypeShow
  <1>9. ASSUME NEW u \in Users, FeatureOK(u) PROVE TypeInv'
    <2>1. Close(u) /\ UNCHANGED <<ftypes, data>>
      BY <1>9 DEF FeatureOK
    <2>2. dlg[u].ps \cup Parents(dlg[u].t) \cup {NoParent} \subseteq 0..MaxFeature
      BY <1>9, ParentListType, IdsSmall DEF FeatureOK, TypeInv, DialogType, NoParent
    <2>3. dlg[u].t \in Types /\ dlg[u].id \in Ids
      <3>1. dlg[u] \in Dialog
        BY <1>9 DEF FeatureOK, TypeInv, TypeOK, Closed
      <3> QED
        BY <1>9, <3>1 DEF FeatureOK, TypeInv, DialogType, Dialog
    <2>4. PICK p \in 0..MaxFeature, b \in BOOLEAN : SetFeature(dlg[u].t, dlg[u].id, p, b)
      BY <1>9, <2>2 DEF FeatureOK
    <2>5. /\ features' \in [Types \X Ids -> {None} \cup 0..MaxFeature]
          /\ blank' \subseteq Types \X Ids
      BY <2>3, <2>4, SetFeatureType
    <2> QED
      BY <1>0, <2>1, <2>5, CloseType DEF TypeInv, TypeOK
  <1>10. ASSUME NEW u \in Users, ImportRecord(u) PROVE TypeInv'
    <2>1. PICK t \in Types : LET i == BDFTypeI(ftypes, t)
                                 next == BDNextId(FeaturesOf(i))
                             IN  /\ i # 0
                                 /\ \E f \in FeaturesOf(i) \cup {next} :
                                       /\ f <= MaxFeature
                                       /\ IF f = next THEN CreateFeature(i, f) ELSE UNCHANGED rows
                                       /\ UNCHANGED data \/ data' = data \cup {<<t, f>>}
      BY <1>10 DEF ImportRecord
    <2> DEFINE i == BDFTypeI(ftypes, t)
    <2>2. PICK f \in Ids : /\ CreateFeature(i, f) \/ UNCHANGED rows
                           /\ UNCHANGED data \/ data' = data \cup {<<t, f>>}
      <3>1. FeaturesOf(i) \subseteq Ids
        BY DEF FeaturesOf
      <3>2. BDNextId(FeaturesOf(i)) <= MaxFeature => BDNextId(FeaturesOf(i)) \in Ids
        BY FeatureIds
      <3> QED
        BY <2>1, <3>1, <3>2
    <2>3. i \in Types
      <3>1. t \in 0..MaxType
        BY NRDBFeaturesAssumption DEF Types
      <3>2. i \in 0..MaxType
        BY <3>1, TypesOlder, BDFTypeIType
      <3> QED
        BY <2>1, <3>2, NRDBFeaturesAssumption DEF Types
    <2> HIDE DEF i
    <2>4. /\ features' \in [Types \X Ids -> {None} \cup 0..MaxFeature]
          /\ blank' \subseteq Types \X Ids
      <3>1. CASE UNCHANGED rows
        BY <3>1 DEF TypeInv, TypeOK, rows
      <3>2. CASE CreateFeature(i, f)
        <4>1. PICK p \in ParentList(i) \cup {NoParent}, b \in BOOLEAN : SetFeature(i, f, p, b)
          BY <3>2 DEF CreateFeature
        <4>2. p \in 0..MaxFeature
          BY ParentListType, IdsSmall DEF NoParent
        <4> QED
          BY <2>3, <4>1, <4>2, SetFeatureType
      <3> QED
        BY <2>2, <3>1, <3>2
    <2>5. data' \subseteq Types \X Ids
      BY <2>2 DEF TypeInv, TypeOK
    <2> QED
      BY <1>0, <1>10, <2>4, <2>5 DEF ImportRecord, TypeInv, TypeOK
  <1>11. ASSUME NEW u \in Users, DeleteFeature(u) PROVE TypeInv'
    <2>1. UNCHANGED <<ftypes, rows, data>> /\ "deldata" \in Ops \ {"addtype"}
      BY <1>11 DEF DeleteFeature, Ops
    <2>2. PICK t \in Types : \E f \in FeaturesOf(t) : Show(u, "deldata", t, f, {})
      BY <1>11 DEF DeleteFeature
    <2>3. FeaturesOf(t) \subseteq 0..MaxFeature /\ {} \in SUBSET (0..MaxFeature)
      BY IdsSmall DEF FeaturesOf
    <2> QED
      BY <1>0, <2>1, <2>2, <2>3, TypeShow
  <1>12. ASSUME NEW u \in Users, DeleteData(u) PROVE TypeInv'
    <2>1. "delfeature" \in Ops \ {"addtype"} /\ dlg[u].op # "none"
          /\ {} \in SUBSET (0..MaxFeature)
      BY <1>12 DEF DeleteData, Ops
    <2>2. dlg[u] \in Dialog
      BY <2>1 DEF TypeInv, TypeOK, rows, Closed
    <2>3. dlg[u].t \in Types /\ dlg[u].id \in 0..MaxFeature
      BY <2>2 DEF Dialog
    <2>4. Show(u, "delfeature", dlg[u].t, dlg[u].id, {})
      BY <1>12 DEF DeleteData
    <2> QED
      BY <1>0, <1>12, <2>1, <2>3, <2>4, ShowType DEF DeleteData, TypeInv, TypeOK, rows
  <1>13. ASSUME NEW u \in Users, DeleteRow(u) PROVE TypeInv'
    <2>1. dlg[u].t \in Types
      <3>1. dlg[u] \in Dialog
        BY <1>13 DEF DeleteRow, TypeInv, TypeOK, Closed
      <3> QED
        BY <3>1 DEF Dialog
    <2>2. UNCHANGED rows \/ SetFeature(dlg[u].t, dlg[u].id, None, FALSE)
      BY <1>13 DEF DeleteRow
    <2>3. /\ features' \in [Types \X Ids -> {None} \cup 0..MaxFeature]
          /\ blank' \subseteq Types \X Ids
      <3>1. CASE UNCHANGED rows
        BY <3>1 DEF TypeInv, TypeOK, rows
      <3>2. CASE SetFeature(dlg[u].t, dlg[u].id, None, FALSE)
        BY <2>1, <3>2, SetFeatureType
      <3> QED
        BY <2>2, <3>1, <3>2
    <2> QED
      BY <1>0, <1>13, <2>3, CloseType DEF DeleteRow, TypeInv, TypeOK
  <1>14. ASSUME NEW u \in Users, EditData(u) PROVE TypeInv'
    <2>1. UNCHANGED <<ftypes, rows, data>> /\ "editdata" \in Ops \ {"addtype"}
      BY <1>14 DEF EditData, Ops
    <2>2. PICK t \in Types, f \in Ids : Show(u, "editdata", t, f, {})
      BY <1>14 DEF EditData, Defined, FeaturesOf
    <2>3. f \in 0..MaxFeature /\ {} \in SUBSET (0..MaxFeature)
      BY IdsSmall
    <2> QED
      BY <1>0, <2>1, <2>2, <2>3, TypeShow
  <1>15. ASSUME NEW u \in Users, DataOK(u) PROVE TypeInv'
    <2>1. dlg[u] \in Dialog
      BY <1>15 DEF DataOK, TypeInv, TypeOK, rows, Closed
    <2>2. dlg[u].t \in Types
      BY <2>1 DEF Dialog
    <2>3. \A x : FeaturesOf(x) \subseteq Ids
      BY DEF FeaturesOf
    <2>4. data' \subseteq Types \X Ids
      BY <1>15, <2>2, <2>3 DEF DataOK, TypeInv, TypeOK, rows
    <2> QED
      BY <1>0, <1>15, <2>4, CloseType DEF DataOK, TypeInv, TypeOK, rows
  <1>16. QED
    BY <1>1, <1>2, <1>3, <1>4, <1>5, <1>6, <1>7, <1>8, <1>9, <1>10, <1>11,
       <1>12, <1>13, <1>14, <1>15 DEF Next

\* The types of the tables and dialogs, for any number of users. That a table of
\* data refers to a type's id, and a dialog's next id is one, needs the recursion
\* of BDFTypeI to end and the ids to be numbered from 1.
THEOREM FeaturesTypeCorrect == Spec => []TypeOK
  <1>1. Init => TypeInv
    BY TypeInit
  <1>2. TypeInv /\ [Next]_vars => TypeInv'
    BY TypeNext
  <1>3. TypeInv => TypeOK
    BY DEF TypeInv
  <1> QED
    BY <1>1, <1>2, <1>3, PTL DEF Spec

-----------------------------------------------------------------------------
(* References *)

\* A type's data refers to its own features or, when it is 1:1, to what its
\* parent's data refers to.
RefAt(ts, t) ==
    /\ ts[t].ref \in Types /\ OwnFeatures(ts, ts[t].ref)
    /\ OwnFeatures(ts, t) => ts[t].ref = t
    /\ ~OwnFeatures(ts, t) => ts[t].ref = ts[ts[t].parent].ref

RefOK == \A t \in Types : ftypes[t] # NoType => RefAt(ftypes, t)

\* The type whose features are the parents of those of t
ParentRef(t) == IF ftypes[t].parent = 0 THEN 0 ELSE ftypes[ftypes[t].parent].ref

FeaturesHaveType ==
    \A t \in Types, f \in Ids : features[<<t, f>>] # None => OwnFeatures(ftypes, t)

\* A parent was determined for the feature, and it shows in the list of children.
Shown(t, f) == features[<<t, f>>] \notin {None, NoParent} /\ <<t, f>> \notin blank

ParentsKept ==
    \A t \in Types, f \in Ids :
        OwnFeatures(ftypes, t) /\ ftypes[t].parent # 0 /\ Shown(t, f) =>
            features[<<t, f>>] \in FeaturesOf(ParentRef(t))

\* No feature that shows has feature f of t as its parent, ...
NoChild(t, f) ==
    \A c \in Types, g \in Ids :
        /\ OwnFeatures(ftypes, c) /\ ftypes[c].parent # 0 /\ ParentRef(c) = t
        /\ <<c, g>> \notin blank
        => features[<<c, g>>] # f

\* ... and no other data refers to it.
NoOtherData(t, f) == \A c \in Referring(t) \ {t} : <<c, f>> \notin data

\* What the dialogs have checked or read still holds.
DialogOK(u) ==
    LET d == dlg[u] IN
    /\ d.op = "deldata" => NoOtherData(d.t, d.id)
    /\ d.op = "delfeature" => ~ReferredTo(d.t, d.id)
    /\ d.op \in {"deldata", "delfeature"} => NoChild(d.t, d.id)
    /\ d.op \in {"addfeature", "editfeature"} => d.ps \subseteq ParentList(d.t)
    /\ d.op \in {"features", "type"} => Children(ftypes, d.t) = {}

RefInv ==
    /\ TypeInv /\ FoundInv
    /\ RefOK /\ FeaturesHaveType /\ ParentsKept
    /\ \A u \in Users : DialogOK(u)

\* The type with the features is the one the data refers to: in a set K of types
\* that holds the parents of its 1:1 types, each with its reference.
LEMMA BDFTypeIRef ==
    ASSUME NEW ts, Older(ts), NEW K \in SUBSET Types,
           \A t \in K : /\ ts[t] # NoType /\ RefAt(ts, t)
                        /\ OwnFeatures(ts, t) \/ ts[t].parent \in K,
           NEW t \in K
    PROVE  BDFTypeI(ts, t) = ts[t].ref
  <1> DEFINE S == {n \in Nat : n \in K => BDFTypeI(ts, n) = ts[n].ref}
  <1>1. ASSUME NEW n \in Nat, \A m \in Nat : m < n => m \in S
        PROVE  n \in S
    <2> SUFFICES ASSUME n \in K PROVE BDFTypeI(ts, n) = ts[n].ref
      OBVIOUS
    <2>1. n \in 0..MaxType /\ n # 0
      BY NRDBFeaturesAssumption DEF Types
    <2>2. CASE OwnFeatures(ts, n)
      BY <2>1, <2>2, BDFTypeIIs DEF RefAt
    <2>3. CASE ~OwnFeatures(ts, n)
      <3>1. BDFTypeI(ts, n) = BDFTypeI(ts, ts[n].parent)
        BY <2>1, <2>3, BDFTypeIIs
      <3>2. ts[n].parent \in K /\ ts[n].parent \in 0..n - 1
        BY <2>3 DEF Older
      <3>3. ts[n].parent \in Nat /\ ts[n].parent < n
        BY <3>2
      <3>4. BDFTypeI(ts, ts[n].parent) = ts[ts[n].parent].ref
        BY <1>1, <3>2, <3>3
      <3> QED
        BY <2>3, <3>1, <3>4 DEF RefAt
    <2> QED
      BY <2>2, <2>3
  <1>2. t \in Nat
    BY DEF Types
  <1>3. t \in S
    <2> HIDE DEF S
    <2> QED
      BY <1>1, <1>2, Induct
  <1> QED
    BY <1>3

\* A type that is defined has a parent that is, or none.
LEMMA ParentIs ==
    ASSUME RefInv, NEW t \in Types, ftypes[t] # NoType, ftypes[t].parent # 0
    PROVE  ftypes[t].parent \in Defined(ftypes)
  <1>1. ftypes[t].parent \in Types
    BY NRDBFeaturesAssumption DEF RefInv, TypeInv, OlderInv, Row, Types
  <1> QED
    BY <1>1 DEF RefInv, FoundInv, ParentFound, Defined

LEMMA RefIs ==
    ASSUME RefInv, NEW t \in Types, ftypes[t] # NoType
    PROVE  BDFTypeI(ftypes, t) = ftypes[t].ref
  <1>1. Older(ftypes)
    BY TypesOlder DEF RefInv
  <1>2. \A c \in Defined(ftypes) :
           /\ ftypes[c] # NoType /\ RefAt(ftypes, c)
           /\ OwnFeatures(ftypes, c) \/ ftypes[c].parent \in Defined(ftypes)
    BY ParentIs DEF RefInv, RefOK, Defined, OwnFeatures
  <1>3. Defined(ftypes) \in SUBSET Types /\ t \in Defined(ftypes)
    BY DEF Defined
  <1> QED
    BY <1>1, <1>2, <1>3, BDFTypeIRef

\* The list of parents is of the features of that type.
LEMMA ParentsAre ==
    ASSUME RefInv, NEW t \in Types, OwnFeatures(ftypes, t)
    PROVE  /\ ftypes[t].parent # 0 => Parents(t) = FeaturesOf(ParentRef(t))
           /\ ParentList(t) = IF ftypes[t].parent = 0 THEN {NoParent} ELSE FeaturesOf(ParentRef(t))
  <1>1. ftypes[t] # NoType
    BY DEF OwnFeatures
  <1>2. BDFTypeI(ftypes, t) = t
    BY <1>1, RefIs DEF RefInv, RefOK, RefAt
  <1>3. t # 0
    BY DEF Types
  <1>4. ASSUME ftypes[t].parent # 0
        PROVE  Parents(t) = FeaturesOf(ParentRef(t))
    <2>1. ftypes[t].parent \in Types /\ ftypes[ftypes[t].parent] # NoType
      BY <1>1, <1>4, ParentIs DEF Defined
    <2>2. BDFTypeI(ftypes, ftypes[t].parent) = ftypes[ftypes[t].parent].ref
      BY <2>1, RefIs
    <2> QED
      BY <1>2, <1>3, <1>4, <2>2 DEF Parents, BDFTypeParentI, ParentRef
  <1> QED
    BY <1>4 DEF ParentList

\* GetChildren finds all the types whose data refers to the features of t.
LEMMA ReferringFound ==
    ASSUME RefInv, NEW t \in Types, NEW c \in Referring(t)
    PROVE  c = t \/ c \in GetChildren121(ftypes, t)
  <1> DEFINE S == {n \in Nat : n \in Referring(t) => n = t \/ n \in GetChildren121(ftypes, t)}
  <1>0. Older(ftypes)
    BY TypesOlder DEF RefInv
  <1>1. ASSUME NEW n \in Nat, \A m \in Nat : m < n => m \in S
        PROVE  n \in S
    <2> SUFFICES ASSUME n \in Referring(t), n # t PROVE n \in GetChildren121(ftypes, t)
      OBVIOUS
    <2>1. n \in Types /\ ftypes[n].ref = t
      BY DEF Referring
    <2>2. ftypes[n] # NoType
      <3>1. NoType.ref = 0 /\ t # 0
        BY DEF NoType, Types
      <3> QED
        BY <2>1, <3>1
    <2>3. ~OwnFeatures(ftypes, n)
      BY <2>1, <2>2 DEF RefInv, RefOK, RefAt
    <2> DEFINE p == ftypes[n].parent
    <2>4. p # 0 /\ ~ftypes[n].m2o /\ ftypes[p].ref = t
      BY <2>1, <2>2, <2>3 DEF OwnFeatures, RefInv, RefOK, RefAt
    <2>5. p \in Types /\ p \in Referring(t)
      BY <2>1, <2>2, <2>4, ParentIs DEF Defined, Referring
    <2>6. p \in 0..n - 1
      BY <1>0, <2>1, <2>2 DEF Older
    <2>7. n \in Kids(ftypes, p)
      BY <2>1, <2>4 DEF Kids, Children
    <2> HIDE DEF p
    <2>8. p \in Nat /\ p < n
      BY <2>6
    <2>9. p = t \/ p \in GetChildren121(ftypes, t)
      BY <1>1, <2>5, <2>8
    <2>10. CASE p = t
      BY <1>0, <2>7, <2>10, GetChildren121Is
    <2>11. CASE p \in GetChildren121(ftypes, t)
      BY <1>0, <2>7, <2>11, GetChildren121Closed
    <2> QED
      BY <2>9, <2>10, <2>11
  <1>2. c \in Nat
    BY DEF Referring, Types
  <1>3. c \in S
    <2> HIDE DEF S
    <2> QED
      BY <1>1, <1>2, Induct
  <1> QED
    BY <1>3

\* So does it find all the types whose features have parents of t.
LEMMA ChildrenFound ==
    ASSUME RefInv, NEW t \in Types, NEW c \in Types,
           OwnFeatures(ftypes, c), ftypes[c].parent # 0, ParentRef(c) = t
    PROVE  c \in GetChildren12M(ftypes, t)
  <1> DEFINE p == ftypes[c].parent
  <1>1. ftypes[c] # NoType /\ ftypes[c].m2o
    BY DEF OwnFeatures
  <1>2. p \in Types /\ ftypes[p].ref = t
    BY <1>1, ParentIs DEF Defined, ParentRef
  <1>3. p \in {t} \cup GetChildren121(ftypes, t)
    BY <1>2, ReferringFound DEF Referring
  <1>4. c \in Children(ftypes, p)
    BY DEF Children
  <1> QED
    BY <1>1, <1>3, <1>4 DEF GetChildren12M

\* When t has no child nothing else refers to it.
LEMMA Childless ==
    ASSUME RefInv, NEW t \in Types, Children(ftypes, t) = {}
    PROVE  /\ Referring(t) \subseteq {t}
           /\ \A c \in Types : OwnFeatures(ftypes, c) /\ ftypes[c].parent # 0 =>
                 ParentRef(c) # t
  <1>1. GetChildren121(ftypes, t) = {}
    <2>1. Kids(ftypes, t) = {}
      BY DEF Kids
    <2>2. UNION {GetChildren121(ftypes, c) : c \in {}} = {}
      OBVIOUS
    <2> QED
      BY <2>1, <2>2, TypesOlder, GetChildren121Is DEF RefInv
  <1>2. GetChildren12M(ftypes, t) = {}
    BY <1>1 DEF GetChildren12M
  <1> QED
    BY <1>1, <1>2, ReferringFound, ChildrenFound

TablesOK == RefOK /\ FeaturesHaveType /\ ParentsKept

LEMMA RefInit == Init => RefInv
  <1> SUFFICES ASSUME Init PROVE RefInv
    OBVIOUS
  <1>1. TypeInv /\ FoundInv
    BY TypeInit, FoundInit
  <1>2. \A t \in Types : ~OwnFeatures(ftypes, t) /\ ftypes[t] = NoType
    BY DEF Init, OwnFeatures
  <1>3. \A t \in Types, f \in Ids : features[<<t, f>>] = None
    BY DEF Init
  <1>4. \A u \in Users : DialogOK(u)
    BY DEF Init, DialogOK, Closed
  <1> QED
    BY <1>1, <1>2, <1>3, <1>4 DEF RefInv, RefOK, FeaturesHaveType, ParentsKept, Shown

LEMMA TablesSame ==
    ASSUME RefInv, UNCHANGED <<ftypes, rows>>
    PROVE  TablesOK'
  <1>1. FeaturesHaveType'
    BY DEF RefInv, FeaturesHaveType, rows
  <1>2. \A t : /\ FeaturesOf(t)' = FeaturesOf(t) /\ ParentRef(t)' = ParentRef(t)
               /\ \A f : Shown(t, f)' = Shown(t, f)
    BY DEF FeaturesOf, ParentRef, Shown, rows
  <1>3. ParentsKept'
    BY <1>2 DEF RefInv, ParentsKept, rows
  <1> QED
    BY <1>1, <1>3 DEF RefInv, TablesOK, RefOK

\* With one user a step that closes the dialog leaves none.
LEMMA ClosedOK ==
    ASSUME RefInv, OneUser, NEW u \in Users, Close(u)
    PROVE  \A v \in Users : DialogOK(v)'
  <1>1. \A v \in Users : dlg'[v] = Closed
    BY DEF OneUser, Close, RefInv, TypeInv, TypeOK
  <1>2. Closed.op = "none"
    BY DEF Closed
  <1> QED
    BY <1>1, <1>2 DEF DialogOK

LEMMA ShownOK ==
    ASSUME RefInv, OneUser, NEW u \in Users,
           NEW op, NEW t, NEW id, NEW ps, Show(u, op, t, id, ps)
    PROVE  \A v \in Users : /\ dlg'[v].op = op /\ dlg'[v].t = t
                            /\ dlg'[v].id = id /\ dlg'[v].ps = ps
  <1> DEFINE d == [op |-> op, t |-> t, id |-> id, ps |-> ps]
  <1>1. d.op = op /\ d.t = t /\ d.id = id /\ d.ps = ps
    OBVIOUS
  <1>2. \A v \in Users : dlg'[v] = d
    BY DEF OneUser, Show, RefInv, TypeInv, TypeOK
  <1> HIDE DEF d
  <1> QED
    BY <1>1, <1>2

\* A row of data refers to a feature that is there, of a type that has features.
LEMMA RefOwn ==
    ASSUME RefInv, NEW t \in Types, ftypes[t] # NoType
    PROVE  /\ BDFTypeI(ftypes, t) \in Types
           /\ OwnFeatures(ftypes, BDFTypeI(ftypes, t))
  BY RefIs DEF RefInv, RefOK, RefAt

\* A feature is added, or given another parent.
LEMMA FeatureSet ==
    ASSUME RefInv, UNCHANGED ftypes, NEW t \in Types, OwnFeatures(ftypes, t), NEW f,
           NEW p \in ParentList(t) \cup {NoParent}, NEW b, SetFeature(t, f, p, b)
    PROVE  TablesOK'
  <1>1. p # None
    BY ParentListType, NRDBFeaturesAssumption DEF None, NoParent
  <1>2. \A c \in Types, g \in Ids :
           \/ /\ features'[<<c, g>>] = features[<<c, g>>]
              /\ <<c, g>> \in blank' <=> <<c, g>> \in blank
           \/ c = t /\ features'[<<c, g>>] = p
    BY DEF SetFeature, RefInv, TypeInv, TypeOK
  <1>3. \A c \in Types : FeaturesOf(c) \subseteq FeaturesOf(c)'
    BY <1>1, <1>2 DEF FeaturesOf
  <1>4. \A c : OwnFeatures(ftypes, c)' = OwnFeatures(ftypes, c)
               /\ ParentRef(c)' = ParentRef(c)
    BY DEF OwnFeatures, ParentRef
  <1>5. FeaturesHaveType'
    BY <1>2, <1>4 DEF RefInv, FeaturesHaveType
  <1>6. ASSUME NEW c \in Types, NEW g \in Ids,
               OwnFeatures(ftypes, c), ftypes[c].parent # 0, Shown(c, g)'
        PROVE  features'[<<c, g>>] \in FeaturesOf(ParentRef(c))'
    <2>1. ftypes[c].parent \in Types /\ ftypes[ftypes[c].parent] # NoType
      BY <1>6, ParentIs DEF OwnFeatures, Defined
    <2>2. ParentRef(c) \in Types
      BY <1>6, <2>1 DEF ParentRef, RefInv, RefOK, RefAt
    <2>3. features'[<<c, g>>] \in FeaturesOf(ParentRef(c))
      <3>1. CASE /\ features'[<<c, g>>] = features[<<c, g>>]
                 /\ <<c, g>> \in blank' <=> <<c, g>> \in blank
        BY <1>6, <3>1 DEF RefInv, ParentsKept, Shown
      <3>2. CASE c = t /\ features'[<<c, g>>] = p
        BY <1>6, <3>2, ParentsAre DEF Shown
      <3> QED
        BY <1>2, <3>1, <3>2
    <2> QED
      BY <1>3, <1>4, <2>2, <2>3
  <1>7. ParentsKept'
    BY <1>4, <1>6 DEF ParentsKept
  <1> QED
    BY <1>5, <1>7 DEF RefInv, TablesOK, RefOK

\* Features are deleted that no other is a child of.
LEMMA FeaturesGone ==
    ASSUME RefInv, UNCHANGED ftypes, NEW t \in Types,
           \A c \in Types, g \in Ids :
              \/ /\ features'[<<c, g>>] = features[<<c, g>>]
                 /\ <<c, g>> \in blank' <=> <<c, g>> \in blank
              \/ c = t /\ features'[<<c, g>>] = None /\ NoChild(t, g)
    PROVE  TablesOK'
  <1>1. \A c : OwnFeatures(ftypes, c)' = OwnFeatures(ftypes, c)
               /\ ParentRef(c)' = ParentRef(c)
    BY DEF OwnFeatures, ParentRef
  <1>2. FeaturesHaveType'
    BY <1>1 DEF RefInv, FeaturesHaveType
  <1>3. ASSUME NEW c \in Types, NEW g \in Ids,
               OwnFeatures(ftypes, c), ftypes[c].parent # 0, Shown(c, g)'
        PROVE  features'[<<c, g>>] \in FeaturesOf(ParentRef(c))'
    <2> DEFINE f == features[<<c, g>>]
    <2>1. features'[<<c, g>>] = f /\ Shown(c, g)
      BY <1>3 DEF Shown
    <2>2. f \in FeaturesOf(ParentRef(c))
      BY <1>3, <2>1 DEF RefInv, ParentsKept
    <2>3. f \in Ids /\ ParentRef(c) # 0 /\ features[<<ParentRef(c), f>>] # None
      BY <2>2 DEF FeaturesOf
    <2>4. ParentRef(c) = t => ~NoChild(t, f)
      BY <1>3, <2>1 DEF NoChild, Shown
    <2>5. ParentRef(c) \in Types
      <3>1. ftypes[c].parent \in Types /\ ftypes[ftypes[c].parent] # NoType
        BY <1>3, ParentIs DEF OwnFeatures, Defined
      <3> QED
        BY <1>3, <3>1 DEF ParentRef, RefInv, RefOK, RefAt
    <2>6. features'[<<ParentRef(c), f>>] # None
      BY <2>3, <2>4, <2>5
    <2> HIDE DEF f
    <2> QED
      BY <1>1, <2>1, <2>3, <2>6 DEF FeaturesOf
  <1>4. ParentsKept'
    BY <1>1, <1>3 DEF ParentsKept
  <1> QED
    BY <1>2, <1>4 DEF RefInv, TablesOK, RefOK

\* A type without children is deleted with its features.
LEMMA TypeGone ==
    ASSUME RefInv, TypeInv', NEW t \in Types, Children(ftypes, t) = {},
           ftypes' = [ftypes EXCEPT ![t] = NoType], DropFeatures(t)
    PROVE  TablesOK'
  <1>1. \A c \in Types : c # t => ftypes'[c] = ftypes[c]
    BY DEF RefInv, TypeInv, TypeOK
  <1>2. ftypes'[t] = NoType
    BY DEF RefInv, TypeInv, TypeOK
  <1>3. \A c \in Types, g \in Ids :
           /\ features'[<<c, g>>] = IF c = t THEN None ELSE features[<<c, g>>]
           /\ c # t => (<<c, g>> \in blank' <=> <<c, g>> \in blank)
    BY DEF DropFeatures
  <1>4. \A c \in Types : c # t => /\ OwnFeatures(ftypes', c) = OwnFeatures(ftypes, c)
                                  /\ ftypes[c].ref # t /\ ftypes[c].parent # t
    BY <1>1, Childless DEF OwnFeatures, Referring, Children
  <1>5. ASSUME NEW c \in Types, ftypes'[c] # NoType
        PROVE  RefAt(ftypes', c)
    <2>1. c # t /\ ftypes[c] # NoType /\ ftypes'[c] = ftypes[c]
      BY <1>1, <1>2, <1>5
    <2>2. RefAt(ftypes, c)
      BY <2>1 DEF RefInv, RefOK
    <2>3. OwnFeatures(ftypes', ftypes[c].ref)
      BY <1>4, <2>1, <2>2 DEF RefAt
    <2>4. ASSUME ~OwnFeatures(ftypes, c)
          PROVE  ftypes'[ftypes[c].parent] = ftypes[ftypes[c].parent]
      <3>1. ftypes[c].parent \in Types
        BY <2>1, <2>4, ParentIs DEF OwnFeatures, Defined
      <3> QED
        BY <1>1, <1>4, <2>1, <3>1
    <2> QED
      BY <1>4, <2>1, <2>2, <2>3, <2>4 DEF RefAt
  <1>6. FeaturesHaveType'
    BY <1>3, <1>4 DEF RefInv, FeaturesHaveType
  <1>7. ASSUME NEW c \in Types, NEW g \in Ids,
               OwnFeatures(ftypes', c), ftypes'[c].parent # 0, Shown(c, g)'
        PROVE  features'[<<c, g>>] \in FeaturesOf(ParentRef(c))'
    <2>1. c # t /\ features'[<<c, g>>] = features[<<c, g>>] /\ Shown(c, g)
      BY <1>3, <1>7 DEF Shown
    <2>2. OwnFeatures(ftypes, c) /\ ftypes'[c] = ftypes[c]
      BY <1>1, <1>4, <1>7, <2>1
    <2>3. features[<<c, g>>] \in FeaturesOf(ParentRef(c))
      BY <1>7, <2>1, <2>2 DEF RefInv, ParentsKept
    <2>4. ftypes[c].parent \in Types /\ ftypes[ftypes[c].parent] # NoType
      BY <1>7, <2>2, ParentIs DEF OwnFeatures, Defined
    <2>5. ParentRef(c) # t /\ ParentRef(c)' = ParentRef(c) /\ ParentRef(c) \in Types
      <3>1. ParentRef(c) # t
        BY <1>7, <2>2, Childless
      <3>2. ftypes'[ftypes[c].parent] = ftypes[ftypes[c].parent]
        BY <1>1, <1>4, <2>1, <2>4
      <3>3. ParentRef(c)' = ParentRef(c)
        BY <2>2, <3>2 DEF ParentRef
      <3>4. ParentRef(c) \in Types
        BY <1>7, <2>2, <2>4 DEF ParentRef, RefInv, RefOK, RefAt
      <3> QED
        BY <3>1, <3>3, <3>4
    <2>6. FeaturesOf(ParentRef(c))' = FeaturesOf(ParentRef(c))
      BY <1>3, <2>5 DEF FeaturesOf
    <2> QED
      BY <2>1, <2>3, <2>6
  <1>8. ParentsKept'
    BY <1>7 DEF ParentsKept
  <1> QED
    BY <1>5, <1>6, <1>8 DEF TablesOK, RefOK

\* The definition and the reference of a type that is created
LEMMA Created ==
    ASSUME NEW ts, DOMAIN ts = Types, Older(ts),
           \A c \in Types : ts[c] # NoType => /\ RefAt(ts, c)
                                              /\ ts[c].parent \in Defined(ts) \cup {0},
           NEW t \in Types, ts[t] = NoType,
           NEW p \in 0..t - 1, p \in Defined(ts) \cup {0},
           NEW m2o \in BOOLEAN, p = 0 => m2o,
           NEW new, new = CreateType(ts, t, p, m2o)
    PROVE  /\ \A c \in Types : new[c] # NoType =>
                 RefAt(new, c) /\ new[c].parent \in Defined(new) \cup {0}
           /\ \A c \in Types : c # t => new[c] = ts[c]
           /\ new[t] # NoType /\ new[t].ref # 0
  <1> DEFINE row(r) == [parent |-> p, m2o |-> m2o, ref |-> r]
             new0 == [ts EXCEPT ![t] = row(0)]
             r == BDFTypeI(new0, t)
  <1>1. \A x : row(x).parent = p /\ row(x).m2o = m2o /\ row(x).ref = x
    OBVIOUS
  <1>2. \A x : row(x) # NoType
    <2>1. NoType.parent = -1 /\ p # -1
      BY DEF NoType, None
    <2> QED
      BY <1>1, <2>1
  <1>3. new = [ts EXCEPT ![t] = row(r)]
    BY DEF CreateType
  <1> HIDE DEF row
  <1>4. \A c \in Types : c # t => new[c] = ts[c] /\ new0[c] = ts[c]
    BY <1>3
  <1>5. new[t] = row(r) /\ new0[t] = row(0)
    BY <1>3
  <1>6. Older(new0)
    BY <1>1, <1>4, <1>5 DEF Older
  <1> HIDE DEF r
  <1>7. \A c \in Types : c # t => /\ OwnFeatures(new, c) = OwnFeatures(ts, c)
                                  /\ OwnFeatures(new0, c) = OwnFeatures(ts, c)
    BY <1>4 DEF OwnFeatures
  <1>8. /\ OwnFeatures(new, t) <=> p = 0 \/ m2o
        /\ OwnFeatures(new0, t) <=> p = 0 \/ m2o
    BY <1>1, <1>2, <1>5 DEF OwnFeatures
  <1> HIDE DEF new0
  <1>9. ASSUME p = 0 \/ m2o
        PROVE  r = t
    <2>1. t \in 0..MaxType /\ t # 0
      BY NRDBFeaturesAssumption DEF Types
    <2> QED
      BY <1>2, <1>5, <1>6, <1>8, <1>9, <2>1, BDFTypeIIs DEF r
  <1>10. ASSUME ~(p = 0 \/ m2o)
         PROVE  r = ts[p].ref
    <2>1. p \in Defined(ts) /\ p \in Types /\ p # t
      BY <1>10 DEF Defined
    <2>2. r = BDFTypeI(new0, p)
      <3>1. t \in 0..MaxType /\ t # 0
        BY NRDBFeaturesAssumption DEF Types
      <3> QED
        BY <1>1, <1>2, <1>5, <1>6, <1>8, <1>10, <3>1, BDFTypeIIs DEF r
    <2>3. \A c \in Defined(ts) :
             /\ new0[c] # NoType /\ RefAt(new0, c)
             /\ OwnFeatures(new0, c) \/ new0[c].parent \in Defined(ts)
      <3> SUFFICES ASSUME NEW c \in Defined(ts)
                   PROVE  /\ new0[c] # NoType /\ RefAt(new0, c)
                          /\ OwnFeatures(new0, c) \/ new0[c].parent \in Defined(ts)
        OBVIOUS
      <3>1. c \in Types /\ ts[c] # NoType /\ c # t /\ new0[c] = ts[c]
        BY <1>4 DEF Defined
      <3>2. OwnFeatures(ts, c) \/ ts[c].parent \in Defined(ts)
        BY <3>1 DEF OwnFeatures
      <3>3. RefAt(ts, c)
        BY <3>1
      <3>4. ts[c].ref # t
        BY <3>3 DEF RefAt, OwnFeatures
      <3>5. ts[c].parent \in Defined(ts) => new0[ts[c].parent] = ts[ts[c].parent]
        BY <1>4 DEF Defined
      <3> QED
        BY <1>7, <3>1, <3>2, <3>3, <3>4, <3>5 DEF RefAt
    <2>4. Defined(ts) \in SUBSET Types
      BY DEF Defined
    <2>5. BDFTypeI(new0, p) = new0[p].ref
      BY <1>6, <2>1, <2>3, <2>4, BDFTypeIRef
    <2> QED
      BY <1>4, <2>1, <2>2, <2>5
  <1>11. r = IF p = 0 \/ m2o THEN t ELSE ts[p].ref
    BY <1>9, <1>10
  <1>12. Defined(ts) \subseteq Defined(new)
    BY <1>4 DEF Defined
  <1>13. RefAt(new, t) /\ r \in Types
    <2>1. CASE p = 0 \/ m2o
      BY <1>1, <1>5, <1>8, <1>11, <2>1 DEF RefAt
    <2>2. CASE ~(p = 0 \/ m2o)
      <3>1. p \in Types /\ p # t /\ RefAt(ts, p)
        BY <2>2 DEF Defined
      <3>2. ts[p].ref \in Types /\ ts[p].ref # t /\ OwnFeatures(ts, ts[p].ref)
        BY <3>1 DEF RefAt, OwnFeatures
      <3>3. new[p] = ts[p] /\ OwnFeatures(new, ts[p].ref)
        BY <1>4, <1>7, <3>1, <3>2
      <3> QED
        BY <1>1, <1>5, <1>8, <1>11, <2>2, <3>2, <3>3 DEF RefAt
    <2> QED
      BY <2>1, <2>2
  <1>14. ASSUME NEW c \in Types, c # t, ts[c] # NoType
         PROVE  RefAt(new, c) /\ new[c].parent \in Defined(new) \cup {0}
    <2>1. RefAt(ts, c) /\ ts[c].parent \in Defined(ts) \cup {0}
      BY <1>14
    <2>2. ts[c].ref # t
      BY <2>1 DEF RefAt, OwnFeatures
    <2>3. ts[c].parent \in Defined(ts) => new[ts[c].parent] = ts[ts[c].parent]
      BY <1>4 DEF Defined
    <2>4. ~OwnFeatures(ts, c) => ts[c].parent \in Defined(ts)
      BY <1>14, <2>1 DEF OwnFeatures
    <2> QED
      BY <1>4, <1>7, <1>12, <1>14, <2>1, <2>2, <2>3, <2>4 DEF RefAt
  <1>15. new[t].parent \in Defined(new) \cup {0}
    BY <1>1, <1>5, <1>12
  <1>16. new[t] # NoType /\ new[t].ref # 0
    <2>1. new[t].ref = r
      BY <1>1, <1>5
    <2> QED
      BY <1>2, <1>5, <1>13, <2>1 DEF Types
  <1> QED
    BY <1>4, <1>13, <1>14, <1>15, <1>16

\* Types that are created have no features yet.
LEMMA TypesAdded ==
    ASSUME RefInv, UNCHANGED rows,
           \A c \in Types : ftypes[c] # NoType => ftypes'[c] = ftypes[c],
           \A c \in Types : ftypes'[c] # NoType => RefAt(ftypes', c)
    PROVE  TablesOK'
  <1>1. \A c \in Types : ftypes[c] # NoType =>
           /\ OwnFeatures(ftypes', c) = OwnFeatures(ftypes, c)
           /\ OwnFeatures(ftypes, c) => ParentRef(c)' = ParentRef(c)
    BY ParentIs DEF OwnFeatures, ParentRef, Defined
  <1>2. \A t \in Types, f \in Ids : features[<<t, f>>] # None =>
           ftypes[t] # NoType /\ OwnFeatures(ftypes, t) /\ ftypes'[t] = ftypes[t]
    BY DEF RefInv, FeaturesHaveType, OwnFeatures
  <1>3. FeaturesHaveType'
    BY <1>1, <1>2 DEF FeaturesHaveType, rows
  <1>4. \A x : FeaturesOf(x)' = FeaturesOf(x)
    BY DEF FeaturesOf, rows
  <1>5. ParentsKept'
    <2>1. \A t \in Types, f \in Ids : Shown(t, f)' =>
             Shown(t, f) /\ features[<<t, f>>] # None
      BY DEF Shown, rows
    <2> QED
      BY <1>1, <1>2, <1>4, <2>1 DEF RefInv, ParentsKept, rows
  <1> QED
    BY <1>3, <1>5 DEF TablesOK, RefOK

\* What a dialog has checked holds as long as nothing is changed.
LEMMA DialogSame ==
    ASSUME NEW u \in Users, DialogOK(u), UNCHANGED <<ftypes, rows, data, dlg>>
    PROVE  DialogOK(u)'
  <1>1. \A t, f : /\ NoOtherData(t, f)' = NoOtherData(t, f)
                  /\ ReferredTo(t, f)' = ReferredTo(t, f)
    BY DEF NoOtherData, ReferredTo, Referring
  <1>2. \A t, f : NoChild(t, f)' = NoChild(t, f)
    BY DEF NoChild, OwnFeatures, ParentRef, rows
  <1>3. \A t : ParentList(t)' = ParentList(t)
    BY DEF ParentList, Parents, FeaturesOf, rows
  <1> QED
    BY <1>1, <1>2, <1>3 DEF DialogOK

LEMMA RefOnOKAdd ==
    ASSUME RefInv, OneUser, NEW u \in Users, OnOKAdd(u)
    PROVE  TablesOK' /\ \A v \in Users : DialogOK(v)'
  <1>1. UNCHANGED <<rows, data>>
    BY DEF OnOKAdd
  <1>2. CASE UNCHANGED ftypes
    <2>1. TablesOK'
      BY <1>1, <1>2, TablesSame
    <2>2. Close(u) \/ UNCHANGED dlg
      BY DEF OnOKAdd
    <2>3. CASE UNCHANGED dlg
      <3>1. UNCHANGED <<ftypes, rows, data, dlg>>
        BY <1>1, <1>2, <2>3
      <3>2. ASSUME NEW v \in Users
            PROVE  DialogOK(v)'
        BY <3>1, DialogSame DEF RefInv
      <3> QED
        BY <2>1, <3>2
    <2> QED
      BY <2>1, <2>2, <2>3, ClosedOK
  <1>3. CASE ftypes' # ftypes
    <2> DEFINE t == dlg[u].t
    <2>1. PICK p \in dlg[u].ps, m2o \in BOOLEAN, link \in BOOLEAN :
             LET ts == CreateType(ftypes, t, p, m2o)
                 l == BDNextId(Defined(ts))
             IN  /\ ftypes[t] = NoType /\ (p = 0 => m2o)
                 /\ link => l <= MaxType
                 /\ ftypes' = IF link THEN CreateType(ts, l, 0, TRUE) ELSE ts
                 /\ Close(u)
      BY <1>3 DEF OnOKAdd
    <2> DEFINE ts == CreateType(ftypes, t, p, m2o)
               l == BDNextId(Defined(ts))
    <2>2. t \in Types /\ p \in 0..t - 1 /\ p \in Defined(ftypes) \cup {0}
      <3>1. t \in Types /\ p \in 0..t - 1 /\ (p # 0 => ftypes[p] # NoType)
        BY DEF OnOKAdd, RefInv, FoundInv, OlderInv
      <3>2. p # 0 => p \in Types
        BY <3>1, NRDBFeaturesAssumption DEF Types
      <3> QED
        BY <3>1, <3>2 DEF Defined
    <2>3. ftypes[t] = NoType /\ (p = 0 => m2o)
      BY <2>1
    <2>4. DOMAIN ftypes = Types /\ ftypes \in [Types -> FType \cup {NoType}] /\ Older(ftypes)
      BY TypesOlder DEF RefInv, TypeInv, TypeOK
    <2>5. \A c \in Types : ftypes[c] # NoType =>
             RefAt(ftypes, c) /\ ftypes[c].parent \in Defined(ftypes) \cup {0}
      BY ParentIs DEF RefInv, RefOK
    <2>6. /\ \A c \in Types : ts[c] # NoType =>
                RefAt(ts, c) /\ ts[c].parent \in Defined(ts) \cup {0}
          /\ \A c \in Types : c # t => ts[c] = ftypes[c]
      BY <2>2, <2>3, <2>4, <2>5, Created
    <2>7. ts \in [Types -> FType \cup {NoType}] /\ Older(ts)
      BY <2>2, <2>4, CreateTypeType
    <2>8. Close(u) /\ ftypes' = (IF link THEN CreateType(ts, l, 0, TRUE) ELSE ts)
          /\ (link => l <= MaxType)
      BY <2>1
    <2> HIDE DEF ts
    <2>9. \A c \in Types : ftypes[c] # NoType => ts[c] = ftypes[c]
      BY <2>3, <2>6
    <2>10. CASE ~link
      BY <1>1, <2>6, <2>8, <2>9, <2>10, TypesAdded, ClosedOK
    <2>11. CASE link
      <3>1. Defined(ts) \in SUBSET (1..MaxType)
        BY DEF Defined, Types
      <3>2. l \in Nat \ {0} /\ \A n \in Defined(ts) : n < l
        BY <3>1, NextIdGreater, NRDBFeaturesAssumption
      <3>3. l \in Types /\ 0 \in 0..l - 1 /\ l \notin Defined(ts)
        BY <2>8, <2>11, <3>2, NRDBFeaturesAssumption DEF Types
      <3> DEFINE new == CreateType(ts, l, 0, TRUE)
      <3> HIDE DEF l
      <3>4. ts[l] = NoType /\ DOMAIN ts = Types
        BY <2>7, <3>3 DEF Defined
      <3>5. /\ \A c \in Types : new[c] # NoType => RefAt(new, c)
            /\ \A c \in Types : c # l => new[c] = ts[c]
        <4>1. PICK many \in BOOLEAN : many = TRUE
          OBVIOUS
        <4>2. PICK z \in 0..l - 1 : z = 0
          BY <3>3
        <4>3. new = CreateType(ts, l, z, many) /\ (z = 0 => many)
              /\ z \in Defined(ts) \cup {0}
          BY <4>1, <4>2
        <4> HIDE DEF new
        <4> QED
          BY <2>6, <2>7, <3>3, <3>4, <4>3, Created
      <3>6. ftypes' = new
        BY <2>8, <2>11
      <3> HIDE DEF new
      <3>7. \A c \in Types : ftypes[c] # NoType => ftypes'[c] = ftypes[c]
        BY <2>9, <3>4, <3>5, <3>6
      <3> QED
        BY <1>1, <2>8, <3>5, <3>6, <3>7, TypesAdded, ClosedOK
    <2> QED
      BY <2>10, <2>11
  <1> QED
    BY <1>2, <1>3

\* No child, so the features and the type can go.
LEMMA RefBDFTypeDelete ==
    ASSUME RefInv, TypeInv', OneUser, NEW u \in Users, BDFTypeDelete(u)
    PROVE  TablesOK' /\ \A v \in Users : DialogOK(v)'
  <1> DEFINE t == dlg[u].t
  <1>1. Close(u) /\ t \in Types
    <2>1. dlg[u] # Closed
      BY DEF BDFTypeDelete, Closed
    <2>2. dlg[u] \in Dialog
      BY <2>1 DEF RefInv, TypeInv, TypeOK
    <2> QED
      BY <2>2 DEF BDFTypeDelete, Dialog
  <1>2. CASE dlg[u].op \in {"data", "features"} /\ DeleteRows(t, dlg[u].op)
    <2>1. UNCHANGED ftypes
      BY <1>2 DEF DeleteRows
    <2>2. CASE UNCHANGED rows
      BY <1>1, <2>1, <2>2, TablesSame, ClosedOK
    <2>3. CASE dlg[u].op = "features" /\ DropFeatures(t)
      <3>1. Children(ftypes, t) = {}
        BY <2>3 DEF RefInv, DialogOK
      <3>2. \A g \in Ids : NoChild(t, g)
        BY <1>1, <3>1, Childless DEF NoChild
      <3>3. \A c \in Types, g \in Ids :
               /\ features'[<<c, g>>] = IF c = t THEN None ELSE features[<<c, g>>]
               /\ c # t => (<<c, g>> \in blank' <=> <<c, g>> \in blank)
        BY <2>3 DEF DropFeatures
      <3> QED
        BY <1>1, <2>1, <3>2, <3>3, FeaturesGone, ClosedOK
    <2> QED
      BY <1>2, <2>2, <2>3 DEF DeleteRows
  <1>3. CASE dlg[u].op = "type" /\ DropTables(t)
    <2>1. Children(ftypes, t) = {}
      BY <1>3 DEF RefInv, DialogOK
    <2>2. Referring(t) \subseteq {t}
      BY <1>1, <2>1, Childless
    <2>3. CASE UNCHANGED <<ftypes, rows, data>>
      BY <1>1, <2>3, TablesSame, ClosedOK
    <2>4. CASE ftypes' = [ftypes EXCEPT ![t] = NoType] /\ DropFeatures(t)
      BY <1>1, <2>1, <2>4, TypeGone, ClosedOK
    <2>5. OwnFeatures(ftypes, t) => t \in Referring(t)
      BY <1>1 DEF OwnFeatures, Referring, RefInv, RefOK, RefAt
    <2> QED
      BY <1>3, <2>2, <2>3, <2>4, <2>5 DEF DropTables
  <1> QED
    BY <1>2, <1>3 DEF BDFTypeDelete

LEMMA RefFeatureOK ==
    ASSUME RefInv, OneUser, NEW u \in Users, FeatureOK(u)
    PROVE  TablesOK' /\ \A v \in Users : DialogOK(v)'
  <1> DEFINE t == dlg[u].t
  <1>1. Close(u) /\ UNCHANGED ftypes /\ OwnFeatures(ftypes, t)
    BY DEF FeatureOK
  <1>2. t \in Types
    <2>1. dlg[u] # Closed
      BY DEF FeatureOK, Closed
    <2>2. dlg[u] \in Dialog
      BY <2>1 DEF RefInv, TypeInv, TypeOK
    <2> QED
      BY <2>2 DEF Dialog
  <1>3. PICK p \in IF dlg[u].ps = {NoParent} THEN {NoParent}
                  ELSE dlg[u].ps \cup Parents(t), b \in BOOLEAN :
           SetFeature(t, dlg[u].id, p, b)
    BY DEF FeatureOK
  <1>4. dlg[u].ps \subseteq ParentList(t)
    BY DEF FeatureOK, RefInv, DialogOK
  <1>5. p \in ParentList(t) \cup {NoParent}
    <2>1. CASE ftypes[t].parent # 0
      <3>1. ParentList(t) = Parents(t)
        BY <2>1 DEF ParentList
      <3> QED
        BY <1>3, <1>4, <3>1
    <2>2. CASE ftypes[t].parent = 0
      <3>1. BDFTypeI(ftypes, t) = t
        BY <1>1, <1>2, RefIs DEF OwnFeatures, RefInv, RefOK, RefAt
      <3>2. Parents(t) = {}
        BY <2>2, <3>1 DEF Parents, BDFTypeParentI, FeaturesOf
      <3> QED
        BY <1>3, <1>4, <3>2
    <2> QED
      BY <2>1, <2>2
  <1> QED
    BY <1>1, <1>2, <1>3, <1>5, FeatureSet, ClosedOK

\* The checks of OnDelete find all that refers to the feature.
LEMMA RefDeleteFeature ==
    ASSUME RefInv, OneUser, NEW u \in Users, DeleteFeature(u)
    PROVE  \A v \in Users : DialogOK(v)'
  <1>1. PICK t \in Types : OwnFeatures(ftypes, t) /\ \E f \in FeaturesOf(t) :
           /\ \A c \in GetChildren12M(ftypes, t), g \in Ids :
                 features[<<c, g>>] = f => <<c, g>> \in blank
           /\ \A c \in GetChildren121(ftypes, t) : <<c, f>> \notin data
           /\ Show(u, "deldata", t, f, {})
    BY DEF DeleteFeature
  <1>2. PICK f \in FeaturesOf(t) :
           /\ \A c \in GetChildren12M(ftypes, t), g \in Ids :
                 features[<<c, g>>] = f => <<c, g>> \in blank
           /\ \A c \in GetChildren121(ftypes, t) : <<c, f>> \notin data
           /\ Show(u, "deldata", t, f, {})
    BY <1>1
  <1>3. UNCHANGED <<ftypes, rows, data>>
    BY DEF DeleteFeature
  <1>4. NoOtherData(t, f)
    BY <1>1, <1>2, ReferringFound DEF NoOtherData
  <1>5. NoChild(t, f)
    BY <1>1, <1>2, ChildrenFound DEF NoChild
  <1>6. NoOtherData(t, f)' /\ NoChild(t, f)'
    BY <1>3, <1>4, <1>5 DEF NoOtherData, Referring, NoChild, OwnFeatures, ParentRef, rows
  <1>7. \A v \in Users : dlg'[v].op = "deldata" /\ dlg'[v].t = t /\ dlg'[v].id = f
    BY <1>2, ShownOK
  <1> QED
    BY <1>6, <1>7 DEF DialogOK

LEMMA RefDeleteData ==
    ASSUME RefInv, OneUser, NEW u \in Users, DeleteData(u)
    PROVE  \A v \in Users : DialogOK(v)'
  <1>1. PICK t, f : t = dlg[u].t /\ f = dlg[u].id
    OBVIOUS
  <1>2. /\ Show(u, "delfeature", t, f, {}) /\ UNCHANGED <<ftypes, rows>>
        /\ data' = data \ {<<t, f>>}
    BY <1>1 DEF DeleteData
  <1>3. NoOtherData(t, f) /\ NoChild(t, f)
    BY <1>1 DEF DeleteData, RefInv, DialogOK
  <1>4. \A c \in Referring(t) : <<c, f>> \notin data'
    BY <1>2, <1>3 DEF NoOtherData
  <1>5. ~ReferredTo(t, f)'
    BY <1>2, <1>4 DEF ReferredTo, Referring
  <1>6. NoChild(t, f)'
    BY <1>2, <1>3 DEF NoChild, OwnFeatures, ParentRef, rows
  <1>7. \A v \in Users : dlg'[v].op = "delfeature" /\ dlg'[v].t = t /\ dlg'[v].id = f
    BY <1>2, ShownOK
  <1> QED
    BY <1>5, <1>6, <1>7 DEF DialogOK

LEMMA RefNext ==
    ASSUME RefInv, OneUser, [Next]_vars
    PROVE  RefInv'
  <1>0. TypeInv' /\ FoundInv'
    BY TypeNext, FoundNext DEF RefInv
  <1> SUFFICES TablesOK' /\ \A v \in Users : DialogOK(v)'
    BY <1>0 DEF TablesOK, RefInv
  <1>1. CASE UNCHANGED vars
    <2>1. ASSUME NEW v \in Users PROVE DialogOK(v)'
      BY <1>1, DialogSame DEF vars, rows, RefInv
    <2> QED
      BY <1>1, <2>1, TablesSame DEF vars, rows
  <1>2. ASSUME NEW u \in Users, Cancel(u) \/ DataOK(u)
        PROVE  TablesOK' /\ \A v \in Users : DialogOK(v)'
    <2>1. Close(u) /\ UNCHANGED <<ftypes, rows>>
      BY <1>2 DEF Cancel, DataOK
    <2> QED
      BY <2>1, TablesSame, ClosedOK
  <1>3. ASSUME NEW u \in Users, AddType(u) \/ EditData(u)
        PROVE  TablesOK' /\ \A v \in Users : DialogOK(v)'
    <2>1. UNCHANGED <<ftypes, rows>>
          /\ \E op \in {"addtype", "editdata"} : \E t, id, ps : Show(u, op, t, id, ps)
      BY <1>3 DEF AddType, EditData
    <2>2. \A v \in Users : dlg'[v].op \in {"addtype", "editdata"}
      BY <2>1, ShownOK
    <2> QED
      BY <2>1, <2>2, TablesSame DEF DialogOK
  <1>4. ASSUME NEW u \in Users, OnOKAdd(u)
        PROVE  TablesOK' /\ \A v \in Users : DialogOK(v)'
    BY <1>4, RefOnOKAdd
  <1>5. ASSUME NEW u \in Users, DeleteType(u)
        PROVE  TablesOK' /\ \A v \in Users : DialogOK(v)'
    <2>1. PICK t \in Types, what \in {"data", "features", "type"} :
             /\ what # "data" => Children(ftypes, t) = {}
             /\ Show(u, what, t, 0, {})
      BY <1>5 DEF DeleteType, Defined
    <2>2. UNCHANGED <<ftypes, rows>>
      BY <1>5 DEF DeleteType
    <2>3. \A v \in Users : dlg'[v].op = what /\ dlg'[v].t = t
      BY <2>1, ShownOK
    <2> QED
      BY <2>1, <2>2, <2>3, TablesSame DEF DialogOK
  <1>6. ASSUME NEW u \in Users, BDFTypeDelete(u)
        PROVE  TablesOK' /\ \A v \in Users : DialogOK(v)'
    BY <1>0, <1>6, RefBDFTypeDelete
  <1>7. ASSUME NEW u \in Users, AddFeature(u) \/ EditFeature(u)
        PROVE  TablesOK' /\ \A v \in Users : DialogOK(v)'
    <2>1. PICK t \in Types : \E op \in {"addfeature", "editfeature"} : \E id :
             Show(u, op, t, id, ParentList(t))
      BY <1>7 DEF AddFeature, EditFeature
    <2>2. UNCHANGED <<ftypes, rows>>
      BY <1>7 DEF AddFeature, EditFeature
    <2>3. \A v \in Users : /\ dlg'[v].op \in {"addfeature", "editfeature"}
                           /\ dlg'[v].t = t /\ dlg'[v].ps = ParentList(t)
      BY <2>1, ShownOK
    <2>4. ParentList(t)' = ParentList(t)
      BY <2>2 DEF ParentList, Parents, FeaturesOf, rows
    <2> QED
      BY <2>2, <2>3, <2>4, TablesSame DEF DialogOK
  <1>8. ASSUME NEW u \in Users, FeatureOK(u)
        PROVE  TablesOK' /\ \A v \in Users : DialogOK(v)'
    BY <1>8, RefFeatureOK
  <1>9. ASSUME NEW u \in Users, ImportRecord(u)
        PROVE  TablesOK' /\ \A v \in Users : DialogOK(v)'
    <2>1. PICK t \in Types : LET i == BDFTypeI(ftypes, t)
                             IN  /\ i # 0
                                 /\ UNCHANGED rows \/ \E f : CreateFeature(i, f)
      BY <1>9 DEF ImportRecord
    <2> DEFINE i == BDFTypeI(ftypes, t)
    <2>2. i # 0 /\ (UNCHANGED rows \/ \E f : CreateFeature(i, f))
      BY <2>1
    <2>3. ftypes[t] # NoType
      <3>1. t \in 0..MaxType
        BY NRDBFeaturesAssumption DEF Types
      <3> QED
        BY <2>2, <3>1, TypesOlder, BDFTypeIIs DEF RefInv
    <2>4. i \in Types /\ OwnFeatures(ftypes, i)
      BY <2>3, RefOwn
    <2>5. UNCHANGED <<ftypes, dlg>> /\ dlg[u] = Closed
      BY <1>9 DEF ImportRecord, Idle
    <2> HIDE DEF i
    <2>6. TablesOK'
      <3>1. CASE UNCHANGED rows
        BY <2>5, <3>1, TablesSame
      <3>2. ASSUME NEW f, CreateFeature(i, f) PROVE TablesOK'
        <4>1. PICK p \in ParentList(i) \cup {NoParent}, b \in BOOLEAN : SetFeature(i, f, p, b)
          BY <3>2 DEF CreateFeature
        <4> QED
          BY <2>4, <2>5, <4>1, FeatureSet
      <3> QED
        BY <2>2, <3>1, <3>2
    <2>7. \A v \in Users : dlg'[v] = Closed
      BY <2>5 DEF OneUser
    <2>8. \A v \in Users : DialogOK(v)'
      BY <2>7 DEF DialogOK, Closed
    <2> QED
      BY <2>6, <2>8
  <1>10. ASSUME NEW u \in Users, DeleteFeature(u)
         PROVE  TablesOK' /\ \A v \in Users : DialogOK(v)'
    BY <1>10, TablesSame, RefDeleteFeature DEF DeleteFeature
  <1>11. ASSUME NEW u \in Users, DeleteData(u)
         PROVE  TablesOK' /\ \A v \in Users : DialogOK(v)'
    BY <1>11, TablesSame, RefDeleteData DEF DeleteData
  <1>12. ASSUME NEW u \in Users, DeleteRow(u)
         PROVE  TablesOK' /\ \A v \in Users : DialogOK(v)'
    <2> DEFINE t == dlg[u].t
               f == dlg[u].id
    <2>1. t \in Types
      <3>1. dlg[u] # Closed
        BY <1>12 DEF DeleteRow, Closed
      <3>2. dlg[u] \in Dialog
        BY <3>1 DEF RefInv, TypeInv, TypeOK
      <3> QED
        BY <3>2 DEF Dialog
    <2>2. NoChild(t, f) /\ Close(u) /\ UNCHANGED ftypes
      BY <1>12 DEF DeleteRow, RefInv, DialogOK
    <2>3. UNCHANGED rows \/ SetFeature(t, f, None, FALSE)
      BY <1>12 DEF DeleteRow
    <2> HIDE DEF t, f
    <2>4. \A c \in Types, g \in Ids :
             \/ /\ features'[<<c, g>>] = features[<<c, g>>]
                /\ <<c, g>> \in blank' <=> <<c, g>> \in blank
             \/ c = t /\ g = f /\ features'[<<c, g>>] = None
      BY <2>3 DEF SetFeature, rows, RefInv, TypeInv, TypeOK
    <2> QED
      BY <2>1, <2>2, <2>4, FeaturesGone, ClosedOK
  <1>13. QED
    BY <1>1, <1>2, <1>3, <1>4, <1>5, <1>6, <1>7, <1>8, <1>9, <1>10, <1>11, <1>12 DEF Next

\* With one user, of any number of types and features: a feature whose type has
\* a parent refers to a feature of it, although no foreign key says so, unless an
\* import stored none or its name is blank. The checks before a deletion find the
\* other children through any number of types that are 1:1.
THEOREM ParentFeaturesKept == OneUser => (Spec => []ParentFeatureExists)
  <1> SUFFICES ASSUME OneUser PROVE Spec => []ParentFeatureExists
    OBVIOUS
  <1>1. Init => RefInv
    BY RefInit
  <1>2. RefInv /\ [Next]_vars => RefInv'
    BY RefNext
  <1>3. RefInv => ParentFeatureExists
    BY ParentsAre DEF RefInv, ParentsKept, Shown, ParentFeatureExists, FeaturesOf, Types
  <1> QED
    BY <1>1, <1>2, <1>3, PTL DEF Spec

\* And the checks before a feature is deleted find all data that refers to it,
\* through any number of types that are 1:1: its data is never deleted and the feature
\* then left.
THEOREM DeletionsComplete == OneUser => (Spec => []DeletionCompletes)
  <1> SUFFICES ASSUME OneUser PROVE Spec => []DeletionCompletes
    OBVIOUS
  <1>1. Init => RefInv
    BY RefInit
  <1>2. RefInv /\ [Next]_vars => RefInv'
    BY RefNext
  <1>3. RefInv => DeletionCompletes
    BY DEF RefInv, DialogOK, DeletionCompletes
  <1> QED
    BY <1>1, <1>2, <1>3, PTL DEF Spec
=============================================================================
