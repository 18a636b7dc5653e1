----------------------------- MODULE NestedTrans -----------------------------
(***************************************************************************)
(* What the transaction functions of NRDBAPI promise a program that uses   *)
(* them on one connection: transactions nest, only the outermost commit    *)
(* saves, and a roll back at any depth abandons the whole nest.            *)
(*                                                                         *)
(* There is no autocommit switch and no driver here, only what a caller    *)
(* can tell apart: the data its connection shows (view) and the data that  *)
(* outlives the connection (saved).                                        *)
(***************************************************************************)
EXTENDS Naturals

CONSTANTS
    Tables,     \* the contents a database may have
    AutoSave,   \* an update outside every transaction is saved at once (a Boolean)
    SchemaUndo  \* a change of the schema belongs to the transaction it is in (a Boolean)

VARIABLES
    depth,      \* begins that have not been committed yet
    view,       \* what the connection shows
    saved       \* what a new connection would show

ntVars == <<depth, view, saved>>

Init ==
    /\ depth = 0
    /\ view \in Tables
    /\ saved = view

\* The outermost begin may save what the connection left unsaved before it,
\* if updates outside a transaction are not saved at once.
Begin ==
    /\ depth' = depth + 1
    /\ view' = view
    /\ saved' = saved \/ (depth = 0 /\ ~AutoSave /\ saved' = view)

Commit ==
    /\ depth > 0
    /\ depth' = depth - 1
    /\ view' = view
    /\ saved' = IF depth = 1 THEN view ELSE saved

\* A roll back, and also the loss of the connection.
Abort ==
    /\ depth' = 0
    /\ view' = saved
    /\ saved' = saved

Update ==
    /\ view' \in Tables
    /\ depth' = depth
    /\ \/ depth = 0 /\ saved' = view'
       \/ (depth > 0 \/ ~AutoSave) /\ saved' = saved

ChangeSchema ==
    /\ ~SchemaUndo
    /\ view' \in Tables
    /\ saved' = view'
    /\ depth' = depth

Next == Begin \/ Commit \/ Abort \/ Update \/ ChangeSchema

Spec == Init /\ [][Next]_ntVars
=============================================================================
