---------------------------- MODULE KeyRegister ----------------------------
(***************************************************************************)
(* What the storage of one key alias promises, without files, backups,     *)
(* locks, restores or upgrades: the alias is a register that has a key or  *)
(* none.  A key is made while there is none, stored, and promised to the   *)
(* client with the answer; it fades only when a deletion was asked for or  *)
(* before it was promised; and a key whose deletion was answered is gone.  *)
(***************************************************************************)
EXTENDS Integers

CONSTANT MaxKeys  \* bound: keys made in a run

VARIABLES
    stored,   \* the keys that can still be read or recovered
    pending,  \* the key that was made and not yet answered
    made,     \* number of keys made
    known,    \* keys whose generation was answered with success
    promised, \* those that nobody has asked to delete
    gone      \* those whose deletion or replacement was answered

regVars == <<stored, pending, made, known, promised, gone>>

RegInit ==
    /\ made \in {0, 1}
    /\ stored = 1 .. made
    /\ known = stored /\ promised = stored
    /\ pending = {} /\ gone = {}

\* A request to delete or to replace the key.
Ask ==
    /\ promised' = {}
    /\ UNCHANGED <<stored, pending, made, known, gone>>

Make ==
    /\ stored = {} /\ pending = {} /\ promised = {}
    /\ made < MaxKeys
    /\ made' = made + 1
    /\ pending' = {made'}
    /\ UNCHANGED <<stored, known, promised, gone>>

Store ==
    /\ stored = {} /\ pending # {}
    /\ stored' = pending
    /\ UNCHANGED <<pending, made, known, promised, gone>>

\* The key is removed, or damaged in all its copies.
Fade ==
    /\ stored \cap promised = {}
    /\ stored' = {}
    /\ UNCHANGED <<pending, made, known, promised, gone>>

\* Generation answers with success.
Answer ==
    /\ pending # {} /\ stored = pending
    /\ gone' = known
    /\ known' = known \cup pending
    /\ promised' = pending
    /\ pending' = {}
    /\ UNCHANGED <<stored, made>>

\* Deletion answers with success.
Delete ==
    /\ stored = {}
    /\ gone' = known
    /\ UNCHANGED <<stored, pending, made, known, promised>>

\* Generation fails, or the service dies.
Abandon ==
    /\ pending' = {}
    /\ \/ UNCHANGED stored
       \/ stored \cap promised = {} /\ stored' = {}
    /\ UNCHANGED <<made, known, promised, gone>>

RegNext == Ask \/ Make \/ Store \/ Fade \/ Answer \/ Delete \/ Abandon

RegSpec == RegInit /\ [][RegNext]_regVars

-----------------------------------------------------------------------------
(* What a client relies on: there is one key at a time, a promised key is  *)
(* there, and one that is gone is not.                                     *)
Reliable ==
    /\ \A k, l \in stored : k = l
    /\ promised \subseteq stored
    /\ stored \cap gone = {}
=============================================================================
