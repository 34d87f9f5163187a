--------------------------- MODULE VersionedStore ---------------------------
(***************************************************************************)
(* What the configuration table promises its users: for every key at most  *)
(* one row, created at version 1 under an identifier never used before,    *)
(* and each change of its value raising the version by exactly one.        *)
(* ConfigStore, where an update reads the row and writes it back in two    *)
(* separate steps among other handlers, is shown to implement it.          *)
(***************************************************************************)
EXTENDS Naturals

CONSTANTS
  Keys,     \* configuration keys, environment and service included
  Values,   \* configuration values
  NoRow     \* the key has no row

VARIABLES
  store,    \* store[k]: the row of k, or NoRow
  lastId    \* the last identifier given to a row

storeVars == <<store, lastId>>

Rows == [id : Nat, value : Values, version : Nat]

Init ==
  /\ store = [k \in Keys |-> NoRow]
  /\ lastId = 0

Create(k, v) ==
  /\ store[k] = NoRow
  /\ lastId' = lastId + 1
  /\ store' = [store EXCEPT ![k] = [id |-> lastId + 1, value |-> v, version |-> 1]]

Update(k, v) ==
  /\ store[k] # NoRow
  /\ store' = [store EXCEPT
       ![k] = [id |-> store[k].id, value |-> v, version |-> store[k].version + 1]]
  /\ UNCHANGED lastId

Delete(k) ==
  /\ store[k] # NoRow
  /\ store' = [store EXCEPT ![k] = NoRow]
  /\ UNCHANGED lastId

Next ==
  \E k \in Keys :
    \/ \E v \in Values : Create(k, v) \/ Update(k, v)
    \/ Delete(k)

Spec == Init /\ [][Next]_storeVars
=============================================================================
