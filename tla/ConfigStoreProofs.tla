-------------------------- MODULE ConfigStoreProofs --------------------------
(***************************************************************************)
(* Proofs about ConfigStore for any handlers, keys, values and number of   *)
(* writes: its types, the history chain, the copies held outside the table,*)
(* the implementation of VersionedStore, and the events.                   *)
(***************************************************************************)
EXTENDS ConfigStore, SequenceTheorems, FiniteSetTheorems, TLAPS

-----------------------------------------------------------------------------
\* Counters and sequences of sequences keep their types under the updates
\* the actions make.
LEMMA CountUp ==
  ASSUME NEW f \in [EventTypes -> [Keys -> Nat]], NEW e \in EventTypes, NEW k \in Keys
  PROVE  [f EXCEPT ![e][k] = @ + 1] \in [EventTypes -> [Keys -> Nat]]
<1>1. f[e] \in [Keys -> Nat]
  OBVIOUS
<1>2. [f[e] EXCEPT ![k] = @ + 1] \in [Keys -> Nat]
  BY <1>1
<1> QED
  BY <1>2, Zenon

\* What Append adds to a typed sequence and what it leaves.
LEMMA AppendTyped ==
  ASSUME NEW S, NEW s \in Seq(S), NEW x \in S
  PROVE  /\ Append(s, x) \in Seq(S)
         /\ Len(Append(s, x)) = Len(s) + 1
         /\ Append(s, x)[Len(s) + 1] = x
         /\ \A i \in 1..Len(s) : Append(s, x)[i] = s[i]
  BY AppendProperties

\* Replacing one element keeps a sequence's type and length.
LEMMA ReplaceTyped ==
  ASSUME NEW S, NEW s \in Seq(S), NEW i, NEW x, i \in 1..Len(s) => x \in S
  PROVE  /\ [s EXCEPT ![i] = x] \in Seq(S)
         /\ Len([s EXCEPT ![i] = x]) = Len(s)
<1>1. s \in [1..Len(s) -> S] /\ Len(s) \in Nat
  OBVIOUS
<1>2. [s EXCEPT ![i] = x] \in [1..Len(s) -> S]
  BY <1>1
<1> QED
  BY <1>1, <1>2

-----------------------------------------------------------------------------
\* What a handler holds at each of its control points.
Holds(h) ==
  /\ req[h].pc # "idle" => req[h].key \in Keys
  /\ req[h].pc \in {"insert", "lock", "commit"} => req[h].val \in Values
  /\ req[h].pc \in {"insert", "lock", "commit", "delete", "refresh", "cache_delete", "publish"}
       => req[h].op \in EventTypes
  /\ req[h].pc \in {"cache_set", "history", "commit", "refresh"} => req[h].row \in Rows

Shape == TypeOK /\ \A h \in Handlers : Holds(h)

\* The control point and locals after one handler's move are again well formed.
LEMMA MoveShape ==
  ASSUME NEW h \in Handlers, Shape, NEW new \in Requests,
         req' = [req EXCEPT ![h] = new],
         new.pc # "idle" => new.key \in Keys,
         new.pc \in {"insert", "lock", "commit"} => new.val \in Values,
         new.pc \in {"insert", "lock", "commit", "delete", "refresh", "cache_delete", "publish"}
           => new.op \in EventTypes,
         new.pc \in {"cache_set", "history", "commit", "refresh"} => new.row \in Rows
  PROVE  req' \in [Handlers -> Requests] /\ \A g \in Handlers : Holds(g)'
  BY DEF Shape, TypeOK, Holds

\* An idle handler's locals are well formed.
LEMMA IdleRequest == IdleReq \in Requests /\ IdleReq.pc = "idle"
  BY DEF IdleReq, Requests, Points, Ops

\* A handler that returns leaves well-formed locals.
LEMMA ReturnShape ==
  ASSUME NEW h \in Handlers, Shape, Return(h)
  PROVE  req' \in [Handlers -> Requests] /\ \A g \in Handlers : Holds(g)'
  BY IdleRequest, MoveShape DEF Return, IdleReq

\* So does one that moves on with a row in hand,
LEMMA GoShape ==
  ASSUME NEW h \in Handlers, Shape, NEW row \in Rows \cup {NoRow}, NEW point \in Points,
         GoWith(h, point, row), req[h].pc # "idle",
         point \in {"insert", "lock", "commit"} => req[h].val \in Values,
         point \in {"insert", "lock", "commit", "delete", "refresh", "cache_delete", "publish"}
           => req[h].op \in EventTypes,
         point \in {"cache_set", "history", "commit", "refresh"} => row \in Rows
  PROVE  req' \in [Handlers -> Requests] /\ \A g \in Handlers : Holds(g)'
<1> DEFINE new == [req[h] EXCEPT !.pc = point, !.row = row]
<1>1. req[h] \in Requests
  BY DEF Shape, TypeOK
<1>2. /\ new \in Requests
      /\ new.pc = point /\ new.row = row
      /\ new.key = req[h].key /\ new.op = req[h].op /\ new.val = req[h].val
  BY <1>1 DEF Requests
<1>3. req' = [req EXCEPT ![h] = new]
  BY <1>1 DEF GoWith, Shape, TypeOK, Requests
<1>4. req[h].key \in Keys
  BY DEF Shape, Holds
<1> QED
  BY <1>2, <1>3, <1>4, MoveShape

\* one that moves on with the row it had,
LEMMA PlainGoShape ==
  ASSUME NEW h \in Handlers, Shape, NEW point \in {"db_get", "publish"},
         Go(h, point), req[h].pc # "idle",
         point = "publish" => req[h].op \in EventTypes
  PROVE  req' \in [Handlers -> Requests] /\ \A g \in Handlers : Holds(g)'
<1> DEFINE new == [req[h] EXCEPT !.pc = point]
<1>1. req[h] \in Requests
  BY DEF Shape, TypeOK
<1>2. /\ new \in Requests
      /\ new.pc = point /\ new.key = req[h].key /\ new.op = req[h].op
  BY <1>1 DEF Requests, Points
<1>3. req' = [req EXCEPT ![h] = new]
  BY <1>1 DEF Go, Shape, TypeOK, Requests
<1>4. req[h].key \in Keys
  BY DEF Shape, Holds
<1> QED
  BY <1>2, <1>3, <1>4, MoveShape

\* and a read that has its row.
LEMMA AnswerShape ==
  ASSUME NEW h \in Handlers, Shape, NEW row \in Rows, Answer(h, row), req[h].pc # "idle"
  PROVE  req' \in [Handlers -> Requests] /\ \A g \in Handlers : Holds(g)'
<1>1. CASE req[h].op = "HISTORY"
  <2>1. GoWith(h, "history", row)
    BY <1>1 DEF Answer
  <2> QED
    BY <2>1, GoShape DEF Points
<1>2. CASE req[h].op # "HISTORY"
  BY <1>2, ReturnShape DEF Answer
<1> QED
  BY <1>1, <1>2

\* The service starts well typed, with every handler idle.
LEMMA ShapeInit == Init => Shape
<1> SUFFICES ASSUME Init PROVE Shape
  OBVIOUS
<1>1. TypeOK
  BY MaxWritesAssumption, IdleRequest DEF Init, TypeOK, EventTypes
<1>2. ASSUME NEW h \in Handlers PROVE Holds(h)
  BY IdleRequest DEF Init, Holds, IdleReq
<1> QED
  BY <1>1, <1>2 DEF Shape

\* Each action keeps the types and what the handlers hold.
LEMMA ShapeStep == Shape /\ [Next]_vars => Shape'
<1> SUFFICES ASSUME Shape, [Next]_vars PROVE Shape'
  OBVIOUS
<1> USE DEF Shape, dbVars, cacheVars
<1>1. ASSUME NEW h \in Handlers, NEW k \in Keys, NEW op \in {"GET", "HISTORY"},
             StartRead(h, op, k)
      PROVE  Shape'
  <2> DEFINE new == [IdleReq EXCEPT !.pc = "cache_get", !.op = op, !.key = k]
  <2>1. new \in Requests /\ new.pc = "cache_get" /\ new.key = k
    BY DEF IdleReq, Requests, Points, Ops
  <2>2. req' \in [Handlers -> Requests] /\ \A g \in Handlers : Holds(g)'
    BY <1>1, <2>1, MoveShape DEF StartRead
  <2> QED
    BY <1>1, <2>2 DEF StartRead, TypeOK
<1>2. ASSUME NEW h \in Handlers, NEW k \in Keys, NEW op \in EventTypes,
             NEW v \in Values \cup {NoValue}, op # "DELETED" => v \in Values,
             StartWrite(h, op, k, v)
      PROVE  Shape'
  <2> DEFINE new == [pc |-> WritePoint(op), op |-> op, key |-> k, val |-> v, row |-> NoRow]
  <2>1. /\ new \in Requests
        /\ new.pc \in {"insert", "lock", "delete"}
        /\ new.pc \in {"insert", "lock"} => v \in Values
        /\ new.key = k /\ new.op = op /\ new.val = v
    BY <1>2 DEF Requests, Points, Ops, EventTypes, WritePoint
  <2>2. req' \in [Handlers -> Requests] /\ \A g \in Handlers : Holds(g)'
    BY <1>2, <2>1, MoveShape DEF StartWrite
  <2>3. writes' \in 0..MaxWrites
    BY <1>2, MaxWritesAssumption DEF StartWrite, TypeOK
  <2> QED
    BY <1>2, <2>2, <2>3 DEF StartWrite, TypeOK
<1>3. ASSUME NEW h \in Handlers, CacheGet(h)
      PROVE  Shape'
  <2>1. req' \in [Handlers -> Requests] /\ \A g \in Handlers : Holds(g)'
    BY <1>3, AnswerShape, PlainGoShape DEF CacheGet, TypeOK, Holds
  <2> QED
    BY <1>3, <2>1 DEF CacheGet, TypeOK
<1>4. ASSUME NEW h \in Handlers, DbGet(h)
      PROVE  Shape'
  <2>1. req' \in [Handlers -> Requests] /\ \A g \in Handlers : Holds(g)'
    BY <1>4, ReturnShape, GoShape DEF DbGet, TypeOK, Holds, Points
  <2> QED
    BY <1>4, <2>1 DEF DbGet, TypeOK
<1>5. ASSUME NEW h \in Handlers, CacheSet(h)
      PROVE  Shape'
  <2>1. req[h].row \in Rows /\ req[h].key \in Keys
    BY <1>5 DEF CacheSet, Holds
  <2>2. req' \in [Handlers -> Requests] /\ \A g \in Handlers : Holds(g)'
    BY <1>5, <2>1, AnswerShape DEF CacheSet
  <2>3. /\ cache' \in [Keys -> Rows \cup {NoRow}]
        /\ expires' \in [Keys -> BOOLEAN] /\ excused' \in [Keys -> BOOLEAN]
    BY <1>5, <2>1, Zenon DEF CacheSet, TypeOK, Stale
  <2> QED
    BY <1>5, <2>2, <2>3 DEF CacheSet, TypeOK
<1>6. ASSUME NEW h \in Handlers, HistoryGet(h)
      PROVE  Shape'
  BY <1>6, ReturnShape DEF HistoryGet, TypeOK
<1>7. ASSUME NEW h \in Handlers, Insert(h)
      PROVE  Shape'
  <2> DEFINE row == [id |-> Len(history) + 1, value |-> req[h].val, version |-> 1]
             entry == [old |-> NoValue, new |-> req[h].val]
  <2>1. req[h].key \in Keys /\ req[h].val \in Values
    BY <1>7 DEF Insert, Holds
  <2>2. row \in Rows /\ entry \in Entries
    BY <2>1 DEF TypeOK, Rows, Entries
  <2>3. req' \in [Handlers -> Requests] /\ \A g \in Handlers : Holds(g)'
    <3>1. CASE Return(h)
      BY <3>1, ReturnShape
    <3>2. CASE GoWith(h, "refresh", row)
      BY <3>2, <1>7, <2>2, GoShape DEF Insert, Holds, Points
    <3> QED
      BY <1>7, <3>1, <3>2 DEF Insert
  <2>4. table' \in [Keys -> Rows \cup {NoRow}]
    BY <1>7, <2>2 DEF Insert, TypeOK
  <2>5. history' \in Seq(Seq(Entries))
    <3>1. <<entry>> \in Seq(Entries)
      BY <2>2
    <3>2. Append(history, <<entry>>) \in Seq(Seq(Entries))
      BY <3>1, AppendTyped DEF TypeOK
    <3> QED
      BY <1>7, <3>2 DEF Insert, TypeOK
  <2>6. commits' \in [EventTypes -> [Keys -> Nat]]
    <3>1. commits' = commits \/ Committed("CREATED", req[h].key)
      BY <1>7 DEF Insert
    <3>2. "CREATED" \in EventTypes /\ commits \in [EventTypes -> [Keys -> Nat]]
      BY DEF EventTypes, TypeOK
    <3>3. [commits EXCEPT !["CREATED"][req[h].key] = @ + 1] \in [EventTypes -> [Keys -> Nat]]
      BY <2>1, <3>2, CountUp, Zenon
    <3> QED
      BY <3>1, <3>2, <3>3, Zenon DEF Committed
  <2> QED
    BY <1>7, <2>3, <2>4, <2>5, <2>6 DEF Insert, TypeOK
<1>8. ASSUME NEW h \in Handlers, LockRow(h)
      PROVE  Shape'
  <2>1. req[h].key \in Keys
    BY <1>8 DEF LockRow, Holds
  <2>2. req' \in [Handlers -> Requests] /\ \A g \in Handlers : Holds(g)'
    <3>1. CASE table[req[h].key] = NoRow
      BY <1>8, <3>1, ReturnShape DEF LockRow
    <3>2. CASE table[req[h].key] # NoRow
      BY <1>8, <2>1, <3>2, GoShape DEF LockRow, Holds, Points, TypeOK
    <3> QED
      BY <3>1, <3>2
  <2> QED
    BY <1>8, <2>1, <2>2 DEF LockRow, TypeOK
<1>9. ASSUME NEW h \in Handlers, CommitUpdate(h)
      PROVE  Shape'
  <2> DEFINE row == [id |-> req[h].row.id, value |-> req[h].val,
                     version |-> req[h].row.version + 1]
             entry == [old |-> req[h].row.value, new |-> row.value]
  <2>1. req[h].key \in Keys /\ req[h].val \in Values /\ req[h].row \in Rows
    BY <1>9 DEF CommitUpdate, Holds
  <2>2. row \in Rows /\ entry \in Entries
    BY <2>1 DEF Rows, Entries
  <2>3. req' \in [Handlers -> Requests] /\ \A g \in Handlers : Holds(g)'
    BY <1>9, <2>2, GoShape DEF CommitUpdate, Holds, Points
  <2>4. table' \in [Keys -> Rows \cup {NoRow}]
    BY <1>9, <2>2 DEF CommitUpdate, TypeOK
  <2>5. history' \in Seq(Seq(Entries))
    <3> DEFINE id == req[h].row.id
               longer == Append(history[id], entry)
    <3>1. id \in 1..Len(history) => longer \in Seq(Entries)
      BY <2>2, AppendTyped, ElementOfSeq DEF TypeOK
    <3>2. [history EXCEPT ![id] = longer] \in Seq(Seq(Entries))
      BY <3>1, ReplaceTyped DEF TypeOK
    <3> QED
      BY <1>9, <3>2 DEF CommitUpdate
  <2>6. commits' \in [EventTypes -> [Keys -> Nat]]
    <3>1. commits' = commits \/ Committed("UPDATED", req[h].key)
      BY <1>9 DEF CommitUpdate
    <3>2. "UPDATED" \in EventTypes /\ commits \in [EventTypes -> [Keys -> Nat]]
      BY DEF EventTypes, TypeOK
    <3>3. [commits EXCEPT !["UPDATED"][req[h].key] = @ + 1] \in [EventTypes -> [Keys -> Nat]]
      BY <2>1, <3>2, CountUp, Zenon
    <3> QED
      BY <3>1, <3>2, <3>3, Zenon DEF Committed
  <2>7. rowLock' \in [Keys -> Handlers \cup {NoHandler}]
    BY <1>9 DEF CommitUpdate, TypeOK
  <2> QED
    BY <1>9, <2>3, <2>4, <2>5, <2>6, <2>7 DEF CommitUpdate, TypeOK
<1>10. ASSUME NEW h \in Handlers, DeleteRow(h)
       PROVE  Shape'
  <2>1. req[h].key \in Keys /\ req[h].op \in EventTypes
    BY <1>10 DEF DeleteRow, Holds
  <2>2. req' \in [Handlers -> Requests] /\ \A g \in Handlers : Holds(g)'
    BY <1>10, <2>1, GoShape DEF DeleteRow, Points, TypeOK
  <2>3. table' \in [Keys -> Rows \cup {NoRow}]
    BY <1>10 DEF DeleteRow, TypeOK
  <2>4. history' \in Seq(Seq(Entries))
    <3>1. history \in Seq(Seq(Entries)) /\ <<>> \in Seq(Entries)
      BY DEF TypeOK
    <3>2. [history EXCEPT ![table[req[h].key].id] = <<>>] \in Seq(Seq(Entries))
      BY <3>1, ReplaceTyped
    <3> QED
      BY <1>10, <3>1, <3>2, Zenon DEF DeleteRow
  <2>5. commits' \in [EventTypes -> [Keys -> Nat]]
    <3>1. commits' = commits \/ Committed("DELETED", req[h].key)
      BY <1>10 DEF DeleteRow
    <3>2. "DELETED" \in EventTypes /\ commits \in [EventTypes -> [Keys -> Nat]]
      BY DEF EventTypes, TypeOK
    <3>3. [commits EXCEPT !["DELETED"][req[h].key] = @ + 1] \in [EventTypes -> [Keys -> Nat]]
      BY <2>1, <3>2, CountUp, Zenon
    <3> QED
      BY <3>1, <3>2, <3>3, Zenon DEF Committed
  <2> QED
    BY <1>10, <2>2, <2>3, <2>4, <2>5 DEF DeleteRow, TypeOK
<1>11. ASSUME NEW h \in Handlers, Refresh(h)
       PROVE  Shape'
  <2>1. req[h].key \in Keys /\ req[h].op \in EventTypes
    BY <1>11 DEF Refresh, Holds
  <2>2. req' \in [Handlers -> Requests] /\ \A g \in Handlers : Holds(g)'
    <3>1. CASE Return(h)
      BY <3>1, ReturnShape
    <3>2. CASE GoWith(h, "cache_delete", table[req[h].key])
      BY <3>2, <1>11, <2>1, GoShape DEF Refresh, Points, TypeOK
    <3> QED
      BY <1>11, <3>1, <3>2 DEF Refresh
  <2> QED
    BY <1>11, <2>2 DEF Refresh, TypeOK
<1>12. ASSUME NEW h \in Handlers, CacheDelete(h)
       PROVE  Shape'
  <2>1. req[h].op \in EventTypes
    BY <1>12 DEF CacheDelete, Holds
  <2>2. req' \in [Handlers -> Requests] /\ \A g \in Handlers : Holds(g)'
    BY <1>12, <2>1, ReturnShape, PlainGoShape DEF CacheDelete
  <2> QED
    BY <1>12, <2>2 DEF CacheDelete, TypeOK
<1>13. ASSUME NEW h \in Handlers, Publish(h)
       PROVE  Shape'
  <2>1. req[h].op \in EventTypes /\ req[h].key \in Keys
    BY <1>13 DEF Publish, Holds
  <2>2. topic' \in [EventTypes -> [Keys -> Nat]]
    <3>1. topic' = topic \/ topic' = [topic EXCEPT ![req[h].op][req[h].key] = @ + 1]
      BY <1>13 DEF Publish
    <3>2. topic \in [EventTypes -> [Keys -> Nat]]
      BY DEF TypeOK
    <3>3. [topic EXCEPT ![req[h].op][req[h].key] = @ + 1] \in [EventTypes -> [Keys -> Nat]]
      BY <2>1, <3>2, CountUp, Zenon
    <3> QED
      BY <3>1, <3>2, <3>3, Zenon
  <2> QED
    BY <1>13, <2>2, ReturnShape DEF Publish, TypeOK
<1>14. ASSUME NEW h \in Handlers, Fail(h)
       PROVE  Shape'
  <2>1. rowLock' \in [Keys -> Handlers \cup {NoHandler}] /\ excused' \in [Keys -> BOOLEAN]
    BY <1>14 DEF Fail, TypeOK
  <2> QED
    BY <1>14, <2>1, ReturnShape DEF Fail, TypeOK
<1>15. ASSUME NEW k \in Keys, Expire(k)
       PROVE  Shape'
  BY <1>15 DEF Expire, TypeOK, Holds
<1>16. CASE UNCHANGED vars
  BY <1>16 DEF vars, TypeOK, Holds
<1> QED
  BY <1>1, <1>2, <1>3, <1>4, <1>5, <1>6, <1>7, <1>8, <1>9, <1>10, <1>11, <1>12,
     <1>13, <1>14, <1>15, <1>16, CreatedAssumption DEF Next, Step, EventTypes

\* Every variable keeps its type, whatever the requests and failures.
THEOREM TypeInvariant == Spec => []TypeOK
<1>1. Shape => TypeOK
  BY DEF Shape
<1> QED
  BY <1>1, ShapeInit, ShapeStep, PTL DEF Spec

-----------------------------------------------------------------------------
(***************************************************************************)
(* The inductive invariant.  HistoryMatchesTable is not inductive alone:   *)
(* CommitUpdate writes from the row in the handler's hands, so that row    *)
(* must still be the table's (LockHeld, what FOR UPDATE buys), and two     *)
(* rows must not share an identifier, nor a later row take the identifier  *)
(* of a copy still held somewhere (IdsInOrder and KnownIn).                  *)
(***************************************************************************)
LockHeld ==
  \A h \in Handlers : req[h].pc = "commit" =>
    /\ rowLock[req[h].key] = h
    /\ table[req[h].key] = req[h].row
    /\ req[h].row # NoRow

IdsInOrder ==
  \A k \in Keys : table[k] # NoRow =>
    /\ table[k].id <= Len(history)
    /\ \A j \in Keys \ {k} : table[j] # NoRow => table[j].id # table[k].id

\* PastVersion, with the table and the history as parameters, and an identifier
\* already given out.
KnownIn(tab, hist, k, row) ==
  row # NoRow =>
    /\ row.id <= Len(hist)
    /\ tab[k] # NoRow /\ tab[k].id = row.id =>
         /\ row.version <= tab[k].version
         /\ hist[row.id][row.version].new = row.value
    /\ \A j \in Keys \ {k} : tab[j] # NoRow => tab[j].id # row.id

CopiesKnown ==
  \A k \in Keys :
    /\ KnownIn(table, history, k, cache[k])
    /\ \A h \in Handlers : req[h].key = k => KnownIn(table, history, k, req[h].row)

CoreInv == Shape /\ LockHeld /\ IdsInOrder /\ HistoryMatchesTable /\ CopiesKnown

\* The inductive invariant holds in the empty store.
LEMMA CoreInit == Init => CoreInv
<1> SUFFICES ASSUME Init PROVE CoreInv
  OBVIOUS
<1>1. Shape
  BY ShapeInit
<1>2. LockHeld
  BY DEF Init, LockHeld, IdleReq
<1>3. IdsInOrder /\ HistoryMatchesTable
  BY DEF Init, IdsInOrder, HistoryMatchesTable
<1>4. CopiesKnown
  BY DEF Init, CopiesKnown, KnownIn, IdleReq
<1> QED
  BY <1>1, <1>2, <1>3, <1>4 DEF CoreInv

\* The row of the table is itself a past version of its key.
LEMMA TableKnown ==
  ASSUME CoreInv, NEW k \in Keys
  PROVE  KnownIn(table, history, k, table[k])
<1> SUFFICES ASSUME table[k] # NoRow PROVE KnownIn(table, history, k, table[k])
  BY DEF KnownIn
<1>1. table[k] \in Rows
  BY DEF CoreInv, Shape, TypeOK
<1>2. /\ Len(history[table[k].id]) = table[k].version
      /\ history[table[k].id][table[k].version].new = table[k].value
  BY DEF CoreInv, HistoryMatchesTable
<1> QED
  BY <1>1, <1>2 DEF CoreInv, IdsInOrder, KnownIn, Rows

\* A handler's move that leaves the database alone: every copy held after it
\* was held before it, in the cache, in the same handler or in the table.
CopiesMoved ==
  /\ \A k \in Keys :
       \/ cache'[k] \in {cache[k], NoRow}
       \/ \E h \in Handlers : req[h].key = k /\ cache'[k] = req[h].row
  /\ \A h \in Handlers :
       \/ req'[h].row = NoRow
       \/ /\ req'[h].key = req[h].key
          /\ \/ req'[h].row = req[h].row
             \/ req[h].key \in Keys /\ req'[h].row \in {cache[req[h].key], table[req[h].key]}

\* A step that leaves the database alone and only passes known copies on.
LEMMA QuietStep ==
  ASSUME CoreInv, Shape', LockHeld', UNCHANGED <<table, history>>, CopiesMoved
  PROVE  CoreInv'
<1>1. IdsInOrder' /\ HistoryMatchesTable'
  BY DEF CoreInv, IdsInOrder, HistoryMatchesTable, Chained
<1>2. ASSUME NEW k \in Keys, NEW row, KnownIn(table, history, k, row) \/ row = NoRow
      PROVE  KnownIn(table', history', k, row)
  BY <1>2 DEF KnownIn
<1>3. ASSUME NEW k \in Keys PROVE KnownIn(table', history', k, cache'[k])
  <2>1. KnownIn(table, history, k, cache'[k]) \/ cache'[k] = NoRow
    BY DEF CoreInv, CopiesKnown, CopiesMoved
  <2> QED
    BY <1>2, <2>1 DEF KnownIn
<1>4. ASSUME NEW k \in Keys, NEW h \in Handlers, req'[h].key = k PROVE KnownIn(table', history', k, req'[h].row)
  <2>1. KnownIn(table, history, k, req'[h].row) \/ req'[h].row = NoRow
    BY <1>4, TableKnown DEF CoreInv, CopiesKnown, CopiesMoved
  <2> QED
    BY <1>2, <2>1 DEF KnownIn
<1>5. CopiesKnown'
  BY <1>3, <1>4 DEF CopiesKnown
<1> QED
  BY <1>1, <1>5 DEF CoreInv

\* A write to the database keeps CopiesKnown if it keeps every known row known
\* and leaves in the writer's hands nothing but the row it was about.
LEMMA CopiesAfterWrite ==
  ASSUME CoreInv, NEW h \in Handlers, NEW new \in Rows \cup {NoRow},
         UNCHANGED cache, req[h].key \in Keys,
         \/ req' = [req EXCEPT ![h].pc = req'[h].pc, ![h].row = new]
         \/ req' = [req EXCEPT ![h] = IdleReq],
         KnownIn(table', history', req[h].key, new),
         \A k \in Keys, row \in Rows : KnownIn(table, history, k, row) => KnownIn(table', history', k, row)
  PROVE  CopiesKnown'
<1>1. req \in [Handlers -> Requests] /\ cache \in [Keys -> Rows \cup {NoRow}]
  BY DEF CoreInv, Shape, TypeOK
<1>2. ASSUME NEW k \in Keys PROVE KnownIn(table', history', k, cache'[k])
  <2>1. CASE cache[k] \in Rows
    <3>1. KnownIn(table, history, k, cache[k])
      BY DEF CoreInv, CopiesKnown
    <3> QED
      BY <2>1, <3>1 DEF KnownIn
  <2>2. CASE cache[k] = NoRow
    BY <2>2 DEF KnownIn
  <2> QED
    BY <1>1, <2>1, <2>2
<1>3. ASSUME NEW k \in Keys, NEW g \in Handlers, req'[g].key = k PROVE KnownIn(table', history', k, req'[g].row)
  <2>1. CASE g # h
    <3>1. req'[g] = req[g] /\ req[g].row \in Rows \cup {NoRow}
      BY <1>1, <2>1 DEF Requests
    <3>2. KnownIn(table, history, k, req[g].row)
      BY <1>3, <3>1 DEF CoreInv, CopiesKnown
    <3> QED
      BY <3>1, <3>2 DEF KnownIn
  <2>2. CASE g = h
    <3>1. CASE req' = [req EXCEPT ![h] = IdleReq]
      BY <1>1, <1>3, <2>2, <3>1, SentinelAssumption DEF IdleReq
    <3>2. CASE req' = [req EXCEPT ![h].pc = req'[h].pc, ![h].row = new]
      <4>1. req'[h].key = req[h].key /\ req'[h].row = new
        BY <1>1, <3>2 DEF Requests
      <4> QED
        BY <1>3, <2>2, <4>1 DEF KnownIn
    <3> QED
      BY <3>1, <3>2
  <2> QED
    BY <2>1, <2>2
<1> QED
  BY <1>2, <1>3 DEF CopiesKnown

\* The insert gives the new row an identifier no row and no copy has.
LEMMA InsertCore ==
  ASSUME CoreInv, Shape', NEW h \in Handlers, Insert(h), table[req[h].key] = NoRow
  PROVE  CoreInv'
<1> DEFINE key == req[h].key
           n == Len(history)
           row == [id |-> n + 1, value |-> req[h].val, version |-> 1]
           first == <<[old |-> NoValue, new |-> req[h].val]>>
<1>1. /\ key \in Keys /\ req[h].val \in Values /\ req[h].pc = "insert"
      /\ table \in [Keys -> Rows \cup {NoRow}]
      /\ history \in Seq(Seq(Entries)) /\ n \in Nat
  BY DEF CoreInv, Shape, TypeOK, Holds, Insert
<1>2. /\ table' = [table EXCEPT ![key] = row]
      /\ history' = Append(history, first)
      /\ GoWith(h, "refresh", row)
      /\ UNCHANGED <<cache, rowLock>>
  BY DEF Insert, cacheVars
<1>3. row \in Rows /\ first \in Seq(Entries)
  BY <1>1 DEF Rows, Entries
<1>4. /\ Len(history') = n + 1
      /\ history'[n + 1] = first
      /\ \A i \in 1..n : history'[i] = history[i]
  BY <1>1, <1>2, <1>3, AppendTyped
<1>5. \A k \in Keys : table[k] # NoRow => table[k].id \in 1..n /\ table[k] \in Rows
  BY <1>1 DEF CoreInv, IdsInOrder, Rows
<1>6. IdsInOrder'
  BY <1>1, <1>2, <1>4, <1>5 DEF CoreInv, IdsInOrder
<1>7. HistoryMatchesTable'
  <2> SUFFICES ASSUME NEW k \in Keys, table'[k] # NoRow
               PROVE  LET hs == history'[table'[k].id] IN
                      /\ Len(hs) = table'[k].version
                      /\ hs[Len(hs)].new = table'[k].value
                      /\ Chained(hs)
    BY DEF HistoryMatchesTable
  <2>1. CASE k = key
    <3>1. table'[k] = row
      BY <1>1, <1>2, <2>1
    <3>2. /\ row.id = n + 1 /\ row.version = 1 /\ row.value = req[h].val
          /\ Len(first) = 1 /\ first[1].old = NoValue /\ first[1].new = req[h].val
      OBVIOUS
    <3>3. Chained(first)
      BY <3>2 DEF Chained
    <3> QED
      BY <1>4, <3>1, <3>2, <3>3
  <2>2. CASE k # key
    BY <1>1, <1>2, <1>4, <1>5, <2>2 DEF CoreInv, HistoryMatchesTable
  <2> QED
    BY <2>1, <2>2
<1>8. ASSUME NEW k \in Keys, NEW r \in Rows, KnownIn(table, history, k, r)
      PROVE  KnownIn(table', history', k, r)
  <2>1. r.id \in 1..n \/ r = NoRow
    BY <1>8 DEF KnownIn, Rows
  <2> QED
    BY <1>1, <1>2, <1>4, <1>8, <2>1 DEF KnownIn
<1>9. KnownIn(table', history', key, row)
  BY <1>1, <1>2, <1>4, <1>5 DEF KnownIn
<1>10. req' = [req EXCEPT ![h].pc = req'[h].pc, ![h].row = row]
  BY <1>2 DEF GoWith, CoreInv, Shape, TypeOK, Requests
<1>11. CopiesKnown'
  BY <1>1, <1>2, <1>3, <1>8, <1>9, <1>10, CopiesAfterWrite
<1>12. LockHeld'
  <2> SUFFICES ASSUME NEW g \in Handlers, req'[g].pc = "commit"
               PROVE  /\ rowLock'[req'[g].key] = g
                      /\ table'[req'[g].key] = req'[g].row
                      /\ req'[g].row # NoRow
    BY DEF LockHeld
  <2>1. g # h /\ req'[g] = req[g]
    BY <1>2 DEF GoWith, CoreInv, Shape, TypeOK, Requests
  <2>2. /\ rowLock[req[g].key] = g
        /\ table[req[g].key] = req[g].row
        /\ req[g].row # NoRow
    BY <2>1 DEF CoreInv, LockHeld
  <2>3. req[g].key # key
    BY <2>2
  <2> QED
    BY <1>1, <1>2, <2>1, <2>2, <2>3
<1> QED
  BY <1>6, <1>7, <1>11, <1>12 DEF CoreInv

\* An entry whose old value is the last new value continues a chain.
LEMMA ChainAppend ==
  ASSUME NEW s \in Seq(Entries), Len(s) # 0, Chained(s),
         NEW e \in Entries, e.old = s[Len(s)].new
  PROVE  Chained(Append(s, e))
<1>1. /\ Len(s) \in Nat \ {0}
      /\ Len(Append(s, e)) = Len(s) + 1
      /\ Append(s, e)[Len(s) + 1] = e
      /\ \A i \in 1..Len(s) : Append(s, e)[i] = s[i]
  BY AppendTyped, LenProperties
<1>2. Append(s, e)[1].old = NoValue
  BY <1>1 DEF Chained
<1>3. ASSUME NEW i \in 2..(Len(s) + 1)
      PROVE  Append(s, e)[i].old = Append(s, e)[i - 1].new
  <2>1. CASE i = Len(s) + 1
    BY <1>1, <2>1
  <2>2. CASE i \in 2..Len(s)
    <3>1. s[i].old = s[i - 1].new
      BY <2>2 DEF Chained
    <3>2. i \in 1..Len(s) /\ i - 1 \in 1..Len(s)
      BY <1>1, <2>2
    <3> QED
      BY <1>1, <3>1, <3>2
  <2> QED
    BY <1>1, <2>1, <2>2
<1> QED
  BY <1>1, <1>2, <1>3 DEF Chained

\* The update extends the history of the very row it read.
LEMMA CommitCore ==
  ASSUME CoreInv, Shape', NEW h \in Handlers, CommitUpdate(h)
  PROVE  CoreInv'
<1> DEFINE key == req[h].key
           read == table[key]
           row == [id |-> read.id, value |-> req[h].val, version |-> read.version + 1]
           old == history[read.id]
           entry == [old |-> read.value, new |-> req[h].val]
           longer == Append(old, entry)
<1>1. /\ key \in Keys /\ req[h].val \in Values /\ req[h].row = read
      /\ read # NoRow /\ rowLock[key] = h
      /\ table \in [Keys -> Rows \cup {NoRow}]
      /\ history \in Seq(Seq(Entries))
      /\ rowLock \in [Keys -> Handlers \cup {NoHandler}]
  BY DEF CoreInv, Shape, TypeOK, Holds, CommitUpdate, LockHeld
<1>2. /\ table' = [table EXCEPT ![key] = row]
      /\ history' = [history EXCEPT ![read.id] = longer]
      /\ rowLock' = [rowLock EXCEPT ![key] = NoHandler]
      /\ GoWith(h, "refresh", row)
      /\ UNCHANGED cache
  BY <1>1 DEF CommitUpdate, cacheVars
<1>3. read \in Rows /\ row \in Rows /\ read.id \in 1..Len(history)
  BY <1>1 DEF Rows, CoreInv, IdsInOrder
<1>4. /\ old \in Seq(Entries)
      /\ Len(old) = read.version
      /\ old[Len(old)].new = read.value
      /\ Chained(old)
  BY <1>1, <1>3 DEF CoreInv, HistoryMatchesTable
<1>5. entry \in Entries /\ entry.old = read.value /\ entry.new = req[h].val
  BY <1>1, <1>3 DEF Rows, Entries
<1>6. /\ longer \in Seq(Entries)
      /\ Len(longer) = Len(old) + 1
      /\ longer[Len(old) + 1] = entry
      /\ \A i \in 1..Len(old) : longer[i] = old[i]
      /\ Chained(longer)
  <2> HIDE DEF old, entry
  <2>1. Len(old) # 0 /\ entry.old = old[Len(old)].new
    BY <1>3, <1>4, <1>5 DEF Rows
  <2> QED
    BY <1>4, <1>5, <2>1, AppendTyped, ChainAppend
<1>7. /\ Len(history') = Len(history)
      /\ history'[read.id] = longer
      /\ \A i \in 1..Len(history) : i # read.id => history'[i] = history[i]
  <2> HIDE DEF longer, read
  <2> QED
    BY <1>1, <1>2, <1>3, <1>6, ExceptSeq
<1>row. /\ row.id = read.id /\ row.value = req[h].val /\ row.version = Len(longer)
       /\ read.id \in Nat /\ Len(old) \in Nat /\ Len(history) \in Nat
       /\ table'[key] = row /\ \A j \in Keys \ {key} : table'[j] = table[j]
  <2>1. row.id = read.id /\ row.value = req[h].val /\ row.version = read.version + 1
    OBVIOUS
  <2>2. read.id \in Nat /\ Len(old) \in Nat /\ Len(history) \in Nat
    BY <1>1, <1>3, <1>4 DEF Rows
  <2>3. table'[key] = row /\ \A j \in Keys \ {key} : table'[j] = table[j]
    BY <1>1, <1>2
  <2> HIDE DEF row, longer, read, old
  <2> QED
    BY <1>4, <1>6, <2>1, <2>2, <2>3
<1>8. \A k \in Keys : table[k] # NoRow =>
        /\ table[k].id \in 1..Len(history) /\ table[k] \in Rows
        /\ k # key => table[k].id # read.id
  BY <1>1 DEF CoreInv, IdsInOrder, Rows
<1>9. IdsInOrder'
  BY <1>1, <1>2, <1>3, <1>7, <1>8 DEF CoreInv, IdsInOrder
<1>10. HistoryMatchesTable'
  <2> SUFFICES ASSUME NEW k \in Keys, table'[k] # NoRow
               PROVE  LET hs == history'[table'[k].id] IN
                      /\ Len(hs) = table'[k].version
                      /\ hs[Len(hs)].new = table'[k].value
                      /\ Chained(hs)
    BY DEF HistoryMatchesTable
  <2>1. CASE k = key
    <3> HIDE DEF row, read, old, longer, entry
    <3> QED
      BY <1>5, <1>6, <1>7, <1>row, <2>1
  <2>2. CASE k # key
    <3>1. table'[k] = table[k] /\ history'[table[k].id] = history[table[k].id]
      BY <1>1, <1>2, <1>7, <1>8, <2>2
    <3> QED
      BY <3>1 DEF CoreInv, HistoryMatchesTable
  <2> QED
    BY <2>1, <2>2
<1>11. ASSUME NEW k \in Keys, NEW r \in Rows, KnownIn(table, history, k, r)
       PROVE  KnownIn(table', history', k, r)
  <2> SUFFICES ASSUME r # NoRow PROVE KnownIn(table', history', k, r)
    BY DEF KnownIn
  <2>1. r.id \in 1..Len(history) /\ r.version \in Nat \ {0}
    BY <1>11 DEF KnownIn, Rows
  <2>2. ASSUME NEW j \in Keys \ {k}, table'[j] # NoRow PROVE table'[j].id # r.id
    BY <1>1, <1>2, <1>11, <2>2 DEF KnownIn
  <2>3. ASSUME table'[k] # NoRow, table'[k].id = r.id
        PROVE  r.version <= table'[k].version /\ history'[r.id][r.version].new = r.value
    <3>1. table[k] # NoRow /\ table[k].id = r.id
      BY <1>1, <1>2, <2>3
    <3>2. r.version <= table[k].version /\ history[r.id][r.version].new = r.value
      BY <1>11, <3>1 DEF KnownIn
    <3>3. CASE k = key
      <4>1. r.id = read.id /\ r.version \in 1..Len(old) /\ old[r.version].new = r.value
        <5>1. r.id = read.id /\ r.version <= read.version /\ old[r.version].new = r.value
          BY <3>1, <3>2, <3>3
        <5> HIDE DEF row, read, old, longer, entry
        <5>2. PICK n \in Nat : n = read.version /\ n = Len(old)
          BY <1>3, <1>4 DEF Rows
        <5>3. PICK i \in Nat : i = r.version /\ i # 0
          BY <2>1
        <5>4. i \in 1..n
          BY <5>1, <5>2, <5>3
        <5> QED
          BY <5>1, <5>2, <5>3, <5>4
      <4> HIDE DEF row, read, old, longer, entry
      <4> QED
        BY <1>6, <1>7, <1>row, <3>3, <4>1
    <3>4. CASE k # key
      BY <1>1, <1>2, <1>7, <1>8, <2>1, <3>1, <3>2, <3>4
    <3> QED
      BY <3>3, <3>4
  <2> HIDE DEF row, read, old, longer, entry
  <2> QED
    BY <1>7, <1>row, <2>1, <2>2, <2>3 DEF KnownIn
<1>12. KnownIn(table', history', key, row)
  <2> HIDE DEF row, read, old, longer, entry
  <2>1. row.id <= Len(history') /\ row.version <= row.version
    BY <1>3, <1>6, <1>7, <1>row
  <2>2. history'[row.id][row.version].new = row.value
    BY <1>5, <1>6, <1>7, <1>row
  <2> QED
    BY <1>8, <1>row, <2>1, <2>2 DEF KnownIn
<1>13. req' = [req EXCEPT ![h].pc = req'[h].pc, ![h].row = row]
  BY <1>2 DEF GoWith, CoreInv, Shape, TypeOK, Requests
<1>14. CopiesKnown'
  BY <1>1, <1>2, <1>3, <1>11, <1>12, <1>13, CopiesAfterWrite
<1>15. LockHeld'
  <2> SUFFICES ASSUME NEW g \in Handlers, req'[g].pc = "commit"
               PROVE  /\ rowLock'[req'[g].key] = g
                      /\ table'[req'[g].key] = req'[g].row
                      /\ req'[g].row # NoRow
    BY DEF LockHeld
  <2>1. g # h /\ req'[g] = req[g]
    BY <1>2 DEF GoWith, CoreInv, Shape, TypeOK, Requests
  <2>2. /\ rowLock[req[g].key] = g
        /\ table[req[g].key] = req[g].row
        /\ req[g].row # NoRow
    BY <2>1 DEF CoreInv, LockHeld
  <2>3. req[g].key # key
    BY <1>1, <2>1, <2>2
  <2> QED
    BY <1>1, <1>2, <2>1, <2>2, <2>3
<1> QED
  BY <1>9, <1>10, <1>14, <1>15 DEF CoreInv

\* The delete empties the history of a row no other key shares.
LEMMA DeleteCore ==
  ASSUME CoreInv, Shape', NEW h \in Handlers, DeleteRow(h), table[req[h].key] # NoRow
  PROVE  CoreInv'
<1> DEFINE key == req[h].key
           gone == table[key]
<1>1. /\ key \in Keys /\ gone \in Rows /\ rowLock[key] = NoHandler /\ req[h].pc = "delete"
      /\ table \in [Keys -> Rows \cup {NoRow}]
      /\ history \in Seq(Seq(Entries))
  BY DEF CoreInv, Shape, TypeOK, Holds, DeleteRow
<1>2. /\ table' = [table EXCEPT ![key] = NoRow]
      /\ history' = [history EXCEPT ![gone.id] = <<>>]
      /\ GoWith(h, "cache_delete", gone)
      /\ UNCHANGED <<cache, rowLock>>
  BY DEF DeleteRow, cacheVars
<1>3. gone.id \in 1..Len(history) /\ <<>> \in Seq(Entries)
  BY <1>1 DEF Rows, CoreInv, IdsInOrder
<1>4. /\ Len(history') = Len(history)
      /\ \A i \in 1..Len(history) : i # gone.id => history'[i] = history[i]
  <2> HIDE DEF gone
  <2> QED
    BY <1>1, <1>2, <1>3, ExceptSeq
<1>5. \A k \in Keys : table[k] # NoRow =>
        /\ table[k].id \in 1..Len(history) /\ table[k] \in Rows
        /\ k # key => table[k].id # gone.id
  BY <1>1 DEF CoreInv, IdsInOrder, Rows
<1>6. table'[key] = NoRow /\ \A k \in Keys \ {key} : table'[k] = table[k]
  BY <1>1, <1>2
<1>7. IdsInOrder'
  BY <1>4, <1>5, <1>6 DEF CoreInv, IdsInOrder
<1>8. HistoryMatchesTable'
  BY <1>4, <1>5, <1>6 DEF CoreInv, HistoryMatchesTable
<1>9. ASSUME NEW k \in Keys, NEW r \in Rows, KnownIn(table, history, k, r)
      PROVE  KnownIn(table', history', k, r)
  BY <1>4, <1>5, <1>6, <1>9 DEF KnownIn
<1>10. KnownIn(table', history', key, gone)
  BY <1>1, <1>4, <1>5, <1>6 DEF KnownIn
<1>11. req' = [req EXCEPT ![h].pc = req'[h].pc, ![h].row = gone]
  BY <1>2 DEF GoWith, CoreInv, Shape, TypeOK, Requests
<1>12. CopiesKnown'
  BY <1>1, <1>2, <1>9, <1>10, <1>11, CopiesAfterWrite
<1>13. LockHeld'
  <2> SUFFICES ASSUME NEW g \in Handlers, req'[g].pc = "commit"
               PROVE  /\ rowLock'[req'[g].key] = g
                      /\ table'[req'[g].key] = req'[g].row
                      /\ req'[g].row # NoRow
    BY DEF LockHeld
  <2>1. g # h /\ req'[g] = req[g]
    BY <1>2 DEF GoWith, CoreInv, Shape, TypeOK, Requests
  <2>2. /\ rowLock[req[g].key] = g
        /\ table[req[g].key] = req[g].row
        /\ req[g].row # NoRow
        /\ req[g].key \in Keys
    BY <2>1 DEF CoreInv, LockHeld, Shape, Holds
  <2> QED
    BY <1>1, <1>2, <1>6, <2>1, <2>2, SentinelAssumption
<1> QED
  BY <1>7, <1>8, <1>12, <1>13 DEF CoreInv

\* A handler that moves to a point other than "commit" takes no lock away.
LEMMA LockKept ==
  ASSUME CoreInv, NEW h \in Handlers, NEW new,
         req' = [req EXCEPT ![h] = new], new.pc # "commit",
         UNCHANGED table,
         \A k \in Keys : rowLock[k] # h => rowLock'[k] = rowLock[k]
  PROVE  LockHeld'
<1> SUFFICES ASSUME NEW g \in Handlers, req'[g].pc = "commit"
             PROVE  /\ rowLock'[req'[g].key] = g
                    /\ table'[req'[g].key] = req'[g].row
                    /\ req'[g].row # NoRow
  BY DEF LockHeld
<1>1. req \in [Handlers -> Requests]
  BY DEF CoreInv, Shape, TypeOK
<1>2. g # h /\ req'[g] = req[g]
  BY <1>1
<1>3. req[g].key \in Keys /\ rowLock[req[g].key] = g /\ table[req[g].key] = req[g].row /\ req[g].row # NoRow
  BY <1>2 DEF CoreInv, LockHeld, Shape, Holds
<1> QED
  BY <1>2, <1>3

\* A handler's step that writes nothing to the database and takes no row lock.
LEMMA QuietHandler ==
  ASSUME CoreInv, Shape', NEW h \in Handlers, NEW new,
         req' = [req EXCEPT ![h] = new], new.pc # "commit",
         UNCHANGED <<table, history>>,
         \A k \in Keys : rowLock[k] # h => rowLock'[k] = rowLock[k],
         \/ new.row = NoRow
         \/ /\ new.key = req[h].key
            /\ \/ new.row = req[h].row
               \/ req[h].key \in Keys /\ new.row \in {cache[req[h].key], table[req[h].key]},
         \A k \in Keys :
           cache'[k] \in {cache[k], NoRow} \/ (req[h].key = k /\ cache'[k] = req[h].row)
  PROVE  CoreInv'
<1>1. LockHeld'
  BY LockKept
<1>2. req \in [Handlers -> Requests]
  BY DEF CoreInv, Shape, TypeOK
<1>3. CopiesMoved
  BY <1>2 DEF CopiesMoved
<1> QED
  BY <1>1, <1>3, QuietStep

\* The same for a handler that returns,
LEMMA QuietReturn ==
  ASSUME CoreInv, Shape', NEW h \in Handlers, Return(h), UNCHANGED <<table, history>>,
         \A k \in Keys : rowLock[k] # h => rowLock'[k] = rowLock[k],
         \A k \in Keys :
           cache'[k] \in {cache[k], NoRow} \/ (req[h].key = k /\ cache'[k] = req[h].row)
  PROVE  CoreInv'
<1>1. /\ req' = [req EXCEPT ![h] = IdleReq]
      /\ IdleReq.pc # "commit" /\ IdleReq.row = NoRow
  BY DEF Return, IdleReq
<1> QED
  BY <1>1, QuietHandler

\* for one that moves on with the row it had,
LEMMA QuietGo ==
  ASSUME CoreInv, Shape', NEW h \in Handlers, NEW point, Go(h, point), point # "commit",
         UNCHANGED <<table, history, rowLock>>,
         \A k \in Keys :
           cache'[k] \in {cache[k], NoRow} \/ (req[h].key = k /\ cache'[k] = req[h].row)
  PROVE  CoreInv'
<1> DEFINE new == [req[h] EXCEPT !.pc = point]
<1>1. req[h] \in Requests /\ req \in [Handlers -> Requests]
  BY DEF CoreInv, Shape, TypeOK
<1>2. /\ req' = [req EXCEPT ![h] = new]
      /\ new.pc # "commit" /\ new.key = req[h].key /\ new.row = req[h].row
  BY <1>1 DEF Go, Requests
<1> HIDE DEF new
<1> QED
  BY <1>2, QuietHandler

\* and for one that moves on with the row it has just read.
LEMMA QuietGoWith ==
  ASSUME CoreInv, Shape', NEW h \in Handlers, NEW point, NEW row, GoWith(h, point, row),
         point # "commit", req[h].key \in Keys,
         row \in {NoRow, req[h].row, cache[req[h].key], table[req[h].key]},
         UNCHANGED <<table, history, rowLock>>,
         \A k \in Keys :
           cache'[k] \in {cache[k], NoRow} \/ (req[h].key = k /\ cache'[k] = req[h].row)
  PROVE  CoreInv'
<1> DEFINE new == [req[h] EXCEPT !.pc = point, !.row = row]
<1>1. req[h] \in Requests /\ req \in [Handlers -> Requests]
  BY DEF CoreInv, Shape, TypeOK
<1>2. /\ req' = [req EXCEPT ![h] = new]
      /\ new.pc # "commit" /\ new.key = req[h].key /\ new.row = row
  BY <1>1 DEF GoWith, Requests
<1> HIDE DEF new
<1> QED
  BY <1>2, QuietHandler

\* Every action keeps the inductive invariant.
LEMMA CoreStep == CoreInv /\ [Next]_vars => CoreInv'
<1> SUFFICES ASSUME CoreInv, [Next]_vars PROVE CoreInv'
  OBVIOUS
<1>0. Shape /\ Shape'
  BY ShapeStep DEF CoreInv
<1> USE DEF dbVars, cacheVars
<1>1. ASSUME NEW h \in Handlers, NEW k \in Keys, NEW op, StartRead(h, op, k)
      PROVE  CoreInv'
  <2> DEFINE new == [IdleReq EXCEPT !.pc = "cache_get", !.op = op, !.key = k]
  <2>1. new.pc # "commit" /\ new.row = NoRow
    BY DEF IdleReq
  <2> HIDE DEF new
  <2> QED
    BY <1>0, <1>1, <2>1, QuietHandler DEF StartRead, new
<1>2. ASSUME NEW h \in Handlers, NEW k \in Keys, NEW op \in EventTypes, NEW v,
             StartWrite(h, op, k, v)
      PROVE  CoreInv'
  <2> DEFINE new == [pc |-> WritePoint(op), op |-> op, key |-> k, val |-> v, row |-> NoRow]
  <2>1. new.pc # "commit" /\ new.row = NoRow
    BY DEF WritePoint, EventTypes
  <2> HIDE DEF new
  <2> QED
    BY <1>0, <1>2, <2>1, QuietHandler DEF StartWrite, new
<1>3. ASSUME NEW h \in Handlers, CacheGet(h)
      PROVE  CoreInv'
  <2>1. req[h].key \in Keys
    BY <1>0, <1>3 DEF CacheGet, Shape, Holds
  <2>2. CASE Return(h)
    BY <1>0, <1>3, <2>2, QuietReturn DEF CacheGet
  <2>3. CASE Go(h, "db_get")
    BY <1>0, <1>3, <2>3, QuietGo DEF CacheGet
  <2>4. CASE GoWith(h, "history", cache[req[h].key])
    BY <1>0, <1>3, <2>1, <2>4, QuietGoWith DEF CacheGet
  <2> QED
    BY <1>3, <2>2, <2>3, <2>4 DEF CacheGet, Answer
<1>4. ASSUME NEW h \in Handlers, DbGet(h)
      PROVE  CoreInv'
  <2>1. req[h].key \in Keys
    BY <1>0, <1>4 DEF DbGet, Shape, Holds
  <2>2. CASE Return(h)
    BY <1>0, <1>4, <2>2, QuietReturn DEF DbGet
  <2>3. CASE GoWith(h, "cache_set", table[req[h].key])
    BY <1>0, <1>4, <2>1, <2>3, QuietGoWith DEF DbGet
  <2> QED
    BY <1>4, <2>2, <2>3 DEF DbGet
<1>5. ASSUME NEW h \in Handlers, CacheSet(h)
      PROVE  CoreInv'
  <2>1. /\ req[h].key \in Keys
        /\ \A k \in Keys : cache'[k] = cache[k] \/ (req[h].key = k /\ cache'[k] = req[h].row)
    BY <1>0, <1>5 DEF CacheSet, Shape, Holds, TypeOK
  <2>2. CASE Return(h)
    BY <1>0, <1>5, <2>1, <2>2, QuietReturn DEF CacheSet
  <2>3. CASE GoWith(h, "history", req[h].row)
    BY <1>0, <1>5, <2>1, <2>3, QuietGoWith DEF CacheSet
  <2> QED
    BY <1>5, <2>2, <2>3 DEF CacheSet, Answer
<1>6. ASSUME NEW h \in Handlers, HistoryGet(h)
      PROVE  CoreInv'
  BY <1>0, <1>6, QuietReturn DEF HistoryGet
<1>7. ASSUME NEW h \in Handlers, Insert(h)
      PROVE  CoreInv'
  <2>1. CASE table[req[h].key] # NoRow
    BY <1>0, <1>7, <2>1, QuietReturn DEF Insert
  <2> QED
    BY <1>0, <1>7, <2>1, InsertCore
<1>8. ASSUME NEW h \in Handlers, LockRow(h)
      PROVE  CoreInv'
  <2>1. CASE table[req[h].key] = NoRow
    BY <1>0, <1>8, <2>1, QuietReturn DEF LockRow
  <2>2. CASE table[req[h].key] # NoRow
    <3> DEFINE key == req[h].key
               new == [req[h] EXCEPT !.pc = "commit", !.row = table[key]]
    <3>1. /\ key \in Keys /\ rowLock[key] = NoHandler
          /\ req \in [Handlers -> Requests] /\ req[h] \in Requests
          /\ rowLock \in [Keys -> Handlers \cup {NoHandler}]
          /\ rowLock' = [rowLock EXCEPT ![key] = h]
          /\ GoWith(h, "commit", table[key])
          /\ UNCHANGED <<table, history, cache>>
      BY <1>0, <1>8, <2>2 DEF LockRow, Shape, Holds, TypeOK
    <3>2. /\ req' = [req EXCEPT ![h] = new]
          /\ new.key = key /\ new.row = table[key]
      BY <3>1 DEF GoWith, Requests
    <3>3. LockHeld'
      <4> SUFFICES ASSUME NEW g \in Handlers, req'[g].pc = "commit"
                   PROVE  /\ rowLock'[req'[g].key] = g
                          /\ table'[req'[g].key] = req'[g].row
                          /\ req'[g].row # NoRow
        BY DEF LockHeld
      <4>1. CASE g = h
        <5> HIDE DEF new, key
        <5> QED
          BY <2>2, <3>1, <3>2, <4>1 DEF key
      <4>2. CASE g # h
        <5>1. req'[g] = req[g]
          BY <3>1, <3>2, <4>2
        <5>2. /\ rowLock[req[g].key] = g /\ table[req[g].key] = req[g].row
              /\ req[g].row # NoRow /\ req[g].key \in Keys
          BY <1>0, <5>1 DEF CoreInv, LockHeld, Shape, Holds
        <5> QED
          BY <3>1, <5>1, <5>2, SentinelAssumption
      <4> QED
        BY <4>1, <4>2
    <3>4. CopiesMoved
      BY <3>1, <3>2 DEF CopiesMoved
    <3> QED
      BY <1>0, <3>1, <3>3, <3>4, QuietStep
  <2> QED
    BY <2>1, <2>2
<1>9. ASSUME NEW h \in Handlers, CommitUpdate(h)
      PROVE  CoreInv'
  BY <1>0, <1>9, CommitCore
<1>10. ASSUME NEW h \in Handlers, DeleteRow(h)
       PROVE  CoreInv'
  <2>1. CASE table[req[h].key] = NoRow
    <3>1. req[h].key \in Keys
      BY <1>0, <1>10 DEF DeleteRow, Shape, Holds
    <3> QED
      BY <1>0, <1>10, <2>1, <3>1, QuietGoWith DEF DeleteRow
  <2> QED
    BY <1>0, <1>10, <2>1, DeleteCore
<1>11. ASSUME NEW h \in Handlers, Refresh(h)
       PROVE  CoreInv'
  <2>1. req[h].key \in Keys
    BY <1>0, <1>11 DEF Refresh, Shape, Holds
  <2>2. CASE Return(h)
    BY <1>0, <1>11, <2>2, QuietReturn DEF Refresh
  <2>3. CASE GoWith(h, "cache_delete", table[req[h].key])
    BY <1>0, <1>11, <2>1, <2>3, QuietGoWith DEF Refresh
  <2> QED
    BY <1>11, <2>2, <2>3 DEF Refresh
<1>12. ASSUME NEW h \in Handlers, CacheDelete(h)
       PROVE  CoreInv'
  <2>1. \A k \in Keys : cache'[k] \in {cache[k], NoRow}
    BY <1>0, <1>12 DEF CacheDelete, Shape, TypeOK
  <2>2. CASE Return(h)
    BY <1>0, <1>12, <2>1, <2>2, QuietReturn DEF CacheDelete
  <2>3. CASE Go(h, "publish")
    BY <1>0, <1>12, <2>1, <2>3, QuietGo DEF CacheDelete
  <2> QED
    BY <1>12, <2>2, <2>3 DEF CacheDelete
<1>13. ASSUME NEW h \in Handlers, Publish(h)
       PROVE  CoreInv'
  BY <1>0, <1>13, QuietReturn DEF Publish
<1>14. ASSUME NEW h \in Handlers, Fail(h)
       PROVE  CoreInv'
  BY <1>0, <1>14, QuietReturn DEF Fail
<1>15. ASSUME NEW k \in Keys, Expire(k)
       PROVE  CoreInv'
  <2>1. CopiesMoved
    BY <1>0, <1>15 DEF Expire, CopiesMoved, Shape, TypeOK
  <2>2. LockHeld'
    BY <1>15 DEF Expire, CoreInv, LockHeld
  <2> QED
    BY <1>0, <1>15, <2>1, <2>2, QuietStep DEF Expire
<1>16. CASE UNCHANGED vars
  <2>1. CopiesMoved /\ LockHeld'
    BY <1>16 DEF vars, CopiesMoved, CoreInv, LockHeld
  <2> QED
    BY <1>0, <1>16, <2>1, QuietStep DEF vars
<1> QED
  BY <1>1, <1>2, <1>3, <1>4, <1>5, <1>6, <1>7, <1>8, <1>9, <1>10, <1>11, <1>12,
     <1>13, <1>14, <1>15, <1>16 DEF Next, Step, EventTypes

\* The inductive invariant holds throughout.
LEMMA CoreInvariant == Spec => []CoreInv
  BY CoreInit, CoreStep, PTL DEF Spec

\* Every row in the table has its complete history, each update of it chained
\* to the one before, whatever handlers raced, failed or were restarted.
THEOREM HistoryComplete == Spec => []HistoryMatchesTable
<1>1. CoreInv => HistoryMatchesTable
  BY DEF CoreInv
<1> QED
  BY <1>1, CoreInvariant, PTL

\* Redis and the handlers only ever hold past versions of the key's own rows.
THEOREM CopiesAreGenuine == Spec => []CopiesArePastVersions
<1>1. CoreInv => CopiesArePastVersions
  BY DEF CoreInv, CopiesKnown, KnownIn, CopiesArePastVersions, PastVersion
<1> QED
  BY <1>1, CoreInvariant, PTL
-----------------------------------------------------------------------------
\* A step that leaves the table and the number of rows ever created alone is
\* invisible to the versioned store.
LEMMA StoreStutter == UNCHANGED <<table, history>> => UNCHANGED Store!storeVars
  BY DEF Store!storeVars

\* An update is one step of the store although it reads and writes in two:
\* the row it computed the new one from is still in the table.
LEMMA UpdateStep ==
  ASSUME CoreInv, NEW h \in Handlers, CommitUpdate(h)
  PROVE  Store!Update(req[h].key, req[h].val)
<1>1. req[h].pc = "commit"
  BY DEF CommitUpdate
<1>2. table[req[h].key] = req[h].row /\ req[h].row # NoRow
  BY <1>1 DEF CoreInv, LockHeld
<1>3. Len(history') = Len(history)
  BY DEF CommitUpdate, CoreInv, Shape, TypeOK
<1> QED
  BY <1>2, <1>3 DEF CommitUpdate, Store!Update

\* Every step of the service maps to a step of the store or to a stutter.
LEMMA StoreStep == CoreInv /\ [Next]_vars => [Store!Next]_(Store!storeVars)
<1> SUFFICES ASSUME CoreInv, [Next]_vars
             PROVE  Store!Next \/ UNCHANGED Store!storeVars
  OBVIOUS
<1>0. Shape
  BY DEF CoreInv
<1>1. ASSUME NEW h \in Handlers, Insert(h)
      PROVE  Store!Next \/ UNCHANGED Store!storeVars
  <2>1. req[h].key \in Keys /\ req[h].val \in Values
    BY <1>0, <1>1 DEF Insert, Shape, Holds
  <2>2. CASE table[req[h].key] # NoRow
    BY <1>1, <2>2, StoreStutter DEF Insert
  <2>3. CASE table[req[h].key] = NoRow
    <3>1. Len(history') = Len(history) + 1
      BY <1>0, <1>1, <2>3, AppendProperties DEF Insert, Shape, TypeOK
    <3>2. Store!Create(req[h].key, req[h].val)
      BY <1>1, <2>3, <3>1 DEF Insert, Store!Create
    <3> QED
      BY <2>1, <3>2 DEF Store!Next
  <2> QED
    BY <2>2, <2>3
<1>2. ASSUME NEW h \in Handlers, CommitUpdate(h)
      PROVE  Store!Next \/ UNCHANGED Store!storeVars
  <2>1. req[h].key \in Keys /\ req[h].val \in Values
    BY <1>0, <1>2 DEF CommitUpdate, Shape, Holds
  <2> QED
    BY <1>2, <2>1, UpdateStep DEF Store!Next
<1>3. ASSUME NEW h \in Handlers, DeleteRow(h)
      PROVE  Store!Next \/ UNCHANGED Store!storeVars
  <2>1. req[h].key \in Keys
    BY <1>0, <1>3 DEF DeleteRow, Shape, Holds
  <2>2. CASE table[req[h].key] = NoRow
    BY <1>3, <2>2, StoreStutter DEF DeleteRow
  <2>3. CASE table[req[h].key] # NoRow
    <3>1. Len(history') = Len(history)
      BY <1>0, <1>3, <2>3 DEF DeleteRow, Shape, TypeOK
    <3>2. Store!Delete(req[h].key)
      BY <1>3, <2>3, <3>1 DEF DeleteRow, Store!Delete
    <3> QED
      BY <2>1, <3>2 DEF Store!Next
  <2> QED
    BY <2>2, <2>3
<1>4. ASSUME UNCHANGED <<table, history>>
      PROVE  Store!Next \/ UNCHANGED Store!storeVars
  BY <1>4, StoreStutter
<1>5. CASE UNCHANGED vars
  BY <1>4, <1>5 DEF vars, dbVars
<1>6. ASSUME NEW h \in Handlers, NEW k \in Keys, NEW op, NEW v,
             StartRead(h, op, k) \/ StartWrite(h, op, k, v)
      PROVE  Store!Next \/ UNCHANGED Store!storeVars
  BY <1>4, <1>6 DEF StartRead, StartWrite, dbVars
<1>7. ASSUME NEW h \in Handlers,
             \/ CacheGet(h) \/ DbGet(h) \/ CacheSet(h) \/ HistoryGet(h)
             \/ LockRow(h) \/ Refresh(h) \/ CacheDelete(h) \/ Publish(h) \/ Fail(h)
      PROVE  Store!Next \/ UNCHANGED Store!storeVars
  BY <1>4, <1>7
     DEF CacheGet, DbGet, CacheSet, HistoryGet, LockRow, Refresh, CacheDelete,
         Publish, Fail, dbVars
<1>8. ASSUME NEW k \in Keys, Expire(k)
      PROVE  Store!Next \/ UNCHANGED Store!storeVars
  BY <1>4, <1>8 DEF Expire, dbVars
<1> QED
  BY <1>1, <1>2, <1>3, <1>5, <1>6, <1>7, <1>8 DEF Next, Step

\* The configuration table seen through any interleaving of handlers, with
\* failures at any await, behaves as the versioned store: no update is lost,
\* no identifier is used twice and each change raises the version by one.
THEOREM Implementation == Spec => ImplementsStore
<1>1. Init => Store!Init
  BY DEF Init, Store!Init
<1> QED
  BY <1>1, StoreStep, CoreInvariant, PTL DEF Spec, ImplementsStore, Store!Spec
-----------------------------------------------------------------------------
\* A step that changes neither copy nor row of k keeps its staleness accounted
\* for, unless the writer that was to delete the entry leaves.
LEMMA StaleKept ==
  ASSUME StaleOnlyByRaceOrFailure, Shape, NEW h \in Handlers, NEW k \in Keys,
         Stale(k, cache[k])', table'[k] = table[k], cache'[k] = cache[k],
         excused[k] => excused'[k],
         \A g \in Handlers \ {h} : req'[g] = req[g],
         Invalidating(h, k) => Invalidating(h, k)' \/ excused'[k]
  PROVE  excused'[k] \/ \E g \in Handlers : Invalidating(g, k)'
<1>1. Stale(k, cache[k])
  BY DEF Stale
<1>2. CASE excused[k]
  BY <1>2
<1>3. ASSUME NEW g \in Handlers, Invalidating(g, k)
      PROVE  excused'[k] \/ \E x \in Handlers : Invalidating(x, k)'
  BY <1>3 DEF Invalidating
<1> QED
  BY <1>1, <1>2, <1>3 DEF StaleOnlyByRaceOrFailure

\* Every step keeps it: a commit is followed by its own writer's invalidation,
\* and a writer leaves only with the entry deleted or the loss recorded.
LEMMA StaleStep ==
  Shape /\ StaleOnlyByRaceOrFailure /\ [Next]_vars => StaleOnlyByRaceOrFailure'
<1> SUFFICES ASSUME Shape, StaleOnlyByRaceOrFailure, [Next]_vars,
                    NEW k \in Keys, Stale(k, cache[k])'
             PROVE  excused'[k] \/ \E g \in Handlers : Invalidating(g, k)'
  BY DEF StaleOnlyByRaceOrFailure
<1> DEFINE Accounted == excused'[k] \/ \E g \in Handlers : Invalidating(g, k)'
<1> USE DEF dbVars, cacheVars
<1>t. /\ req \in [Handlers -> Requests] /\ table \in [Keys -> Rows \cup {NoRow}]
      /\ cache \in [Keys -> Rows \cup {NoRow}] /\ excused \in [Keys -> BOOLEAN]
      /\ \A g \in Handlers : Holds(g)
  BY DEF Shape, TypeOK
<1>1. ASSUME NEW h \in Handlers, NEW j \in Keys, NEW op, NEW v,
             StartRead(h, op, j) \/ StartWrite(h, op, j, v)
      PROVE  Accounted
  BY <1>1, <1>t, StaleKept DEF StartRead, StartWrite, Invalidating
<1>2. ASSUME NEW h \in Handlers, CacheGet(h) \/ DbGet(h) \/ HistoryGet(h) \/ LockRow(h) \/ Publish(h)
      PROVE  Accounted
  BY <1>2, <1>t, StaleKept
     DEF CacheGet, DbGet, HistoryGet, LockRow, Publish, Invalidating, Return, Go, GoWith, Answer
<1>3. ASSUME NEW h \in Handlers, CacheSet(h)
      PROVE  Accounted
  <2>1. req[h].key \in Keys
    BY <1>3, <1>t DEF CacheSet, Holds
  <2>2. CASE req[h].key = k
    BY <1>3, <1>t, <2>1, <2>2 DEF CacheSet, Stale
  <2>3. CASE req[h].key # k
    BY <1>3, <1>t, <2>1, <2>3, StaleKept
       DEF CacheSet, Invalidating, Return, GoWith, Answer
  <2> QED
    BY <2>2, <2>3
<1>4. ASSUME NEW h \in Handlers, Insert(h) \/ CommitUpdate(h) \/ DeleteRow(h)
      PROVE  Accounted
  <2>1. req[h].key \in Keys /\ req[h].op \in EventTypes
    BY <1>4, <1>t DEF Insert, CommitUpdate, DeleteRow, Holds
  <2>2. /\ \A g \in Handlers \ {h} : req'[g] = req[g]
        /\ \A j \in Keys \ {req[h].key} : table'[j] = table[j]
        /\ UNCHANGED <<cache, excused>>
        /\ ~Invalidating(h, k)
    BY <1>4, <1>t, <2>1
       DEF Insert, CommitUpdate, DeleteRow, Invalidating, Return, GoWith
  <2>3. CASE req[h].key = k /\ table'[k] # table[k]
    <3>1. GoWith(h, "refresh", req'[h].row) \/ GoWith(h, "cache_delete", req'[h].row)
      BY <1>4, <1>t, <2>1, <2>3 DEF Insert, CommitUpdate, DeleteRow, GoWith, Requests
    <3>2. Invalidating(h, k)'
      BY <1>t, <2>1, <2>3, <3>1 DEF Invalidating, GoWith, Requests
    <3> QED
      BY <3>2
  <2>4. CASE table'[k] = table[k]
    BY <1>t, <2>2, <2>4, StaleKept
  <2> QED
    BY <2>2, <2>3, <2>4
<1>5. ASSUME NEW h \in Handlers, Refresh(h)
      PROVE  Accounted
  <2>1. req[h].key \in Keys /\ req[h].op \in EventTypes
    BY <1>5, <1>t DEF Refresh, Holds
  <2>2. Invalidating(h, k) => Invalidating(h, k)' \/ excused'[k]
    BY <1>5, <1>t, <2>1 DEF Refresh, Invalidating, GoWith, Requests
  <2>3. \A g \in Handlers \ {h} : req'[g] = req[g]
    BY <1>5, <1>t DEF Refresh, GoWith, Return
  <2> QED
    BY <1>5, <1>t, <2>1, <2>2, <2>3, StaleKept DEF Refresh
<1>6. ASSUME NEW h \in Handlers, CacheDelete(h)
      PROVE  Accounted
  <2>1. CASE req[h].key = k
    BY <1>6, <1>t, <2>1 DEF CacheDelete, Stale
  <2>2. CASE req[h].key # k
    BY <1>6, <1>t, <2>2, StaleKept DEF CacheDelete, Invalidating, Return, Go
  <2> QED
    BY <2>1, <2>2
<1>7. ASSUME NEW h \in Handlers, Fail(h)
      PROVE  Accounted
  <2>1. Invalidating(h, k) => excused'[k]
    BY <1>7, <1>t DEF Fail, Invalidating
  <2> QED
    BY <1>7, <1>t, <2>1, StaleKept DEF Fail, Return
<1>8. ASSUME NEW j \in Keys, Expire(j)
      PROVE  Accounted
  <2>1. j # k
    BY <1>8, <1>t DEF Expire, Stale
  <2>2. Stale(k, cache[k]) /\ excused'[k] = excused[k] /\ req' = req
    BY <1>8, <1>t, <2>1 DEF Expire, Stale
  <2> QED
    BY <2>2 DEF StaleOnlyByRaceOrFailure, Invalidating
<1>9. CASE UNCHANGED vars
  BY <1>9 DEF vars, StaleOnlyByRaceOrFailure, Stale, Invalidating
<1> QED
  BY <1>1, <1>2, <1>3, <1>4, <1>5, <1>6, <1>7, <1>8, <1>9 DEF Next, Step

\* Redis never disagrees with the table except while the writer responsible is
\* still on its way to the entry, or after one of the two recorded mishaps.
THEOREM StalenessAccounted == Spec => []StaleOnlyByRaceOrFailure
<1>1. Init => StaleOnlyByRaceOrFailure
  BY DEF Init, StaleOnlyByRaceOrFailure, Stale
<1>2. CoreInv => Shape
  BY DEF CoreInv
<1> QED
  BY <1>1, <1>2, StaleStep, CoreInvariant, PTL DEF Spec

-----------------------------------------------------------------------------
(***************************************************************************)
(* Events.  EventsFollowCommits is not inductive: an event is published    *)
(* some steps after its commit, so the handlers on their way are counted.  *)
(***************************************************************************)

\* The handlers that have committed a write of kind e to k and may still publish.
Owes(q, e, k) ==
  /\ q.op = e /\ q.key = k
  /\ q.pc \in {"refresh", "publish"} \/ (q.pc = "cache_delete" /\ q.row # NoRow)

Owing(e, k) == {h \in Handlers : Owes(req[h], e, k)}

\* Every commit is good for one event, published, owed or lost.
Accounted ==
  \A e \in EventTypes, k \in Keys :
    /\ IsFiniteSet(Owing(e, k))
    /\ topic[e][k] + Cardinality(Owing(e, k)) <= commits[e][k]

\* A handler is where its kind of write takes it.
Fits ==
  \A h \in Handlers :
    /\ req[h].pc = "insert" => req[h].op = "CREATED"
    /\ req[h].pc \in {"lock", "commit"} => req[h].op = "UPDATED"
    /\ req[h].pc = "delete" => req[h].op = "DELETED"

\* One handler's move changes the number of those that owe by one at most.
LEMMA OwingMoves ==
  ASSUME NEW h \in Handlers, NEW e, NEW k, IsFiniteSet(Owing(e, k)),
         \A g \in Handlers : g # h => req'[g] = req[g]
  PROVE  /\ IsFiniteSet(Owing(e, k)') /\ Cardinality(Owing(e, k)) \in Nat
         /\ Cardinality(Owing(e, k)') \in Nat
         /\ Cardinality(Owing(e, k)') <= Cardinality(Owing(e, k)) + 1
         /\ (Owes(req'[h], e, k) => Owes(req[h], e, k)) =>
              Cardinality(Owing(e, k)') <= Cardinality(Owing(e, k))
         /\ Owes(req[h], e, k) /\ ~ Owes(req'[h], e, k) =>
              Cardinality(Owing(e, k)') + 1 = Cardinality(Owing(e, k))
<1>1. PICK S, T : S = Owing(e, k) /\ T = Owing(e, k)'
  OBVIOUS
<1>2. /\ \A g \in Handlers : g # h => (g \in T <=> g \in S)
      /\ h \in S <=> Owes(req[h], e, k)
      /\ h \in T <=> Owes(req'[h], e, k)
      /\ S \subseteq Handlers /\ T \subseteq Handlers
  BY <1>1 DEF Owing, Owes
<1>3. IsFiniteSet(S) /\ Cardinality(S) \in Nat
  BY <1>1, FS_CardinalityType
<1>4. CASE h \in S <=> h \in T
  <2>1. T = S
    BY <1>2, <1>4
  <2> QED
    BY <1>1, <1>2, <1>3, <1>4, <2>1
<1>5. CASE h \in S /\ h \notin T
  <2>1. T = S \ {h}
    BY <1>2, <1>5
  <2>2. IsFiniteSet(T) /\ Cardinality(T) = Cardinality(S) - 1
    BY <1>3, <1>5, <2>1, FS_RemoveElement
  <2>3. Cardinality(T) \in Nat
    BY <2>2, FS_CardinalityType
  <2> QED
    BY <1>1, <1>2, <1>3, <1>5, <2>2, <2>3
<1>6. CASE h \notin S /\ h \in T
  <2>1. T = S \cup {h}
    BY <1>2, <1>6
  <2>2. IsFiniteSet(T) /\ Cardinality(T) = Cardinality(S) + 1
    BY <1>3, <1>6, <2>1, FS_AddElement
  <2> QED
    BY <1>1, <1>2, <1>3, <1>6, <2>2
<1> QED
  BY <1>4, <1>5, <1>6

\* A handler that moves on without a commit owes nothing new.
LEMMA AccountedQuiet ==
  ASSUME TypeOK, Accounted, NEW h \in Handlers, \A g \in Handlers : g # h => req'[g] = req[g],
         UNCHANGED <<topic, commits>>,
         \A e \in EventTypes, k \in Keys : Owes(req'[h], e, k) => Owes(req[h], e, k)
  PROVE  Accounted'
<1> SUFFICES ASSUME NEW e \in EventTypes, NEW k \in Keys
             PROVE  /\ IsFiniteSet(Owing(e, k)')
                    /\ topic[e][k] + Cardinality(Owing(e, k)') <= commits[e][k]
  BY DEF Accounted
<1>1. IsFiniteSet(Owing(e, k)) /\ topic[e][k] + Cardinality(Owing(e, k)) <= commits[e][k]
  BY DEF Accounted
<1>2. /\ IsFiniteSet(Owing(e, k)') /\ Cardinality(Owing(e, k)) \in Nat
      /\ Cardinality(Owing(e, k)') \in Nat
      /\ Cardinality(Owing(e, k)') <= Cardinality(Owing(e, k))
  BY <1>1, OwingMoves
<1>3. topic[e][k] \in Nat /\ commits[e][k] \in Nat
  BY DEF TypeOK
<1> QED
  BY <1>1, <1>2, <1>3

\* A commit pays for the event it makes a handler owe.
LEMMA AccountedCommit ==
  ASSUME TypeOK, Accounted, NEW h \in Handlers, \A g \in Handlers : g # h => req'[g] = req[g],
         topic' = topic, NEW op \in EventTypes, NEW key \in Keys, Committed(op, key),
         \A e \in EventTypes, k \in Keys : Owes(req'[h], e, k) => e = op /\ k = key
  PROVE  Accounted'
<1> SUFFICES ASSUME NEW e \in EventTypes, NEW k \in Keys
             PROVE  /\ IsFiniteSet(Owing(e, k)')
                    /\ topic[e][k] + Cardinality(Owing(e, k)') <= commits'[e][k]
  BY DEF Accounted
<1>1. IsFiniteSet(Owing(e, k)) /\ topic[e][k] + Cardinality(Owing(e, k)) <= commits[e][k]
  BY DEF Accounted
<1>2. /\ IsFiniteSet(Owing(e, k)') /\ Cardinality(Owing(e, k)) \in Nat
      /\ Cardinality(Owing(e, k)') \in Nat
      /\ Cardinality(Owing(e, k)') <= Cardinality(Owing(e, k)) + 1
      /\ (Owes(req'[h], e, k) => Owes(req[h], e, k)) =>
           Cardinality(Owing(e, k)') <= Cardinality(Owing(e, k))
  BY <1>1, OwingMoves
<1>3. topic[e][k] \in Nat /\ commits[e][k] \in Nat
  BY DEF TypeOK
<1>4. CASE e = op /\ k = key
  <2>1. commits'[e][k] = commits[e][k] + 1
    BY <1>4 DEF Committed, TypeOK
  <2> QED
    BY <1>1, <1>2, <1>3, <2>1
<1>5. CASE ~ (e = op /\ k = key)
  <2>1. commits'[e][k] = commits[e][k]
    BY <1>5 DEF Committed, TypeOK
  <2>2. ~ Owes(req'[h], e, k)
    BY <1>5
  <2> QED
    BY <1>1, <1>2, <1>3, <2>1, <2>2
<1> QED
  BY <1>4, <1>5

\* An event pays back what its handler owed.
LEMMA PublishAccounted ==
  ASSUME Shape, Accounted, NEW h \in Handlers, Publish(h)
  PROVE  Accounted'
<1>1. TypeOK /\ req[h].op \in EventTypes /\ req[h].key \in Keys /\ req[h].pc = "publish"
  BY DEF Shape, Holds, Publish
<1>2. PICK op \in EventTypes, key \in Keys : op = req[h].op /\ key = req[h].key
  BY <1>1
<1>3. req'[h].pc = "idle" /\ \A g \in Handlers : g # h => req'[g] = req[g]
  BY <1>1, IdleRequest DEF Publish, Return, TypeOK
<1>4. \A e, k : ~ Owes(req'[h], e, k)
  BY <1>3 DEF Owes
<1>5. CASE UNCHANGED topic
  <2>1. UNCHANGED <<topic, commits>>
    BY <1>5 DEF Publish
  <2> QED
    BY <1>1, <1>3, <1>4, <2>1, AccountedQuiet
<1>6. CASE topic' = [topic EXCEPT ![op][key] = @ + 1]
  <2> SUFFICES ASSUME NEW e \in EventTypes, NEW k \in Keys
               PROVE  /\ IsFiniteSet(Owing(e, k)')
                      /\ topic'[e][k] + Cardinality(Owing(e, k)') <= commits'[e][k]
    BY DEF Accounted
  <2>1. IsFiniteSet(Owing(e, k)) /\ topic[e][k] + Cardinality(Owing(e, k)) <= commits[e][k]
    BY DEF Accounted
  <2>2. /\ IsFiniteSet(Owing(e, k)') /\ Cardinality(Owing(e, k)) \in Nat
        /\ Cardinality(Owing(e, k)') \in Nat
        /\ Cardinality(Owing(e, k)') <= Cardinality(Owing(e, k))
        /\ Owes(req[h], e, k) => Cardinality(Owing(e, k)') + 1 = Cardinality(Owing(e, k))
    BY <1>3, <1>4, <2>1, OwingMoves
  <2>3. topic[e][k] \in Nat /\ commits[e][k] \in Nat /\ commits'[e][k] = commits[e][k]
    BY <1>1 DEF TypeOK, Publish
  <2>4. CASE e = op /\ k = key
    <3>1. topic'[e][k] = topic[e][k] + 1
      BY <1>1, <1>6, <2>4 DEF TypeOK
    <3>2. Owes(req[h], e, k)
      BY <1>1, <1>2, <2>4 DEF Owes
    <3> QED
      BY <2>1, <2>2, <2>3, <3>1, <3>2
  <2>5. CASE ~ (e = op /\ k = key)
    <3>1. topic'[e][k] = topic[e][k]
      BY <1>1, <1>6, <2>5 DEF TypeOK
    <3> QED
      BY <2>1, <2>2, <2>3, <3>1
  <2> QED
    BY <2>4, <2>5
<1> QED
  BY <1>2, <1>5, <1>6 DEF Publish

\* What a handler is after it has returned, or gone on.
LEMMA Arrives ==
  ASSUME TypeOK, NEW h \in Handlers, NEW point, NEW row
  PROVE  /\ Return(h) => /\ req'[h].pc = "idle"
                         /\ \A g \in Handlers : g # h => req'[g] = req[g]
         /\ Go(h, point) => /\ req'[h].pc = point /\ req'[h].op = req[h].op
                            /\ req'[h].key = req[h].key /\ req'[h].row = req[h].row
                            /\ \A g \in Handlers : g # h => req'[g] = req[g]
         /\ GoWith(h, point, row) =>
              /\ req'[h].pc = point /\ req'[h].op = req[h].op
              /\ req'[h].key = req[h].key /\ req'[h].row = row
              /\ \A g \in Handlers : g # h => req'[g] = req[g]
  BY IdleRequest DEF Return, Go, GoWith, TypeOK, Requests

\* Commits and events stay accounted for.
LEMMA AccountedStep == Shape /\ Fits /\ Accounted /\ [Next]_vars => Accounted'
<1> SUFFICES ASSUME Shape, Fits, Accounted, [Next]_vars PROVE Accounted'
  OBVIOUS
<1>0. TypeOK
  BY DEF Shape
<1>1. ASSUME NEW h \in Handlers, NEW k \in Keys, NEW op, StartRead(h, op, k) PROVE Accounted'
  <2>1. /\ req'[h].pc = "cache_get" /\ req'[h].row = NoRow
        /\ \A g \in Handlers : g # h => req'[g] = req[g]
    BY <1>0, <1>1 DEF StartRead, IdleReq, TypeOK
  <2>2. \A e, x : ~ Owes(req'[h], e, x)
    BY <2>1 DEF Owes
  <2> QED
    BY <1>0, <1>1, <2>1, <2>2, AccountedQuiet DEF StartRead
<1>2. ASSUME NEW h \in Handlers, NEW k \in Keys, NEW op \in EventTypes, NEW v,
             StartWrite(h, op, k, v)
      PROVE  Accounted'
  <2>1. /\ req'[h].pc \in {"insert", "lock", "delete"}
        /\ \A g \in Handlers : g # h => req'[g] = req[g]
    BY <1>0, <1>2 DEF StartWrite, WritePoint, EventTypes, TypeOK
  <2>2. \A e, x : ~ Owes(req'[h], e, x)
    BY <2>1 DEF Owes
  <2> QED
    BY <1>0, <1>2, <2>1, <2>2, AccountedQuiet DEF StartWrite
<1>3. ASSUME NEW h \in Handlers, CacheGet(h) \/ DbGet(h) \/ CacheSet(h) \/ HistoryGet(h)
      PROVE  Accounted'
  <2>1. /\ req'[h].pc \in {"idle", "db_get", "cache_set", "history"}
        /\ \A g \in Handlers : g # h => req'[g] = req[g]
    BY <1>0, <1>3, Arrives DEF CacheGet, DbGet, CacheSet, HistoryGet, Answer
  <2>2. \A e, x : ~ Owes(req'[h], e, x)
    BY <2>1 DEF Owes
  <2>3. UNCHANGED <<topic, commits>>
    BY <1>3 DEF CacheGet, DbGet, CacheSet, HistoryGet
  <2> QED
    BY <1>0, <2>1, <2>2, <2>3, AccountedQuiet
<1>4. ASSUME NEW h \in Handlers, Insert(h) PROVE Accounted'
  <2>1. CASE Return(h) /\ UNCHANGED commits
    <3>1. UNCHANGED <<topic, commits>>
      BY <1>4, <2>1 DEF Insert
    <3>2. \A e, x : ~ Owes(req'[h], e, x)
      BY <1>0, <2>1, Arrives DEF Owes
    <3> QED
      BY <1>0, <2>1, <3>1, <3>2, Arrives, AccountedQuiet
  <2>2. ASSUME NEW row, GoWith(h, "refresh", row), Committed("CREATED", req[h].key)
        PROVE  Accounted'
    <3>1. /\ req[h].key \in Keys /\ req[h].op = "CREATED" /\ topic' = topic
      BY <1>4 DEF Shape, Holds, Insert, Fits
    <3>2. PICK op \in EventTypes, key \in Keys : op = "CREATED" /\ key = req[h].key
      BY <3>1 DEF EventTypes
    <3>3. \A e, x : Owes(req'[h], e, x) => e = op /\ x = key
      BY <1>0, <2>2, <3>1, <3>2, Arrives DEF Owes
    <3>4. Committed(op, key) /\ \A g \in Handlers : g # h => req'[g] = req[g]
      BY <1>0, <2>2, <3>2, Arrives
    <3> QED
      BY <1>0, <3>1, <3>3, <3>4, AccountedCommit
  <2> QED
    BY <1>4, <2>1, <2>2 DEF Insert
<1>5. ASSUME NEW h \in Handlers, LockRow(h) PROVE Accounted'
  <2>1. /\ req'[h].pc \in {"idle", "commit"}
        /\ \A g \in Handlers : g # h => req'[g] = req[g]
    BY <1>0, <1>5, Arrives DEF LockRow
  <2>2. \A e, x : ~ Owes(req'[h], e, x)
    BY <2>1 DEF Owes
  <2>3. UNCHANGED <<topic, commits>>
    BY <1>5 DEF LockRow
  <2> QED
    BY <1>0, <2>1, <2>2, <2>3, AccountedQuiet
<1>6. ASSUME NEW h \in Handlers, CommitUpdate(h) PROVE Accounted'
  <2>1. PICK row : GoWith(h, "refresh", row)
    BY <1>6 DEF CommitUpdate
  <2>2. /\ req[h].key \in Keys /\ req[h].op = "UPDATED" /\ topic' = topic
        /\ Committed("UPDATED", req[h].key)
    BY <1>6 DEF Shape, Holds, CommitUpdate, Fits
  <2>3. PICK op \in EventTypes, key \in Keys : op = "UPDATED" /\ key = req[h].key
    BY <2>2 DEF EventTypes
  <2>4. \A e, x : Owes(req'[h], e, x) => e = op /\ x = key
    BY <1>0, <2>1, <2>2, <2>3, Arrives DEF Owes
  <2>5. Committed(op, key) /\ \A g \in Handlers : g # h => req'[g] = req[g]
    BY <1>0, <2>1, <2>2, <2>3, Arrives
  <2> QED
    BY <1>0, <2>2, <2>4, <2>5, AccountedCommit
<1>7. ASSUME NEW h \in Handlers, DeleteRow(h) PROVE Accounted'
  <2>1. /\ req[h].key \in Keys /\ req[h].op = "DELETED" /\ topic' = topic
    BY <1>7 DEF Shape, Holds, DeleteRow, Fits
  <2>2. PICK row : row = table[req[h].key] /\ GoWith(h, "cache_delete", row)
    BY <1>7 DEF DeleteRow
  <2>3. /\ req'[h].pc = "cache_delete" /\ req'[h].row = row /\ req'[h].op = "DELETED"
        /\ req'[h].key = req[h].key /\ \A g \in Handlers : g # h => req'[g] = req[g]
    BY <1>0, <2>1, <2>2, Arrives
  <2>4. CASE row = NoRow
    <3>1. UNCHANGED <<topic, commits>>
      BY <1>7, <2>1, <2>2, <2>4 DEF DeleteRow
    <3>2. \A e, x : ~ Owes(req'[h], e, x)
      BY <2>3, <2>4 DEF Owes
    <3> QED
      BY <1>0, <2>3, <3>1, <3>2, AccountedQuiet
  <2>5. CASE row # NoRow
    <3>1. PICK op \in EventTypes, key \in Keys : op = "DELETED" /\ key = req[h].key
      BY <2>1 DEF EventTypes
    <3>2. Committed(op, key)
      BY <1>7, <2>2, <2>5, <3>1 DEF DeleteRow
    <3>3. \A e, x : Owes(req'[h], e, x) => e = op /\ x = key
      BY <2>3, <3>1 DEF Owes
    <3> QED
      BY <1>0, <2>1, <2>3, <3>2, <3>3, AccountedCommit
  <2> QED
    BY <2>4, <2>5
<1>8. ASSUME NEW h \in Handlers, Refresh(h) \/ CacheDelete(h) PROVE Accounted'
  <2>1. /\ \A g \in Handlers : g # h => req'[g] = req[g]
        /\ \/ req'[h].pc = "idle"
           \/ /\ req[h].pc = "refresh" \/ (req[h].pc = "cache_delete" /\ req[h].row # NoRow)
              /\ req'[h].op = req[h].op /\ req'[h].key = req[h].key
    BY <1>0, <1>8, Arrives DEF Refresh, CacheDelete
  <2>2. \A e, x : Owes(req'[h], e, x) => Owes(req[h], e, x)
    BY <2>1 DEF Owes
  <2>3. UNCHANGED <<topic, commits>>
    BY <1>8 DEF Refresh, CacheDelete
  <2> QED
    BY <1>0, <2>1, <2>2, <2>3, AccountedQuiet
<1>9. ASSUME NEW h \in Handlers, Publish(h) PROVE Accounted'
  BY <1>9, PublishAccounted
<1>10. ASSUME NEW h \in Handlers, Fail(h) PROVE Accounted'
  <2>1. /\ \A g \in Handlers : g # h => req'[g] = req[g]
        /\ \A e, x : ~ Owes(req'[h], e, x)
    BY <1>0, <1>10, Arrives DEF Fail, Owes
  <2>2. UNCHANGED <<topic, commits>>
    BY <1>10 DEF Fail
  <2> QED
    BY <1>0, <2>1, <2>2, AccountedQuiet
<1>11. ASSUME UNCHANGED <<topic, commits, req>> PROVE Accounted'
  BY <1>11 DEF Accounted, Owing
<1>12. ASSUME NEW k \in Keys, Expire(k) PROVE Accounted'
  BY <1>11, <1>12 DEF Expire
<1>13. CASE UNCHANGED vars
  BY <1>11, <1>13 DEF vars
<1> QED
  BY <1>1, <1>2, <1>3, <1>4, <1>5, <1>6, <1>7, <1>8, <1>9, <1>10, <1>12, <1>13
     DEF Next, Step, EventTypes

\* Handlers stay where their kind of write takes them.
LEMMA FitsStep == Shape /\ Fits /\ [Next]_vars => Fits'
<1> SUFFICES ASSUME Shape, Fits, [Next]_vars PROVE Fits'
  OBVIOUS
<1>0. TypeOK
  BY DEF Shape
<1>1. ASSUME NEW h \in Handlers, NEW k \in Keys, NEW op, StartRead(h, op, k) PROVE Fits'
  <2>1. req'[h].pc = "cache_get" /\ \A g \in Handlers : g # h => req'[g] = req[g]
    BY <1>0, <1>1 DEF StartRead, IdleReq, TypeOK
  <2> QED
    BY <2>1 DEF Fits
<1>2. ASSUME NEW h \in Handlers, NEW k \in Keys, NEW op \in EventTypes, NEW v,
             StartWrite(h, op, k, v)
      PROVE  Fits'
  <2>1. /\ req'[h].pc = WritePoint(op) /\ req'[h].op = op
        /\ \A g \in Handlers : g # h => req'[g] = req[g]
    BY <1>0, <1>2 DEF StartWrite, TypeOK
  <2> QED
    BY <2>1 DEF Fits, WritePoint, EventTypes
<1>3. ASSUME NEW h \in Handlers, Step(h) \/ Fail(h) PROVE Fits'
  <2>1. /\ \A g \in Handlers : g # h => req'[g] = req[g]
        /\ \/ req'[h].pc \notin {"insert", "lock", "commit", "delete"}
           \/ req[h].pc = "lock" /\ req'[h].pc = "commit" /\ req'[h].op = req[h].op
    BY <1>0, <1>3, Arrives
       DEF Step, Fail, CacheGet, DbGet, CacheSet, HistoryGet, Answer, Insert, LockRow,
           CommitUpdate, DeleteRow, Refresh, CacheDelete, Publish
  <2> QED
    BY <2>1 DEF Fits
<1>4. ASSUME UNCHANGED req PROVE Fits'
  BY <1>4 DEF Fits
<1>5. ASSUME NEW k \in Keys, Expire(k) PROVE Fits'
  BY <1>4, <1>5 DEF Expire
<1>6. CASE UNCHANGED vars
  BY <1>4, <1>6 DEF vars
<1> QED
  BY <1>1, <1>2, <1>3, <1>5, <1>6 DEF Next, EventTypes

\* No event without its commit, for any number of handlers, keys and writes,
\* whatever fails: an event is published only by a handler that has committed.
THEOREM EventsAccounted == Spec => []EventsFollowCommits
<1>1. Init => Shape /\ Fits /\ Accounted
  <2> SUFFICES ASSUME Init PROVE Fits /\ Accounted
    BY ShapeInit
  <2>1. \A h \in Handlers : req[h].pc = "idle"
    BY DEF Init, IdleReq
  <2>2. Fits
    BY <2>1 DEF Fits
  <2>3. ASSUME NEW e \in EventTypes, NEW k \in Keys
        PROVE  /\ Owing(e, k) = {} /\ topic[e][k] = 0 /\ commits[e][k] = 0
    BY <2>1 DEF Owing, Owes, Init
  <2> QED
    BY <2>2, <2>3, FS_EmptySet DEF Accounted
<1>2. Shape /\ Fits /\ Accounted /\ [Next]_vars => (Shape /\ Fits /\ Accounted)'
  BY ShapeStep, FitsStep, AccountedStep
<1>3. Shape /\ Accounted => EventsFollowCommits
  <2> SUFFICES ASSUME Shape, Accounted, NEW e \in EventTypes, NEW k \in Keys
               PROVE  topic[e][k] <= commits[e][k]
    BY DEF EventsFollowCommits
  <2>1. IsFiniteSet(Owing(e, k)) /\ topic[e][k] + Cardinality(Owing(e, k)) <= commits[e][k]
    BY DEF Accounted
  <2>2. Cardinality(Owing(e, k)) \in Nat
    BY <2>1, FS_CardinalityType
  <2>3. topic[e][k] \in Nat /\ commits[e][k] \in Nat
    BY DEF Shape, TypeOK
  <2> QED
    BY <2>1, <2>2, <2>3
<1> QED
  BY <1>1, <1>2, <1>3, PTL DEF Spec
=============================================================================
