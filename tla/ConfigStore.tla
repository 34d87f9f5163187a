----------------------------- MODULE ConfigStore -----------------------------
(***************************************************************************)
(* The configuration half of config-service: ConfigurationService over a   *)
(* PostgreSQL table with its history, a Redis cache-aside copy of each row *)
(* and a Kafka topic.  A handler runs as a coroutine; every await (a       *)
(* query, a commit, a Redis command, a send) is a step of its own, so      *)
(* other handlers run between any two of them.                             *)
(***************************************************************************)
EXTENDS Naturals, Sequences

CONSTANTS
  Handlers,    \* requests that can be in flight together
  Keys,        \* (key, environment, service_name) triples
  Values,      \* configuration values
  Created,     \* bound: those among them that creates send
  NoRow,       \* absence of a row, of a cached row and of a row in hand
  NoValue,     \* old_value of the first history entry
  NoHandler,   \* the row lock is free
  MaxWrites    \* bound: create, update and delete requests in a behaviour

ASSUME MaxWritesAssumption == MaxWrites \in Nat
ASSUME SentinelAssumption ==
  /\ NoHandler \notin Handlers
  /\ NoValue \notin Values
  /\ NoRow \notin Keys
ASSUME CreatedAssumption == Created \subseteq Values

VARIABLES
  table,       \* table[k]: the committed row of the configurations table
  history,     \* history[id]: configuration_history entries of row id, oldest
               \* first; ids are given out in order, so Len(history) is the last
  rowLock,     \* rowLock[k]: the handler holding SELECT ... FOR UPDATE on k
  cache,       \* cache[k]: the row under config:{environment}:{service}:{key}
  expires,     \* expires[k]: the cache entry carries a time to live
  topic,       \* topic[e][k]: events of type e for k on the Kafka topic
  req,         \* req[h]: the handler's program counter and locals
  writes,      \* write requests started so far
  commits,     \* history variable: commits[e][k], committed writes of each kind
  excused      \* history variable: excused[k], the entry of k may be stale
               \* because a fill raced a commit or an invalidation was lost

dbVars    == <<table, history, rowLock>>
cacheVars == <<cache, expires, excused>>
vars      == <<dbVars, cacheVars, topic, req, writes, commits>>

-----------------------------------------------------------------------------
Rows       == [id : Nat \ {0}, value : Values, version : Nat \ {0}]
Entries    == [old : Values \cup {NoValue}, new : Values]
EventTypes == {"CREATED", "UPDATED", "DELETED"}

\* The control points of the handlers, named for the await they stand at.
Points == {"idle", "cache_get", "db_get", "cache_set", "history",
           "insert", "lock", "commit", "delete",
           "refresh", "cache_delete", "publish"}

\* The locals of a handler: the key and value of the request, the row read
\* or written last, the kind of write it is (NoValue for a read).
IdleReq == [pc |-> "idle", op |-> "none", key |-> NoRow, val |-> NoValue, row |-> NoRow]

Ops == {"none", "GET", "HISTORY"} \cup EventTypes

Requests ==
  [pc : Points, op : Ops, key : Keys \cup {NoRow},
   val : Values \cup {NoValue}, row : Rows \cup {NoRow}]

Go(h, point)          == req' = [req EXCEPT ![h].pc = point]
GoWith(h, point, row) == req' = [req EXCEPT ![h].pc = point, ![h].row = row]
Return(h)             == req' = [req EXCEPT ![h] = IdleReq]

\* A copy of row held outside the table is out of date.
Stale(k, row) == row # NoRow /\ row # table[k]

-----------------------------------------------------------------------------
Init ==
  /\ table = [k \in Keys |-> NoRow]
  /\ history = <<>>
  /\ rowLock = [k \in Keys |-> NoHandler]
  /\ cache = [k \in Keys |-> NoRow]
  /\ expires = [k \in Keys |-> FALSE]
  /\ topic = [e \in EventTypes |-> [k \in Keys |-> 0]]
  /\ req = [h \in Handlers |-> IdleReq]
  /\ writes = 0
  /\ commits = [e \in EventTypes |-> [k \in Keys |-> 0]]
  /\ excused = [k \in Keys |-> FALSE]

-----------------------------------------------------------------------------
(* get_configuration, and the history endpoint that starts with it.        *)

StartRead(h, op, k) ==
  /\ req[h].pc = "idle"
  /\ req' = [req EXCEPT ![h] = [IdleReq EXCEPT !.pc = "cache_get", !.op = op, !.key = k]]
  /\ UNCHANGED <<dbVars, cacheVars, topic, writes, commits>>

\* Where a read continues once it has its row: the history endpoint goes on
\* to query by the row's id, the others answer the client.
Answer(h, row) ==
  IF req[h].op = "HISTORY" THEN GoWith(h, "history", row) ELSE Return(h)

CacheGet(h) ==
  LET k == req[h].key IN
  /\ req[h].pc = "cache_get"
  /\ IF cache[k] # NoRow THEN Answer(h, cache[k]) ELSE Go(h, "db_get")
  /\ UNCHANGED <<dbVars, cacheVars, topic, writes, commits>>

\* A missing row is answered at once and never cached.
DbGet(h) ==
  LET k == req[h].key IN
  /\ req[h].pc = "db_get"
  /\ IF table[k] = NoRow THEN Return(h) ELSE GoWith(h, "cache_set", table[k])
  /\ UNCHANGED <<dbVars, cacheVars, topic, writes, commits>>

\* Mutant of CacheSet: SET without the time to live.
CacheSetForever(h) ==
  LET k == req[h].key IN
  /\ req[h].pc = "cache_set"
  /\ cache' = [cache EXCEPT ![k] = req[h].row]
  /\ expires' = [expires EXCEPT ![k] = FALSE]
  /\ excused' = [excused EXCEPT ![k] = Stale(k, req[h].row)]
  /\ Answer(h, req[h].row)
  /\ UNCHANGED <<dbVars, topic, writes, commits>>

CacheSet(h) ==
  LET k == req[h].key IN
  /\ req[h].pc = "cache_set"
  /\ cache' = [cache EXCEPT ![k] = req[h].row]
  /\ expires' = [expires EXCEPT ![k] = TRUE]
  /\ excused' = [excused EXCEPT ![k] = Stale(k, req[h].row)]
  /\ Answer(h, req[h].row)
  /\ UNCHANGED <<dbVars, topic, writes, commits>>

HistoryGet(h) ==
  /\ req[h].pc = "history"
  /\ Return(h)
  /\ UNCHANGED <<dbVars, cacheVars, topic, writes, commits>>

-----------------------------------------------------------------------------
(* create_configuration, update_configuration, delete_configuration.       *)

WritePoint(op) ==
  CASE op = "CREATED" -> "insert" [] op = "UPDATED" -> "lock" [] op = "DELETED" -> "delete"

StartWrite(h, op, k, v) ==
  /\ req[h].pc = "idle"
  /\ writes < MaxWrites
  /\ writes' = writes + 1
  /\ req' = [req EXCEPT ![h] = [pc |-> WritePoint(op), op |-> op, key |-> k,
                                val |-> v, row |-> NoRow]]
  /\ UNCHANGED <<dbVars, cacheVars, topic, commits>>

Committed(op, k) == commits' = [commits EXCEPT ![op][k] = @ + 1]

\* Mutant of Insert: the identifier is that of the last row, not the next.
InsertReusingId(h) ==
  LET k == req[h].key
      row == [id |-> IF history = <<>> THEN 1 ELSE Len(history),
              value |-> req[h].val, version |-> 1]
  IN
  /\ req[h].pc = "insert"
  /\ table[k] = NoRow
  /\ table' = [table EXCEPT ![k] = row]
  /\ history' = Append(history, <<[old |-> NoValue, new |-> row.value]>>)
  /\ Committed("CREATED", k)
  /\ GoWith(h, "refresh", row)
  /\ UNCHANGED <<rowLock, cacheVars, topic, writes>>

\* The insert of the row and of its first history entry are one transaction;
\* a row with the same key makes it an IntegrityError, rolled back and raised.
Insert(h) ==
  LET k == req[h].key
      row == [id |-> Len(history) + 1, value |-> req[h].val, version |-> 1]
  IN
  /\ req[h].pc = "insert"
  /\ \/ /\ table[k] # NoRow
        /\ Return(h)
        /\ UNCHANGED <<table, history, commits>>
     \/ /\ table[k] = NoRow
        /\ table' = [table EXCEPT ![k] = row]
        /\ history' = Append(history, <<[old |-> NoValue, new |-> row.value]>>)
        /\ Committed("CREATED", k)
        /\ GoWith(h, "refresh", row)
  /\ UNCHANGED <<rowLock, cacheVars, topic, writes>>

\* Mutant of LockRow: the SELECT has no FOR UPDATE.
LockRowWithoutWaiting(h) ==
  LET k == req[h].key IN
  /\ req[h].pc = "lock"
  /\ IF table[k] = NoRow
     THEN Return(h) /\ UNCHANGED rowLock
     ELSE GoWith(h, "commit", table[k]) /\ rowLock' = [rowLock EXCEPT ![k] = h]
  /\ UNCHANGED <<table, history, cacheVars, topic, writes, commits>>

\* SELECT ... FOR UPDATE: waits while another transaction holds the row.
LockRow(h) ==
  LET k == req[h].key IN
  /\ req[h].pc = "lock"
  /\ rowLock[k] = NoHandler
  /\ IF table[k] = NoRow
     THEN Return(h) /\ UNCHANGED rowLock
     ELSE GoWith(h, "commit", table[k]) /\ rowLock' = [rowLock EXCEPT ![k] = h]
  /\ UNCHANGED <<table, history, cacheVars, topic, writes, commits>>

\* The new row is computed from the one read under the lock.
CommitUpdate(h) ==
  LET k == req[h].key
      read == req[h].row
      row == [id |-> read.id, value |-> req[h].val, version |-> read.version + 1]
  IN
  /\ req[h].pc = "commit"
  /\ table' = [table EXCEPT ![k] = row]
  /\ history' = [history EXCEPT
       ![row.id] = Append(@, [old |-> read.value, new |-> row.value])]
  /\ rowLock' = [rowLock EXCEPT ![k] = NoHandler]
  /\ Committed("UPDATED", k)
  /\ GoWith(h, "refresh", row)
  /\ UNCHANGED <<cacheVars, topic, writes>>

\* Mutant of DeleteRow: a history entry without a value instead of the cascade.
DeleteRowKeepingHistory(h) ==
  LET k == req[h].key IN
  /\ req[h].pc = "delete"
  /\ rowLock[k] = NoHandler
  /\ IF table[k] = NoRow
     THEN UNCHANGED <<table, history, commits>>
     ELSE /\ table' = [table EXCEPT ![k] = NoRow]
          /\ history' = [history EXCEPT
               ![table[k].id] = Append(@, [old |-> table[k].value, new |-> NoValue])]
          /\ Committed("DELETED", k)
  /\ GoWith(h, "cache_delete", table[k])
  /\ UNCHANGED <<rowLock, cacheVars, topic, writes>>

\* DELETE ... WHERE waits for the row lock too; the history goes by cascade.
\* The cache entry is deleted whether or not a row was.
DeleteRow(h) ==
  LET k == req[h].key IN
  /\ req[h].pc = "delete"
  /\ rowLock[k] = NoHandler
  /\ IF table[k] = NoRow
     THEN UNCHANGED <<table, history, commits>>
     ELSE /\ table' = [table EXCEPT ![k] = NoRow]
          /\ history' = [history EXCEPT ![table[k].id] = <<>>]
          /\ Committed("DELETED", k)
  /\ GoWith(h, "cache_delete", table[k])
  /\ UNCHANGED <<rowLock, cacheVars, topic, writes>>

\* Mutant of Refresh: the write publishes without invalidating the cache.
RefreshWithoutInvalidation(h) ==
  LET k == req[h].key IN
  /\ req[h].pc = "refresh"
  /\ IF table[k] # NoRow /\ table[k].id = req[h].row.id
     THEN GoWith(h, "publish", table[k]) /\ UNCHANGED excused
     ELSE Return(h) /\ excused' = [excused EXCEPT ![k] = TRUE]
  /\ UNCHANGED <<dbVars, cache, expires, topic, writes, commits>>

\* session.refresh after the commit is a new SELECT by primary key: it may
\* see a later update, and it raises when the row is already gone, which ends
\* the handler before it has invalidated the cache or published.
Refresh(h) ==
  LET k == req[h].key IN
  /\ req[h].pc = "refresh"
  /\ IF table[k] # NoRow /\ table[k].id = req[h].row.id
     THEN GoWith(h, "cache_delete", table[k]) /\ UNCHANGED excused
     ELSE Return(h) /\ excused' = [excused EXCEPT ![k] = TRUE]
  /\ UNCHANGED <<dbVars, cache, expires, topic, writes, commits>>

\* Mutant of CacheDelete: a delete publishes although it removed no row.
CacheDeleteAlwaysPublishing(h) ==
  LET k == req[h].key IN
  /\ req[h].pc = "cache_delete"
  /\ cache' = [cache EXCEPT ![k] = NoRow]
  /\ expires' = [expires EXCEPT ![k] = FALSE]
  /\ excused' = [excused EXCEPT ![k] = FALSE]
  /\ Go(h, "publish")
  /\ UNCHANGED <<dbVars, topic, writes, commits>>

\* A delete that removed no row (row in hand NoRow) does not publish.
CacheDelete(h) ==
  LET k == req[h].key IN
  /\ req[h].pc = "cache_delete"
  /\ cache' = [cache EXCEPT ![k] = NoRow]
  /\ expires' = [expires EXCEPT ![k] = FALSE]
  /\ excused' = [excused EXCEPT ![k] = FALSE]
  /\ IF req[h].row = NoRow THEN Return(h) ELSE Go(h, "publish")
  /\ UNCHANGED <<dbVars, topic, writes, commits>>

\* _publish swallows every error and does nothing without a producer.
Publish(h) ==
  LET k == req[h].key IN
  /\ req[h].pc = "publish"
  /\ \/ topic' = [topic EXCEPT ![req[h].op][k] = @ + 1]
     \/ UNCHANGED topic
  /\ Return(h)
  /\ UNCHANGED <<dbVars, cacheVars, writes, commits>>

-----------------------------------------------------------------------------
\* Redis or the database raises at the await where the handler stands, or the
\* process dies there: the handler is gone, its transaction rolled back and
\* its lock released.  Past the commit, the invalidation is lost with it.
Fail(h) ==
  LET k == req[h].key IN
  /\ req[h].pc \notin {"idle", "publish"}
  /\ Return(h)
  /\ rowLock' = [x \in Keys |-> IF rowLock[x] = h THEN NoHandler ELSE rowLock[x]]
  /\ excused' = IF req[h].pc \in {"refresh", "cache_delete"}
                THEN [excused EXCEPT ![k] = TRUE] ELSE excused
  /\ UNCHANGED <<table, history, cache, expires, topic, writes, commits>>

\* Redis drops an entry when its time to live is over.
Expire(k) ==
  /\ cache[k] # NoRow
  /\ expires[k]
  /\ cache' = [cache EXCEPT ![k] = NoRow]
  /\ expires' = [expires EXCEPT ![k] = FALSE]
  /\ excused' = [excused EXCEPT ![k] = FALSE]
  /\ UNCHANGED <<dbVars, topic, req, writes, commits>>

-----------------------------------------------------------------------------
Step(h) ==
  \/ CacheGet(h) \/ DbGet(h) \/ CacheSet(h) \/ HistoryGet(h)
  \/ Insert(h) \/ LockRow(h) \/ CommitUpdate(h) \/ DeleteRow(h)
  \/ Refresh(h) \/ CacheDelete(h) \/ Publish(h)

Next ==
  \/ \E h \in Handlers, k \in Keys :
       \/ \E op \in {"GET", "HISTORY"} : StartRead(h, op, k)
       \/ \E v \in Created : StartWrite(h, "CREATED", k, v)
       \/ \E v \in Values : StartWrite(h, "UPDATED", k, v)
       \/ StartWrite(h, "DELETED", k, NoValue)
  \/ \E h \in Handlers : Step(h) \/ Fail(h)
  \/ \E k \in Keys : Expire(k)

Spec == Init /\ [][Next]_vars

\* Redis expires every entry that has a time to live.  Requests, handlers, failures
\* and Kafka owe nothing: a handler that never goes on stores and commits nothing.
Fairness == \A k \in Keys : WF_vars(Expire(k))

FairSpec == Spec /\ Fairness
-----------------------------------------------------------------------------
\* Types of all variables.
TypeOK ==
  /\ table \in [Keys -> Rows \cup {NoRow}]
  /\ history \in Seq(Seq(Entries))
  /\ rowLock \in [Keys -> Handlers \cup {NoHandler}]
  /\ cache \in [Keys -> Rows \cup {NoRow}]
  /\ expires \in [Keys -> BOOLEAN]
  /\ topic \in [EventTypes -> [Keys -> Nat]]
  /\ req \in [Handlers -> Requests]
  /\ writes \in 0..MaxWrites
  /\ commits \in [EventTypes -> [Keys -> Nat]]
  /\ excused \in [Keys -> BOOLEAN]

\* The history of a row tells its whole life, one entry per version: it starts
\* from no value, each entry's old value is the new value of the one before,
\* and the last new value is the one in the table.  Two updates that read the
\* same row would break the chain; the FOR UPDATE lock is what prevents it.
Chained(h) ==
  /\ h[1].old = NoValue
  /\ \A i \in 2..Len(h) : h[i].old = h[i - 1].new

HistoryMatchesTable ==
  \A k \in Keys : table[k] # NoRow =>
    LET h == history[table[k].id] IN
    /\ Len(h) = table[k].version
    /\ h[Len(h)].new = table[k].value
    /\ Chained(h)

\* A copy of a row outside the table, in Redis or in a handler's hands, is
\* some earlier or present version of a row of that very key: never a mixture
\* of two versions, never a version the table has not reached, never the
\* identifier of another key (whose history the history endpoint would show).
PastVersion(k, row) ==
  row # NoRow =>
    /\ table[k] # NoRow /\ table[k].id = row.id =>
         /\ row.version <= table[k].version
         /\ history[row.id][row.version].new = row.value
    /\ \A j \in Keys \ {k} : table[j] # NoRow => table[j].id # row.id

CopiesArePastVersions ==
  \A k \in Keys :
    /\ PastVersion(k, cache[k])
    /\ \A h \in Handlers : req[h].key = k => PastVersion(k, req[h].row)

\* A cached row differs from the table only while a writer that will still
\* delete the entry is on its way, or because a reader that had fetched the
\* row before a commit stored it after that, or because the invalidation was
\* lost with its handler.  The service has no other source of stale reads.
Invalidating(h, k) ==
  /\ req[h].key = k
  /\ req[h].op \in EventTypes
  /\ req[h].pc \in {"refresh", "cache_delete"}

StaleOnlyByRaceOrFailure ==
  \A k \in Keys : Stale(k, cache[k]) =>
    excused[k] \/ \E h \in Handlers : Invalidating(h, k)

\* No event without its commit: the topic never holds more events of a type
\* for a key than there were committed writes of that type, so a consumer is
\* never told of a change, or of a delete, that did not happen.
EventsFollowCommits ==
  \A e \in EventTypes, k \in Keys : topic[e][k] <= commits[e][k]

\* The table, with handlers, locks and caches hidden, is the versioned store:
\* an update changes the row it read and no other write comes between.
Store == INSTANCE VersionedStore WITH store <- table, lastId <- Len(history)
ImplementsStore == Store!Spec

\* Once writes stop, every stale entry goes, whatever races and failures left
\* it behind: in the end what Redis holds agrees with the table.
CacheConverges == <>[](\A k \in Keys : ~Stale(k, cache[k]))
=============================================================================
