--------------------------- MODULE ServiceRegistry ---------------------------
(***************************************************************************)
(* The registry half of config-service: service instances register over    *)
(* HTTP; config-service keeps a ZooKeeper node per instance, a PostgreSQL  *)
(* row per service and a Redis copy of each service's instance list, and a *)
(* background task probes the instances and records their health.  Every   *)
(* await of a handler is a step of its own.  The nodes are ephemeral, but  *)
(* their ZooKeeper session is config-service's, not the instance's.        *)
(***************************************************************************)
EXTENDS Naturals, FiniteSets

CONSTANTS
  Instances,    \* service instances, config-service itself included
  Services,     \* service names
  ServiceOf,    \* ServiceOf[i]: the service instance i belongs to
  Self,         \* the instance that is config-service
  Queried,      \* services that clients look up or ask to check
  Handlers,     \* requests config-service can serve at the same time
  Monitor,      \* the startup code and the periodic task it spawns
  Nobody,       \* no handler
  NoEntry,      \* Redis has no list for the service
  NoRow,        \* PostgreSQL has no row for the service
  NoInstance,   \* a request that is not about one instance
  NoService,    \* a process that is not working on a service
  MaxLives,     \* bound: starts of service instances
  MaxFaults     \* bound: failures of any kind

ASSUME InstancesAssumption ==
  /\ Self \in Instances
  /\ ServiceOf \in [Instances -> Services]
  /\ Queried \subseteq Services
  /\ IsFiniteSet(Instances)
ASSUME BoundsAssumption == MaxLives \in Nat /\ MaxFaults \in Nat
ASSUME SentinelsAssumption ==
  /\ Monitor \notin Handlers
  /\ Nobody \notin Handlers \cup {Monitor}
  /\ \A list \in SUBSET Instances : NoEntry # list
  /\ NoInstance \notin Instances
  /\ NoService \notin Services
  /\ NoRow \notin {"healthy", "unhealthy", "unknown"}

VARIABLES
  node,       \* node[i]: the ZooKeeper session that owns the node of i, 0 if none
  session,    \* config-service's present session
  row,        \* row[s]: the status column of the row of s
  cache,      \* cache[s]: the list in Redis under registry:instances:{s}
  client,     \* client[i]: where the process of instance i is in its life
  waits,      \* waits[i]: the handler whose answer the process of i awaits
  proc,       \* proc[p]: program counter and locals of a handler or of Monitor
  lives,      \* starts of instances so far
  faults,     \* failures so far
  excused,    \* history variable: excused[s], the list in Redis may be stale
              \* because a fill, a failure or the session overtook it
  forfeited,  \* history variable: forfeited[i], the node of i was removed by the
              \* end of a session or by a deregistration of a former life of i
  departed    \* history variable: departed[i], a deregistration removed the node of i
              \* while no registration of i was on its way to write it, and i has
              \* not started since

clientVars == <<client, waits, lives>>
fateVars   == <<forfeited, departed>>
vars == <<node, session, row, cache, clientVars, proc, faults, excused, fateVars>>

-----------------------------------------------------------------------------
Procs    == Handlers \cup {Monitor}
Statuses == {"healthy", "unhealthy", "unknown"}

\* An instance process: down; waiting for its registration to be answered;
\* serving without or with an instance id from the registry; waiting for its
\* deregistration.
Lives  == {"down", "starting", "anonymous", "registered", "leaving"}

Points == {"idle", "boot_exists", "boot_write", "list", "next",
           "exists", "write", "db_select", "db_write", "delete", "db_unknown",
           "cache_delete", "cache_get", "children", "get",
           "probe"}
Ops == {"none", "REGISTER", "DEREGISTER", "DISCOVER", "CHECK", "MONITOR"}

\* The locals: the service and instance at hand, what exists() or the SELECT
\* saw, the instances still to read or probe, the list read so far, whether a
\* probe succeeded, the services the monitor has yet to visit.
Locals ==
  [pc : Points, op : Ops, svc : Services \cup {NoService},
   inst : Instances \cup {NoInstance}, saw : BOOLEAN, todo : SUBSET Instances,
   list : SUBSET Instances, ok : BOOLEAN, svcs : SUBSET Services]

At(point, op, s, i) ==
  [pc |-> point, op |-> op, svc |-> s, inst |-> i, saw |-> FALSE, todo |-> {},
   list |-> {}, ok |-> FALSE, svcs |-> {}]
Idle == At("idle", "none", NoService, NoInstance)
Boot == At("boot_exists", "none", ServiceOf[Self], Self)

Listed(s) == {i \in Instances : ServiceOf[i] = s /\ node[i] # 0}
Booted    == proc[Monitor].pc \notin {"boot_exists", "boot_write"}

\* The instance's own HTTP server answers; it does so neither while the
\* lifespan hook is still registering nor while it is deregistering.
Serving(i) == IF i = Self THEN Booted ELSE client[i] \in {"anonymous", "registered"}

Go(p, point)   == proc' = [proc EXCEPT ![p].pc = point]
Become(p, new) == proc' = [proc EXCEPT ![p] = new]

\* Where a process goes when it is done with its request or, for the monitor,
\* with the service at hand, whether normally or by an exception.
Finish(p) ==
  Become(p, IF p # Monitor THEN Idle
            ELSE [At("next", "MONITOR", NoService, NoInstance) EXCEPT !.svcs = proc[p].svcs])

Hung(i, state) ==
  /\ client' = [client EXCEPT ![i] = state]
  /\ waits' = [waits EXCEPT ![i] = Nobody]
  /\ UNCHANGED lives

\* A caller whose call failed carries on without an id, or shuts down anyway.
AfterNoAnswer(state) ==
  CASE state = "starting" -> "anonymous" [] state = "leaving" -> "down" [] OTHER -> state

AfterAnswer(state) ==
  CASE state = "starting" -> "registered" [] state = "leaving" -> "down" [] OTHER -> state

\* The answer of the handlers in answering reaches the instances that still
\* wait for it.
Reply(answering, success) ==
  /\ client' = [i \in Instances |->
       IF waits[i] \notin answering THEN client[i]
       ELSE IF success THEN AfterAnswer(client[i]) ELSE AfterNoAnswer(client[i])]
  /\ waits' = [i \in Instances |-> IF waits[i] \in answering THEN Nobody ELSE waits[i]]
  /\ UNCHANGED lives

\* The nodes in gone leave ZooKeeper; no cached list is told.
DropNodes(gone) ==
  /\ node' = [i \in Instances |-> IF i \in gone THEN 0 ELSE node[i]]
  /\ excused' = [s \in Services |->
       excused[s] \/ \E i \in gone : ServiceOf[i] = s /\ node[i] # 0]
  /\ forfeited' = [i \in Instances |-> forfeited[i] \/ i \in gone]
  /\ UNCHANGED departed

-----------------------------------------------------------------------------
Init ==
  /\ node = [i \in Instances |-> 0]
  /\ session = 1
  /\ row = [s \in Services |-> NoRow]
  /\ cache = [s \in Services |-> NoEntry]
  /\ client = [i \in Instances |-> "down"]
  /\ waits = [i \in Instances |-> Nobody]
  /\ proc = [p \in Procs |-> IF p = Monitor THEN Boot ELSE Idle]
  /\ lives = 0
  /\ faults = 0
  /\ excused = [s \in Services |-> FALSE]
  /\ forfeited = [i \in Instances |-> FALSE]
  /\ departed = [i \in Instances |-> FALSE]

-----------------------------------------------------------------------------
(* The instances: ServiceRegistryHttpClient and its use in main.py.        *)

\* Start-up registers, and gives up for good when the call fails.
ClientStart(i, h) ==
  /\ i # Self /\ client[i] = "down" /\ lives < MaxLives
  /\ lives' = lives + 1
  /\ forfeited' = [forfeited EXCEPT ![i] = FALSE]
  /\ departed' = [departed EXCEPT ![i] = FALSE]
  /\ IF Booted
     THEN /\ proc[h].pc = "idle"
          /\ client' = [client EXCEPT ![i] = "starting"]
          /\ waits' = [waits EXCEPT ![i] = h]
          /\ Become(h, At("exists", "REGISTER", ServiceOf[i], i))
     ELSE /\ client' = [client EXCEPT ![i] = "anonymous"]
          /\ UNCHANGED <<waits, proc>>
  /\ UNCHANGED <<node, session, row, cache, faults, excused>>

\* The five-second client timeout; the handler runs on.
ClientTimeout(i) ==
  /\ waits[i] # Nobody
  /\ faults < MaxFaults
  /\ faults' = faults + 1
  /\ Hung(i, AfterNoAnswer(client[i]))
  /\ UNCHANGED <<node, session, row, cache, proc, excused, fateVars>>

\* Shutdown deregisters if an id was received; only then.
ClientStop(i, h) ==
  /\ i # Self /\ Serving(i)
  /\ IF client[i] = "registered" /\ Booted
     THEN /\ proc[h].pc = "idle"
          /\ client' = [client EXCEPT ![i] = "leaving"]
          /\ waits' = [waits EXCEPT ![i] = h]
          /\ Become(h, At("delete", "DEREGISTER", ServiceOf[i], i))
          /\ UNCHANGED lives
     ELSE Hung(i, "down") /\ UNCHANGED proc
  /\ UNCHANGED <<node, session, row, cache, faults, excused, fateVars>>

ClientCrash(i) ==
  /\ client[i] # "down"
  /\ Hung(i, "down")
  /\ UNCHANGED <<node, session, row, cache, proc, faults, excused, fateVars>>

-----------------------------------------------------------------------------
(* register_service.                                                       *)

\* Mutant of ZkExists: the registration goes on as if the node had been written.
ZkExistsOnly(h) ==
  /\ proc[h].pc = "exists"
  /\ proc' = [proc EXCEPT ![h].pc = "db_select", ![h].saw = node[proc[h].inst] # 0]
  /\ UNCHANGED <<node, session, row, cache, clientVars, faults, excused, fateVars>>

ZkExists(h) ==
  /\ proc[h].pc = "exists"
  /\ proc' = [proc EXCEPT ![h].pc = "write", ![h].saw = node[proc[h].inst] # 0]
  /\ UNCHANGED <<node, session, row, cache, clientVars, faults, excused, fateVars>>

\* The node is created if it was seen missing, else its data is set, which
\* leaves it with the session that owns it.  Either raises (NodeExistsError,
\* NoNodeError) when another request came in between.
WriteFails(p) == proc[p].saw # (node[proc[p].inst] # 0)
Written(p) ==
  IF proc[p].saw THEN UNCHANGED node
  ELSE node' = [node EXCEPT ![proc[p].inst] = session]

ZkWrite(h) ==
  /\ proc[h].pc = "write"
  /\ ~WriteFails(h)
  /\ Written(h)
  /\ proc' = [proc EXCEPT ![h].pc = "db_select", ![h].saw = FALSE]
  /\ UNCHANGED <<session, row, cache, clientVars, faults, excused, fateVars>>

ZkWriteRaises(h) ==
  /\ proc[h].pc = "write"
  /\ WriteFails(h)
  /\ Finish(h)
  /\ Reply({h}, FALSE)
  /\ UNCHANGED <<node, session, row, cache, faults, excused, fateVars>>

\* SELECT ... FOR UPDATE locks nothing when there is no row.
DbSelect(h) ==
  /\ proc[h].pc = "db_select"
  /\ proc' = [proc EXCEPT ![h].pc = "db_write", ![h].saw = row[proc[h].svc] # NoRow]
  /\ UNCHANGED <<node, session, row, cache, clientVars, faults, excused, fateVars>>

\* A second first registration of the service violates the unique name; it
\* raises with the node written and the cached list not deleted.
DbWrite(h) ==
  LET s == proc[h].svc IN
  /\ proc[h].pc = "db_write"
  /\ \/ /\ proc[h].saw \/ row[s] = NoRow
        /\ row' = [row EXCEPT ![s] = "healthy"]
        /\ proc' = [proc EXCEPT ![h].pc = "cache_delete", ![h].saw = FALSE]
        /\ UNCHANGED <<clientVars, excused>>
     \/ /\ ~proc[h].saw /\ row[s] # NoRow
        /\ excused' = [excused EXCEPT ![s] = TRUE]
        /\ Finish(h)
        /\ Reply({h}, FALSE)
        /\ UNCHANGED row
  /\ UNCHANGED <<node, session, cache, faults, fateVars>>

-----------------------------------------------------------------------------
(* deregister_service, and the invalidation that ends both.                *)

\* A registration of i that has yet to write its node.
Arriving(i) == \E h \in Handlers : proc[h].inst = i /\ proc[h].pc \in {"exists", "write"}

\* What a deregistration that is through with the node leaves behind.
Deleted(h) ==
  LET i == proc[h].inst IN
  /\ forfeited' = [forfeited EXCEPT ![i] = waits[i] # h]
  /\ departed' = [departed EXCEPT ![i] = ~Arriving(i)]
  /\ Go(h, "db_unknown")
  /\ UNCHANGED <<session, row, cache, clientVars, faults, excused>>

\* Mutant of ZkDelete: only a node of the present session is deleted.
ZkDeleteOwn(h) ==
  LET i == proc[h].inst IN
  /\ proc[h].pc = "delete"
  /\ node' = [node EXCEPT ![i] = IF @ = session THEN 0 ELSE @]
  /\ Deleted(h)

\* A missing node is ignored.  The deregistration may be that of a former
\* life of the instance, whose client no longer waits for it.
ZkDelete(h) ==
  LET i == proc[h].inst IN
  /\ proc[h].pc = "delete"
  /\ node' = [node EXCEPT ![i] = 0]
  /\ Deleted(h)

\* Mutant of DbUnknown: a deregistered service is stopping.
DbUnknownStopping(h) ==
  LET s == proc[h].svc IN
  /\ proc[h].pc = "db_unknown"
  /\ row' = [row EXCEPT ![s] = IF @ = NoRow THEN NoRow ELSE "stopping"]
  /\ Go(h, "cache_delete")
  /\ UNCHANGED <<node, session, cache, clientVars, faults, excused, fateVars>>

\* The whole service becomes unknown, other instances of it or not.
DbUnknown(h) ==
  LET s == proc[h].svc IN
  /\ proc[h].pc = "db_unknown"
  /\ row' = [row EXCEPT ![s] = IF @ = NoRow THEN NoRow ELSE "unknown"]
  /\ Go(h, "cache_delete")
  /\ UNCHANGED <<node, session, cache, clientVars, faults, excused, fateVars>>

\* Mutant of CacheDelete: the answer goes out, the list stays.
CacheDeleteSkipped(h) ==
  /\ proc[h].pc = "cache_delete"
  /\ Finish(h)
  /\ Reply({h}, TRUE)
  /\ UNCHANGED <<node, session, row, cache, faults, excused, fateVars>>

CacheDelete(h) ==
  LET s == proc[h].svc IN
  /\ proc[h].pc = "cache_delete"
  /\ cache' = [cache EXCEPT ![s] = NoEntry]
  /\ excused' = [excused EXCEPT ![s] = FALSE]
  /\ Finish(h)
  /\ Reply({h}, TRUE)
  /\ UNCHANGED <<node, session, row, faults, fateVars>>

-----------------------------------------------------------------------------
(* get_service_instances, alone or as the start of a health check.         *)

StartLookup(h, op, s) ==
  /\ Booted
  /\ proc[h].pc = "idle"
  /\ Become(h, At("cache_get", op, s, NoInstance))
  /\ UNCHANGED <<node, session, row, cache, clientVars, faults, excused, fateVars>>

\* What follows once the list is known: discovery answers with it, a check
\* probes it, and the monitor passes over a service with an empty one.
Use(p, list) ==
  IF proc[p].op = "DISCOVER" \/ (proc[p].op = "MONITOR" /\ list = {})
  THEN Finish(p)
  ELSE proc' = [proc EXCEPT ![p].pc = "probe", ![p].list = list, ![p].todo = list,
                            ![p].ok = FALSE]

\* An empty list in Redis is a hit like any other.
CacheGet(p) ==
  LET s == proc[p].svc IN
  /\ proc[p].pc = "cache_get"
  /\ IF cache[s] # NoEntry THEN Use(p, cache[s]) ELSE Go(p, "children")
  /\ UNCHANGED <<node, session, row, cache, clientVars, faults, excused, fateVars>>

ZkChildren(p) ==
  /\ proc[p].pc = "children"
  /\ proc' = [proc EXCEPT ![p].pc = "get", ![p].todo = Listed(proc[p].svc), ![p].list = {}]
  /\ UNCHANGED <<node, session, row, cache, clientVars, faults, excused, fateVars>>

\* The children are read one at a time; one that has gone since they were
\* listed raises NoNodeError.
ZkGet(p) ==
  /\ proc[p].pc = "get"
  /\ \E i \in proc[p].todo :
       IF node[i] = 0 THEN Finish(p)
       ELSE proc' = [proc EXCEPT ![p].todo = @ \ {i}, ![p].list = @ \cup {i}]
  /\ UNCHANGED <<node, session, row, cache, clientVars, faults, excused, fateVars>>

CacheSet(p) ==
  LET s == proc[p].svc IN
  /\ proc[p].pc = "get"
  /\ proc[p].todo = {}
  /\ cache' = [cache EXCEPT ![s] = proc[p].list]
  /\ excused' = [excused EXCEPT ![s] = proc[p].list # Listed(s)]
  /\ Use(p, proc[p].list)
  /\ UNCHANGED <<node, session, row, clientVars, faults, fateVars>>

-----------------------------------------------------------------------------
(* check_service_health, and monitor_all_services around it.               *)

\* One instance's endpoints, with their retries: no answer from one that is
\* not serving, and a serving one may fail to answer in time.
Probe(p) ==
  /\ proc[p].pc = "probe"
  /\ \E i \in proc[p].todo :
       \/ /\ proc' = [proc EXCEPT ![p].todo = @ \ {i}, ![p].ok = @ \/ Serving(i) ]
          /\ UNCHANGED faults
       \/ /\ Serving(i) /\ faults < MaxFaults
          /\ faults' = faults + 1
          /\ proc' = [proc EXCEPT ![p].todo = @ \ {i}]
  /\ UNCHANGED <<node, session, row, cache, clientVars, excused, fateVars>>

Overall(p) ==
  IF proc[p].ok THEN "healthy" ELSE IF proc[p].list # {} THEN "unhealthy" ELSE "unknown"

DbStatus(p) ==
  LET s == proc[p].svc IN
  /\ proc[p].pc = "probe"
  /\ proc[p].todo = {}
  /\ row' = [row EXCEPT ![s] = IF @ = NoRow THEN NoRow ELSE Overall(p)]
  /\ Finish(p)
  /\ UNCHANGED <<node, session, cache, clientVars, faults, excused, fateVars>>

StartCycle == Become(Monitor, At("list", "MONITOR", NoService, NoInstance))

\* Mutant of MonitorList: only the services recorded healthy are visited.
MonitorListHealthy ==
  /\ proc[Monitor].pc = "list"
  /\ proc' = [proc EXCEPT ![Monitor] =
       [At("next", "MONITOR", NoService, NoInstance) EXCEPT
          !.svcs = {s \in Services : row[s] = "healthy"}]]
  /\ UNCHANGED <<node, session, row, cache, clientVars, faults, excused, fateVars>>

\* A cycle visits the services that had a row when it began.
MonitorList ==
  /\ proc[Monitor].pc = "list"
  /\ proc' = [proc EXCEPT ![Monitor] =
       [At("next", "MONITOR", NoService, NoInstance) EXCEPT
          !.svcs = {s \in Services : row[s] # NoRow}]]
  /\ UNCHANGED <<node, session, row, cache, clientVars, faults, excused, fateVars>>

\* The next service, or after the last the sleep before the next cycle.
MonitorNext ==
  LET svcs == proc[Monitor].svcs IN
  /\ proc[Monitor].pc = "next"
  /\ \/ \E s \in svcs :
          proc' = [proc EXCEPT ![Monitor] =
            [At("cache_get", "MONITOR", s, NoInstance) EXCEPT !.svcs = svcs \ {s}]]
     \/ svcs = {} /\ StartCycle
  /\ UNCHANGED <<node, session, row, cache, clientVars, faults, excused, fateVars>>

-----------------------------------------------------------------------------
(* config-service itself: start-up, failures, restarts.                    *)

\* Start-up writes its own node, without a row and without invalidating.
BootExists ==
  /\ proc[Monitor].pc = "boot_exists"
  /\ proc' = [proc EXCEPT ![Monitor].pc = "boot_write", ![Monitor].saw = node[Self] # 0]
  /\ UNCHANGED <<node, session, row, cache, clientVars, faults, excused, fateVars>>

BootWrite ==
  /\ proc[Monitor].pc = "boot_write"
  /\ IF WriteFails(Monitor) THEN UNCHANGED node ELSE Written(Monitor)
  /\ excused' = [excused EXCEPT ![ServiceOf[Self]] = TRUE]
  /\ StartCycle
  /\ UNCHANGED <<session, row, cache, clientVars, faults, fateVars>>

\* Services whose list a handler in procs was still going to delete.
Owing == {"db_select", "db_write", "db_unknown", "cache_delete"}
Abandoned(procs) == {s \in Services : \E p \in procs : proc[p].svc = s /\ proc[p].pc \in Owing}
Excuse(svcs) == excused' = [s \in Services |-> excused[s] \/ s \in svcs]

Faulty == faults < MaxFaults /\ faults' = faults + 1

\* ZooKeeper, PostgreSQL or Redis raises at the await where p stands.  The
\* request ends with a 500; the monitor and start-up log it and go on.  What a
\* probe raises is its result.
Fault(p) ==
  /\ proc[p].pc \notin {"idle", "next"}
  /\ proc[p].pc = "probe" => proc[p].todo = {}
  /\ Faulty
  /\ IF p = Monitor /\ proc[p].pc \in {"list", "boot_exists", "boot_write"}
     THEN StartCycle ELSE Finish(p)
  /\ Reply({p}, FALSE)
  /\ Excuse(Abandoned({p}))
  /\ UNCHANGED <<node, session, row, cache, fateVars>>

\* The ZooKeeper session expires while config-service lives: its nodes are
\* gone, the client library opens a new session and nobody registers again.
SessionLost ==
  /\ Booted
  /\ Faulty
  /\ session' = session + 1
  /\ DropNodes({i \in Instances : node[i] = session})
  /\ UNCHANGED <<row, cache, clientVars, proc>>

\* config-service dies and starts again; its old session lives on for a while.
ConfigCrash ==
  /\ Faulty
  /\ session' = session + 1
  /\ proc' = [p \in Procs |-> IF p = Monitor THEN Boot ELSE Idle]
  /\ Reply(Handlers, FALSE)
  /\ Excuse(Abandoned(Handlers))
  /\ UNCHANGED <<node, row, cache, fateVars>>

\* An orderly restart answers what is in flight, deletes its own node and
\* closes the session, and with it every node it owns.
ConfigRestart ==
  /\ Booted
  /\ \A h \in Handlers : proc[h].pc = "idle"
  /\ Faulty
  /\ session' = session + 1
  /\ DropNodes({i \in Instances : node[i] = session} \cup {Self})
  /\ proc' = [proc EXCEPT ![Monitor] = Boot]
  /\ UNCHANGED <<row, cache, clientVars>>

\* The server ends a session whose client died.
SessionExpires(n) ==
  /\ n < session
  /\ \E i \in Instances : node[i] = n
  /\ DropNodes({i \in Instances : node[i] = n})
  /\ UNCHANGED <<session, row, cache, clientVars, proc, faults>>

\* Mutant of Expire: an empty list has no time to live.
ExpireNonEmpty(s) ==
  /\ cache[s] \notin {NoEntry, {}}
  /\ cache' = [cache EXCEPT ![s] = NoEntry]
  /\ excused' = [excused EXCEPT ![s] = FALSE]
  /\ UNCHANGED <<node, session, row, clientVars, proc, faults, fateVars>>

\* Every list is stored with a time to live.
Expire(s) ==
  /\ cache[s] # NoEntry
  /\ cache' = [cache EXCEPT ![s] = NoEntry]
  /\ excused' = [excused EXCEPT ![s] = FALSE]
  /\ UNCHANGED <<node, session, row, clientVars, proc, faults, fateVars>>

-----------------------------------------------------------------------------
Lookup(p) ==
  CacheGet(p) \/ ZkChildren(p) \/ ZkGet(p) \/ CacheSet(p)
    \/ Probe(p) \/ DbStatus(p)

HandlerStep(h) ==
  \/ ZkExists(h) \/ ZkWrite(h) \/ ZkWriteRaises(h) \/ DbSelect(h) \/ DbWrite(h)
  \/ ZkDelete(h) \/ DbUnknown(h) \/ CacheDelete(h)
  \/ Lookup(h)

MonitorStep == BootExists \/ BootWrite \/ MonitorList \/ MonitorNext \/ Lookup(Monitor)

ClientStep(i) ==
  \/ \E h \in Handlers : ClientStart(i, h) \/ ClientStop(i, h)
  \/ ClientTimeout(i) \/ ClientCrash(i)

Next ==
  \/ \E i \in Instances : ClientStep(i)
  \/ \E h \in Handlers : HandlerStep(h)
  \/ \E h \in Handlers, op \in {"DISCOVER", "CHECK"}, s \in Queried : StartLookup(h, op, s)
  \/ MonitorStep
  \/ \E p \in Procs : Fault(p)
  \/ SessionLost \/ ConfigCrash \/ ConfigRestart
  \/ \E n \in 1..MaxFaults : SessionExpires(n)
  \/ \E s \in Services : Expire(s)

Spec == Init /\ [][Next]_vars

\* asyncio runs the handlers and the periodic task, ZooKeeper ends the sessions
\* of the dead and Redis its entries.  Clients and failures owe nothing.
Fairness ==
  /\ \A h \in Handlers : WF_vars(HandlerStep(h))
  /\ WF_vars(MonitorStep)
  /\ \A n \in 1..MaxFaults : WF_vars(SessionExpires(n))
  /\ \A s \in Services : WF_vars(Expire(s))

FairSpec == Spec /\ Fairness
-----------------------------------------------------------------------------
\* Types of all variables.
TypeOK ==
  /\ session \in 1..(MaxFaults + 1)
  /\ node \in [Instances -> 0..session]
  /\ row \in [Services -> Statuses \cup {NoRow}]
  /\ cache \in [Services -> {NoEntry} \cup SUBSET Instances]
  /\ client \in [Instances -> Lives]
  /\ waits \in [Instances -> Handlers \cup {Nobody}]
  /\ proc \in [Procs -> Locals]
  /\ lives \in 0..MaxLives
  /\ faults \in 0..MaxFaults
  /\ excused \in [Services -> BOOLEAN]
  /\ forfeited \in [Instances -> BOOLEAN]
  /\ departed \in [Instances -> BOOLEAN]

\* What register_service answered with an id is in both stores: the service has
\* its row, and the instance its node, as long as no ZooKeeper session ended
\* and no deregistration of a former life of the same id arrived late.
AnsweredIsPersisted ==
  \A i \in Instances : client[i] = "registered" =>
    /\ row[ServiceOf[i]] # NoRow
    /\ node[i] # 0 \/ forfeited[i]

\* A list in Redis that differs from ZooKeeper is about to be deleted by the
\* registration or deregistration that changed it, or it goes back to a fill
\* that raced a change, to a request that failed half-way, or to a session.
Updating(h, s) == proc[h].svc = s /\ proc[h].pc \in Owing

StaleListExplained ==
  \A s \in Services : cache[s] # NoEntry /\ cache[s] # Listed(s) =>
    excused[s] \/ \E h \in Handlers : Updating(h, s)

\* What deregister_service is for: nothing brings a deregistered instance back before
\* it starts again, into ZooKeeper, whatever sessions end and whichever requests of its
\* former lives are still under way, or, but for the stale lists above, into Redis. Only a
\* registration that was already on its way to the node can.
DeregisteredStaysGone ==
  \A i \in Instances : LET s == ServiceOf[i] IN departed[i] =>
    /\ node[i] = 0
    /\ cache[s] # NoEntry /\ i \in cache[s] => excused[s] \/ \E h \in Handlers : Updating(h, s)

\* Whatever went wrong, when instances stop coming and going the lists in Redis
\* end up as ZooKeeper has them.
ListConverges ==
  <>[](\A s \in Services : cache[s] \in {NoEntry, Listed(s)})

\* And the status of every service that has instances ends up telling whether
\* one of them is serving, whatever registrations, deregistrations, checks with
\* old lists and missed probes wrote over each other before.
Health(s) == IF \E i \in Listed(s) : Serving(i) THEN "healthy" ELSE "unhealthy"

HealthConverges ==
  <>[](\A s \in Services :
         row[s] # NoRow /\ Listed(s) # {} => row[s] = Health(s))

\* What the integration guide says of ephemeral nodes: the node of an instance
\* that is down disappears.
CrashedInstancesLeave ==
  \A i \in Instances \ {Self} :
    [](client[i] = "down" => <>(node[i] = 0 \/ client[i] # "down"))

\* What the comment in monitor_all_services says: a service without instances
\* is marked unknown.
EmptyServicesUnknown ==
  \A s \in Services :
    <>[](Listed(s) = {}) => <>[](row[s] \in {NoRow, "unknown"})
=============================================================================
