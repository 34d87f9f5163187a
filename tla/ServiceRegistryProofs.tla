------------------------ MODULE ServiceRegistryProofs ------------------------
(***************************************************************************)
(* Proofs about ServiceRegistry for any instances, services, handlers,     *)
(* starts and failures: its types, what an instance that was given an id   *)
(* by the registry may count on, and where every stale list comes from.    *)
(***************************************************************************)
EXTENDS ServiceRegistry, TLAPS

USE DEF Procs, clientVars, fateVars

-----------------------------------------------------------------------------
\* The inductive form of the types: a process about to look a list up has a
\* service to look up, and there are as many sessions as failures allow.
Named    == \A p \in Procs : proc[p].pc = "cache_get" => proc[p].svc \in Services
TypeInv  == TypeOK /\ Named /\ session <= faults + 1

\* The points at which a process acts for one instance.
Acting == {"boot_exists", "boot_write", "exists", "write", "delete"} \cup Owing

\* A move of one process to well-formed locals.
Advance(p) ==
  /\ proc' = [proc EXCEPT ![p] = proc'[p]]
  /\ proc'[p] \in Locals
  /\ proc'[p].pc = "cache_get" => proc'[p].svc \in Services

\* A move keeps the locals of all processes well formed.
LEMMA AdvanceTyped ==
  ASSUME TypeInv, NEW p \in Procs, Advance(p)
  PROVE  proc' \in [Procs -> Locals] /\ Named'
  BY DEF TypeInv, TypeOK, Named, Advance

\* Fresh locals are well formed and hold what they were given.
LEMMA AtTyped ==
  ASSUME NEW point \in Points, NEW op \in Ops, NEW s \in Services \cup {NoService},
         NEW i \in Instances \cup {NoInstance}
  PROVE  /\ At(point, op, s, i) \in Locals
         /\ At(point, op, s, i).pc = point /\ At(point, op, s, i).op = op
         /\ At(point, op, s, i).svc = s /\ At(point, op, s, i).inst = i
  BY DEF At, Locals

\* The locals of an idle handler are well formed.
LEMMA IdleTyped == Idle \in Locals /\ Idle.pc = "idle"
  BY AtTyped DEF Idle, Points, Ops

\* The locals of config-service's start-up are well formed.
LEMMA BootTyped == Boot \in Locals /\ Boot.pc = "boot_exists"
  BY AtTyped, InstancesAssumption DEF Boot, Points, Ops

\* The ways a process moves on are such moves: to fresh locals,
LEMMA BecomeTyped ==
  ASSUME TypeInv, NEW p \in Procs, NEW new \in Locals, Become(p, new),
         new.pc = "cache_get" => new.svc \in Services
  PROVE  Advance(p) /\ proc'[p] = new
  BY DEF Become, Advance, TypeInv, TypeOK

\* A process that takes up a request has the locals of that request.
LEMMA RequestTyped ==
  ASSUME TypeInv, NEW p \in Procs, NEW point \in Points, NEW op \in Ops,
         NEW s \in Services, NEW i \in Instances \cup {NoInstance},
         Become(p, At(point, op, s, i))
  PROVE  /\ Advance(p)
         /\ proc'[p].pc = point /\ proc'[p].op = op /\ proc'[p].svc = s /\ proc'[p].inst = i
<1> DEFINE new == At(point, op, s, i)
<1>1. new \in Locals /\ new.pc = point /\ new.op = op /\ new.svc = s /\ new.inst = i
  BY AtTyped
<1>2. Become(p, new)
  OBVIOUS
<1> HIDE DEF new
<1> QED
  BY <1>1, <1>2, BecomeTyped

\* to the end of its request or of its work on a service,
LEMMA FinishTyped ==
  ASSUME TypeInv, NEW p \in Procs, Finish(p)
  PROVE  /\ Advance(p)
         /\ p # Monitor => proc'[p] = Idle
         /\ proc'[p].pc \in {"idle", "next"}
<1> DEFINE next == [At("next", "MONITOR", NoService, NoInstance) EXCEPT !.svcs = proc[p].svcs]
<1>1. next \in Locals /\ next.pc = "next"
  <2>1. proc[p].svcs \in SUBSET Services
    BY DEF TypeInv, TypeOK, Locals
  <2> QED
    BY <2>1 DEF At, Locals, Points, Ops
<1> HIDE DEF next
<1> QED
  BY <1>1, IdleTyped, BecomeTyped DEF Finish, next

\* to the next cycle,
LEMMA CycleTyped ==
  ASSUME TypeInv, StartCycle
  PROVE  Advance(Monitor) /\ proc'[Monitor].pc = "list"
<1>1. At("list", "MONITOR", NoService, NoInstance) \in Locals
      /\ At("list", "MONITOR", NoService, NoInstance).pc = "list"
  BY AtTyped DEF Points, Ops
<1> QED
  BY <1>1, BecomeTyped DEF StartCycle

\* to the next await of the same request,
LEMMA MoveTyped ==
  ASSUME TypeInv, NEW p \in Procs, NEW point \in Points \ {"cache_get"}, NEW saw \in BOOLEAN,
         \/ Go(p, point)
         \/ proc' = [proc EXCEPT ![p].pc = point, ![p].saw = saw]
  PROVE  /\ Advance(p)
         /\ proc'[p].pc = point
         /\ proc'[p].op = proc[p].op /\ proc'[p].svc = proc[p].svc /\ proc'[p].inst = proc[p].inst
<1>1. proc \in [Procs -> Locals] /\ proc[p] \in Locals
  BY DEF TypeInv, TypeOK
<1>2. CASE Go(p, point)
  <2> DEFINE new == [proc[p] EXCEPT !.pc = point]
  <2>1. /\ new \in Locals /\ new.pc = point
        /\ new.op = proc[p].op /\ new.svc = proc[p].svc /\ new.inst = proc[p].inst
    BY <1>1 DEF Locals
  <2>2. proc' = [proc EXCEPT ![p] = new]
    BY <1>2 DEF Go
  <2> HIDE DEF new
  <2> QED
    BY <1>1, <2>1, <2>2 DEF Advance
<1>3. CASE proc' = [proc EXCEPT ![p].pc = point, ![p].saw = saw]
  <2> DEFINE new == [proc[p] EXCEPT !.pc = point, !.saw = saw]
  <2>1. /\ new \in Locals /\ new.pc = point
        /\ new.op = proc[p].op /\ new.svc = proc[p].svc /\ new.inst = proc[p].inst
    BY <1>1 DEF Locals
  <2>2. proc' = [proc EXCEPT ![p] = new]
    BY <1>3
  <2> HIDE DEF new
  <2> QED
    BY <1>1, <2>1, <2>2 DEF Advance
<1> QED
  BY <1>2, <1>3

\* and to the use of a list it has just read or got from Redis.
LEMMA UseTyped ==
  ASSUME TypeInv, NEW p \in Procs, NEW list \in SUBSET Instances, Use(p, list)
  PROVE  Advance(p) /\ proc'[p].pc \in {"idle", "next", "probe"}
<1>1. CASE Finish(p)
  BY <1>1, FinishTyped
<1>2. CASE proc' = [proc EXCEPT ![p].pc = "probe", ![p].list = list, ![p].todo = list, ![p].ok = FALSE]
  <2> DEFINE new == [proc[p] EXCEPT !.pc = "probe", !.list = list, !.todo = list, !.ok = FALSE]
  <2>1. proc \in [Procs -> Locals] /\ proc[p] \in Locals
    BY DEF TypeInv, TypeOK
  <2>2. new \in Locals /\ new.pc = "probe"
    BY <2>1 DEF Locals, Points
  <2>3. proc' = [proc EXCEPT ![p] = new]
    BY <1>2
  <2> HIDE DEF new
  <2> QED
    BY <2>1, <2>2, <2>3 DEF Advance
<1> QED
  BY <1>1, <1>2 DEF Use

\* An answer keeps the types of what it changes.
LEMMA ReplyTyped ==
  ASSUME TypeInv, NEW answering, NEW success, Reply(answering, success)
  PROVE  /\ client' \in [Instances -> Lives]
         /\ waits' \in [Instances -> Handlers \cup {Nobody}]
         /\ lives' \in 0..MaxLives
  BY DEF Reply, TypeInv, TypeOK, Lives, AfterAnswer, AfterNoAnswer

\* Excusing services keeps the type of excused.
LEMMA ExcuseTyped ==
  ASSUME TypeInv, NEW svcs, Excuse(svcs)
  PROVE  excused' \in [Services -> BOOLEAN]
  BY Zenon DEF Excuse, TypeInv, TypeOK

\* The end of a session keeps the types of what it changes.
LEMMA DropTyped ==
  ASSUME TypeInv, NEW gone, DropNodes(gone), session' \in Nat, session <= session'
  PROVE  /\ node' \in [Instances -> 0..session']
         /\ excused' \in [Services -> BOOLEAN]
         /\ forfeited' \in [Instances -> BOOLEAN] /\ departed' \in [Instances -> BOOLEAN]
  BY DEF DropNodes, TypeInv, TypeOK

-----------------------------------------------------------------------------
\* Every step of a lookup or check is such a move,
LEMMA LookupMoves ==
  ASSUME TypeInv, NEW p \in Procs, Lookup(p)
  PROVE  Advance(p) /\ proc'[p].pc \notin Acting
<1>t. /\ proc \in [Procs -> Locals] /\ proc[p] \in Locals
      /\ cache \in [Services -> {NoEntry} \cup SUBSET Instances]
  BY DEF TypeInv, TypeOK
<1>1. CASE CacheGet(p)
  <2>1. CASE Go(p, "children")
    <3>1. Advance(p) /\ proc'[p].pc = "children"
      BY <2>1, MoveTyped DEF Points
    <3> QED
      BY <3>1 DEF Acting, Owing
  <2>2. CASE cache[proc[p].svc] # NoEntry /\ Use(p, cache[proc[p].svc])
    <3>1. cache[proc[p].svc] \in SUBSET Instances
      BY <1>1, <1>t, <2>2 DEF CacheGet, TypeInv, Named
    <3> QED
      BY <2>2, <3>1, UseTyped DEF Acting, Owing
  <2> QED
    BY <1>1, <2>1, <2>2 DEF CacheGet
<1>2. CASE CacheSet(p)
  <2>1. proc[p].list \in SUBSET Instances
    BY <1>t DEF Locals
  <2> QED
    BY <1>2, <2>1, UseTyped DEF CacheSet, Acting, Owing
<1>3. CASE ZkChildren(p) \/ ZkGet(p)
  <2>1. CASE Finish(p)
    BY <2>1, FinishTyped DEF Acting, Owing
  <2>2. CASE ZkChildren(p)
    <3> DEFINE new == [proc[p] EXCEPT !.pc = "get", !.todo = Listed(proc[p].svc), !.list = {}]
    <3>a. Listed(proc[p].svc) \in SUBSET Instances /\ proc[p] \in Locals
      BY <1>t DEF Listed
    <3>1. new \in Locals /\ new.pc = "get"
      BY <3>a DEF Locals, Points
    <3>2. proc' = [proc EXCEPT ![p] = new]
      BY <2>2 DEF ZkChildren
    <3> HIDE DEF new
    <3> QED
      BY <1>t, <3>1, <3>2 DEF Advance, Acting, Owing
  <2>3. ASSUME proc[p].pc = "get", NEW i \in proc[p].todo,
               proc' = [proc EXCEPT ![p].todo = @ \ {i}, ![p].list = @ \cup {i}]
        PROVE  Advance(p) /\ proc'[p].pc \notin Acting
    <3> DEFINE new == [proc[p] EXCEPT !.todo = @ \ {i}, !.list = @ \cup {i}]
    <3>a. /\ proc[p] \in Locals
          /\ proc[p].todo \ {i} \in SUBSET Instances
          /\ proc[p].list \cup {i} \in SUBSET Instances
      BY <1>t, <2>3 DEF Locals
    <3>1. new \in Locals /\ new.pc = "get"
      BY <2>3, <3>a DEF Locals
    <3>2. proc' = [proc EXCEPT ![p] = new]
      BY <2>3
    <3> HIDE DEF new
    <3> QED
      BY <1>t, <3>1, <3>2 DEF Advance, Acting, Owing
  <2> QED
    BY <1>3, <2>1, <2>2, <2>3 DEF ZkGet
<1>4. CASE Probe(p)
  <2>1. PICK i \in proc[p].todo :
          \/ proc' = [proc EXCEPT ![p].todo = @ \ {i}, ![p].ok = @ \/ Serving(i)]
          \/ proc' = [proc EXCEPT ![p].todo = @ \ {i}]
    BY <1>4 DEF Probe
  <2>2. CASE proc' = [proc EXCEPT ![p].todo = @ \ {i}, ![p].ok = @ \/ Serving(i)]
    <3>1. PICK ok \in BOOLEAN : ok = (proc[p].ok \/ Serving(i))
      OBVIOUS
    <3> DEFINE new == [proc[p] EXCEPT !.todo = @ \ {i}, !.ok = ok]
    <3>2. proc[p] \in Locals /\ proc[p].pc = "probe" /\ proc[p].todo \ {i} \in SUBSET Instances
      BY <1>t, <1>4 DEF Probe, Locals
    <3>4. new \in Locals /\ new.pc = "probe"
      BY <3>1, <3>2 DEF Locals
    <3>3. proc' = [proc EXCEPT ![p] = new]
      BY <2>2, <3>1
    <3> HIDE DEF new
    <3> QED
      BY <1>t, <3>3, <3>4 DEF Advance, Acting, Owing
  <2>3. CASE proc' = [proc EXCEPT ![p].todo = @ \ {i}]
    <3> DEFINE new == [proc[p] EXCEPT !.todo = @ \ {i}]
    <3>1. new \in Locals /\ new.pc = "probe"
      BY <1>t, <1>4 DEF Probe, Locals
    <3>2. proc' = [proc EXCEPT ![p] = new]
      BY <2>3
    <3> HIDE DEF new
    <3> QED
      BY <1>t, <3>1, <3>2 DEF Advance, Acting, Owing
  <2> QED
    BY <2>1, <2>2, <2>3
<1>5. CASE DbStatus(p)
  BY <1>5, FinishTyped DEF DbStatus, Acting, Owing
<1> QED
  BY <1>1, <1>2, <1>3, <1>4, <1>5 DEF Lookup

\* and so is every other step of the startup code and the periodic task.
LEMMA MonitorMoves ==
  ASSUME TypeInv, BootExists \/ BootWrite \/ MonitorList \/ MonitorNext
  PROVE  Advance(Monitor) /\ (proc'[Monitor].pc \notin Acting \/ BootExists)
<1>t. proc \in [Procs -> Locals] /\ Monitor \in Procs /\ proc[Monitor] \in Locals
  BY DEF TypeInv, TypeOK
<1>1. CASE MonitorList
  <2> DEFINE new == [At("next", "MONITOR", NoService, NoInstance) EXCEPT
                       !.svcs = {s \in Services : row[s] # NoRow}]
  <2>1. new \in Locals /\ new.pc = "next"
    BY DEF At, Locals, Points, Ops
  <2>2. proc' = [proc EXCEPT ![Monitor] = new]
    BY <1>1 DEF MonitorList
  <2> HIDE DEF new
  <2> QED
    BY <1>t, <2>1, <2>2 DEF Advance, Acting, Owing
<1>2. CASE MonitorNext
  <2>1. ASSUME NEW s \in proc[Monitor].svcs,
               proc' = [proc EXCEPT ![Monitor] =
                 [At("cache_get", "MONITOR", s, NoInstance) EXCEPT !.svcs = proc[Monitor].svcs \ {s}]]
        PROVE  Advance(Monitor) /\ (proc'[Monitor].pc \notin Acting \/ BootExists)
    <3> DEFINE new == [At("cache_get", "MONITOR", s, NoInstance) EXCEPT
                         !.svcs = proc[Monitor].svcs \ {s}]
    <3>1. s \in Services /\ proc[Monitor].svcs \in SUBSET Services
      BY <1>t, <2>1 DEF Locals
    <3>2. new \in Locals /\ new.svc = s /\ new.pc = "cache_get"
      BY <3>1 DEF At, Locals, Points, Ops
    <3> HIDE DEF new
    <3>3. proc' = [proc EXCEPT ![Monitor] = new]
      BY <2>1 DEF new
    <3> QED
      BY <1>t, <3>1, <3>2, <3>3 DEF Advance, Acting, Owing
  <2> QED
    BY <1>2, <2>1, CycleTyped DEF MonitorNext, Acting, Owing
<1>3. CASE BootExists
  BY <1>3, <1>t, MoveTyped DEF BootExists, Points
<1>4. CASE BootWrite
  BY <1>4, CycleTyped DEF BootWrite, Acting, Owing
<1> QED
  BY <1>1, <1>2, <1>3, <1>4

-----------------------------------------------------------------------------
\* config-service starts with an empty registry, booting.
LEMMA TypeInit == Init => TypeInv
<1> SUFFICES ASSUME Init PROVE TypeInv
  OBVIOUS
<1>1. proc \in [Procs -> Locals] /\ Named
  BY IdleTyped, BootTyped DEF Init, Named
<1> QED
  BY <1>1, BoundsAssumption DEF Init, TypeInv, TypeOK, Lives

\* Every step keeps the types.
LEMMA TypeStep == TypeInv /\ [Next]_vars => TypeInv'
<1> SUFFICES ASSUME TypeInv, [Next]_vars PROVE TypeInv'
  OBVIOUS
<1> USE BoundsAssumption DEF TypeInv
<1>t. /\ proc \in [Procs -> Locals] /\ row \in [Services -> Statuses \cup {NoRow}]
      /\ cache \in [Services -> {NoEntry} \cup SUBSET Instances]
      /\ Monitor \in Procs /\ Handlers \subseteq Procs
      /\ \A p \in Procs : proc[p] \in Locals
  BY DEF TypeOK
<1>1. ASSUME NEW i \in Instances, NEW h \in Handlers, ClientStart(i, h)
      PROVE  TypeInv'
  <2>1. proc' \in [Procs -> Locals] /\ Named'
    <3>1. CASE Become(h, At("exists", "REGISTER", ServiceOf[i], i))
      <4>1. ServiceOf[i] \in Services /\ h \in Procs
        BY InstancesAssumption
      <4>2. Advance(h)
        BY <3>1, <4>1, RequestTyped DEF Points, Ops
      <4> QED
        BY <4>1, <4>2, AdvanceTyped
    <3>2. CASE UNCHANGED proc
      BY <3>2, <1>t DEF Named
    <3> QED
      BY <1>1, <3>1, <3>2 DEF ClientStart
  <2> QED
    BY <1>1, <2>1 DEF ClientStart, TypeOK, Lives
<1>2. ASSUME NEW i \in Instances, NEW h \in Handlers, ClientStop(i, h)
      PROVE  TypeInv'
  <2>1. proc' \in [Procs -> Locals] /\ Named'
    <3>1. CASE Become(h, At("delete", "DEREGISTER", ServiceOf[i], i))
      <4>1. ServiceOf[i] \in Services /\ h \in Procs
        BY InstancesAssumption
      <4>2. Advance(h)
        BY <3>1, <4>1, RequestTyped DEF Points, Ops
      <4> QED
        BY <4>1, <4>2, AdvanceTyped
    <3>2. CASE UNCHANGED proc
      BY <3>2, <1>t DEF Named
    <3> QED
      BY <1>2, <3>1, <3>2 DEF ClientStop
  <2> QED
    BY <1>2, <2>1 DEF ClientStop, Hung, TypeOK, Lives
<1>3. ASSUME NEW i \in Instances, ClientTimeout(i) \/ ClientCrash(i)
      PROVE  TypeInv'
  <2>1. client' \in [Instances -> Lives]
    BY <1>3 DEF ClientTimeout, ClientCrash, Hung, TypeOK, Lives, AfterNoAnswer
  <2> QED
    BY <1>3, <2>1 DEF ClientTimeout, ClientCrash, Hung, TypeOK, Named
<1>4. ASSUME NEW h \in Handlers, ZkExists(h) \/ DbSelect(h)
      PROVE  TypeInv'
  <2>1. proc' \in [Procs -> Locals] /\ Named'
    BY <1>4, <1>t, MoveTyped, AdvanceTyped DEF ZkExists, DbSelect, Points
  <2> QED
    BY <1>4, <2>1 DEF ZkExists, DbSelect, TypeOK
<1>5. ASSUME NEW h \in Handlers, ZkWrite(h)
      PROVE  TypeInv'
  <2>1. proc' \in [Procs -> Locals] /\ Named'
    BY <1>5, <1>t, MoveTyped, AdvanceTyped DEF ZkWrite, Points
  <2> QED
    BY <1>5, <2>1 DEF ZkWrite, Written, TypeOK
<1>6. ASSUME NEW h \in Handlers, ZkWriteRaises(h)
      PROVE  TypeInv'
  BY <1>6, <1>t, FinishTyped, AdvanceTyped, ReplyTyped DEF ZkWriteRaises, TypeOK
<1>7. ASSUME NEW h \in Handlers, DbWrite(h)
      PROVE  TypeInv'
  <2>1. CASE proc' = [proc EXCEPT ![h].pc = "cache_delete", ![h].saw = FALSE] /\ UNCHANGED clientVars
    <3>1. proc' \in [Procs -> Locals] /\ Named'
      BY <1>t, <2>1, MoveTyped, AdvanceTyped DEF Points
    <3> QED
      BY <1>7, <2>1, <3>1 DEF DbWrite, TypeOK, Statuses
  <2>2. CASE Finish(h) /\ Reply({h}, FALSE)
    BY <1>7, <1>t, <2>2, FinishTyped, AdvanceTyped, ReplyTyped DEF DbWrite, TypeOK, Statuses
  <2> QED
    BY <1>7, <2>1, <2>2 DEF DbWrite
<1>8. ASSUME NEW h \in Handlers, ZkDelete(h) \/ DbUnknown(h)
      PROVE  TypeInv'
  <2>1. proc' \in [Procs -> Locals] /\ Named'
    BY <1>8, <1>t, MoveTyped, AdvanceTyped DEF ZkDelete, Deleted, DbUnknown, Points
  <2>2. CASE ZkDelete(h)
    <3>1. node' \in [Instances -> 0..session]
      <4>1. node \in [Instances -> 0..session] /\ 0 \in 0..session
        BY DEF TypeOK
      <4>2. node' = [node EXCEPT ![proc[h].inst] = 0]
        BY <2>2 DEF ZkDelete
      <4> QED
        BY <4>1, <4>2, Zenon
    <3>2. forfeited' \in [Instances -> BOOLEAN] /\ departed' \in [Instances -> BOOLEAN]
      BY <2>2, Zenon DEF ZkDelete, Deleted, TypeOK
    <3> QED
      BY <2>1, <2>2, <3>1, <3>2 DEF ZkDelete, Deleted, TypeOK
  <2>3. CASE DbUnknown(h)
    <3>1. row' \in [Services -> Statuses \cup {NoRow}]
      BY <1>t, <2>3 DEF DbUnknown, Statuses
    <3> QED
      BY <2>1, <2>3, <3>1 DEF DbUnknown, TypeOK
  <2> QED
    BY <1>8, <2>2, <2>3
<1>9. ASSUME NEW h \in Handlers, CacheDelete(h)
      PROVE  TypeInv'
  BY <1>9, <1>t, FinishTyped, AdvanceTyped, ReplyTyped DEF CacheDelete, TypeOK
<1>10. ASSUME NEW h \in Handlers, NEW op \in {"DISCOVER", "CHECK"}, NEW s \in Queried,
              StartLookup(h, op, s)
       PROVE  TypeInv'
  <2>1. proc' \in [Procs -> Locals] /\ Named'
    <3>1. s \in Services /\ h \in Procs /\ op \in Ops /\ "cache_get" \in Points
      BY <1>10, InstancesAssumption DEF Ops, Points
    <3>2. Advance(h)
      BY <1>10, <3>1, RequestTyped DEF StartLookup
    <3> QED
      BY <3>1, <3>2, AdvanceTyped
  <2> QED
    BY <1>10, <2>1 DEF StartLookup, TypeOK
<1>11. ASSUME NEW p \in Procs, Lookup(p)
       PROVE  TypeInv'
  <2>1. proc' \in [Procs -> Locals] /\ Named'
    BY <1>11, LookupMoves, AdvanceTyped
  <2>2. CASE CacheGet(p) \/ ZkChildren(p) \/ ZkGet(p)
    BY <2>1, <2>2 DEF CacheGet, ZkChildren, ZkGet, TypeOK
  <2>3. CASE CacheSet(p)
    <3>1. proc[p].list \in SUBSET Instances
      BY <1>t DEF Locals
    <3> QED
      BY <2>1, <2>3, <3>1 DEF CacheSet, TypeOK
  <2>4. CASE Probe(p)
    BY <2>1, <2>4 DEF Probe, TypeOK
  <2>5. CASE DbStatus(p)
    <3>1. Overall(p) \in Statuses
      BY DEF Overall, Statuses
    <3> QED
      BY <2>1, <2>5, <3>1 DEF DbStatus, TypeOK
  <2> QED
    BY <1>11, <2>2, <2>3, <2>4, <2>5 DEF Lookup
<1>12. CASE BootExists \/ MonitorList \/ MonitorNext
  BY <1>12, <1>t, MonitorMoves, AdvanceTyped DEF BootExists, MonitorList, MonitorNext, TypeOK
<1>13. CASE BootWrite
  <2>1. node' \in [Instances -> 0..session]
    BY <1>13 DEF BootWrite, Written, TypeOK
  <2> QED
    BY <1>13, <1>t, <2>1, MonitorMoves, AdvanceTyped DEF BootWrite, TypeOK
<1>14. ASSUME NEW p \in Procs, Fault(p)
       PROVE  TypeInv'
  <2>1. Advance(p)
    <3>1. CASE Finish(p)
      BY <3>1, FinishTyped
    <3>2. CASE p = Monitor /\ StartCycle
      BY <3>2, CycleTyped
    <3> QED
      BY <1>14, <3>1, <3>2 DEF Fault
  <2>2. proc' \in [Procs -> Locals] /\ Named'
    BY <2>1, AdvanceTyped
  <2>3. /\ client' \in [Instances -> Lives]
        /\ waits' \in [Instances -> Handlers \cup {Nobody}]
        /\ lives' \in 0..MaxLives
    BY <1>14, ReplyTyped DEF Fault
  <2>4. excused' \in [Services -> BOOLEAN]
    BY <1>14, ExcuseTyped DEF Fault
  <2>5. faults' \in 0..MaxFaults /\ faults' = faults + 1
    BY <1>14 DEF Fault, Faulty, TypeOK
  <2> QED
    BY <1>14, <2>2, <2>3, <2>4, <2>5 DEF Fault, TypeOK
<1>15. CASE SessionLost
  <2>1. session' \in 1..(MaxFaults + 1) /\ session' <= faults' + 1 /\ faults' \in 0..MaxFaults
    BY <1>15 DEF SessionLost, Faulty, TypeOK
  <2>2. session' \in Nat /\ session <= session'
    BY <1>15 DEF SessionLost, TypeOK
  <2>3. /\ node' \in [Instances -> 0..session']
        /\ excused' \in [Services -> BOOLEAN]
        /\ forfeited' \in [Instances -> BOOLEAN] /\ departed' \in [Instances -> BOOLEAN]
    BY <1>15, <2>2, DropTyped DEF SessionLost
  <2> QED
    BY <1>15, <2>1, <2>2, <2>3 DEF SessionLost, TypeOK, Named
<1>16. CASE ConfigCrash
  <2>1. session' \in 1..(MaxFaults + 1) /\ session' <= faults' + 1 /\ faults' \in 0..MaxFaults
    BY <1>16 DEF ConfigCrash, Faulty, TypeOK
  <2>2. proc' \in [Procs -> Locals] /\ Named'
    BY <1>16, IdleTyped, BootTyped DEF ConfigCrash, Named
  <2>3. /\ client' \in [Instances -> Lives]
        /\ waits' \in [Instances -> Handlers \cup {Nobody}]
        /\ lives' \in 0..MaxLives
    BY <1>16, ReplyTyped DEF ConfigCrash
  <2>4. excused' \in [Services -> BOOLEAN]
    BY <1>16, ExcuseTyped DEF ConfigCrash
  <2>5. node' \in [Instances -> 0..session']
    BY <1>16 DEF ConfigCrash, TypeOK
  <2> QED
    BY <1>16, <2>1, <2>2, <2>3, <2>4, <2>5 DEF ConfigCrash, TypeOK
<1>17. CASE ConfigRestart
  <2>1. session' \in 1..(MaxFaults + 1) /\ session' <= faults' + 1 /\ faults' \in 0..MaxFaults
    BY <1>17 DEF ConfigRestart, Faulty, TypeOK
  <2>2. proc' \in [Procs -> Locals] /\ Named'
    BY <1>17, <1>t, BootTyped DEF ConfigRestart, Named
  <2>3. session' \in Nat /\ session <= session'
    BY <1>17 DEF ConfigRestart, TypeOK
  <2>4. /\ node' \in [Instances -> 0..session']
        /\ excused' \in [Services -> BOOLEAN]
        /\ forfeited' \in [Instances -> BOOLEAN] /\ departed' \in [Instances -> BOOLEAN]
    BY <1>17, <2>3, DropTyped DEF ConfigRestart
  <2> QED
    BY <1>17, <2>1, <2>2, <2>3, <2>4 DEF ConfigRestart, TypeOK
<1>18. ASSUME NEW n, SessionExpires(n)
       PROVE  TypeInv'
  BY <1>18, DropTyped DEF SessionExpires, TypeOK, Named
<1>19. ASSUME NEW s \in Services, Expire(s)
       PROVE  TypeInv'
  BY <1>19 DEF Expire, TypeOK, Named
<1>20. CASE UNCHANGED vars
  BY <1>20 DEF vars, TypeOK, Named
<1> QED
  BY <1>1, <1>2, <1>3, <1>4, <1>5, <1>6, <1>7, <1>8, <1>9, <1>10, <1>11, <1>12, <1>13,
     <1>14, <1>15, <1>16, <1>17, <1>18, <1>19, <1>20
     DEF Next, ClientStep, HandlerStep, MonitorStep

\* Types of all variables, for any instances, services, handlers and bounds.
THEOREM RegistryTypes == Spec => []TypeOK
<1>1. Init => TypeInv
  BY TypeInit
<1>2. TypeInv /\ [Next]_vars => TypeInv'
  BY TypeStep
<1>3. TypeInv => TypeOK
  BY DEF TypeInv
<1> QED
  BY <1>1, <1>2, <1>3, PTL DEF Spec

-----------------------------------------------------------------------------
\* What a registration has secured by the time it stands at each await; the
\* answer turns what the last await knows into what the instance counts on.
HasRow(i)  == row[ServiceOf[i]] # NoRow
HasNode(i) == node[i] # 0 \/ forfeited[i]

Served(i) ==
  LET h == waits[i] IN
  /\ client[i] \in {"starting", "leaving"} <=> h # Nobody
  /\ client[i] = "starting" =>
       /\ proc[h].inst = i /\ proc[h].svc = ServiceOf[i]
       /\ proc[h].pc \in {"exists", "write", "db_select", "db_write", "cache_delete"}
       /\ proc[h].pc \in {"db_select", "db_write", "cache_delete"} => HasNode(i)
       /\ proc[h].pc = "cache_delete" => HasRow(i)
  /\ client[i] = "leaving" => proc[h].pc \in {"delete", "db_unknown", "cache_delete"}
  /\ client[i] = "registered" => HasRow(i) /\ HasNode(i)

\* What a step owes the instances it is not about: rows are never deleted, and
\* a node that goes is forfeited, unless its own instance asked for that.
Kept(i) == (HasRow(i) => HasRow(i)') /\ (client[i] # "leaving" /\ HasNode(i) => HasNode(i)')

\* A step that leaves alone an instance and the handler it awaits.
LEMMA Undisturbed ==
  ASSUME NEW i \in Instances, Served(i), Kept(i),
         client'[i] = client[i], waits'[i] = waits[i],
         waits[i] # Nobody => proc'[waits[i]] = proc[waits[i]]
  PROVE  Served(i)'
  BY DEF Served, Kept, HasRow, HasNode

\* The handler an instance awaits stands still while another process moves.
LEMMA OthersMove ==
  ASSUME TypeInv, NEW i \in Instances, NEW p \in Procs, Advance(p), waits[i] # p
  PROVE  waits[i] # Nobody => proc'[waits[i]] = proc[waits[i]]
<1>1. waits[i] \in Handlers \cup {Nobody} /\ proc \in [Procs -> Locals]
  BY DEF TypeInv, TypeOK
<1> QED
  BY <1>1 DEF Advance

\* An instance awaits no process that stands elsewhere.
LEMMA Elsewhere ==
  ASSUME TypeInv, NEW i \in Instances, Served(i), NEW p \in Procs, 
         p = Monitor \/ proc[p].pc \in {"idle", "cache_get", "children", "get", "probe"}
  PROVE  waits[i] # p
<1>1. waits[i] \in Handlers \cup {Nobody} /\ client[i] \in Lives
  BY DEF TypeInv, TypeOK
<1> QED
  BY <1>1, SentinelsAssumption DEF Served, Lives

\* So a move from there disturbs nobody.
LEMMA MoveElsewhere ==
  ASSUME TypeInv, NEW i \in Instances, Served(i), Kept(i), NEW p \in Procs, Advance(p),
         p = Monitor \/ proc[p].pc \in {"idle", "cache_get", "children", "get", "probe"},
         UNCHANGED clientVars
  PROVE  Served(i)'
<1>1. client'[i] = client[i] /\ waits'[i] = waits[i]
  OBVIOUS
<1> QED
  BY <1>1, Elsewhere, OthersMove, Undisturbed

\* An answer leaves an instance that counts on no more than it was promised.
LEMMA Answered ==
  ASSUME TypeInv, NEW i \in Instances, Served(i), Kept(i), NEW p \in Procs, Advance(p),
         NEW success \in BOOLEAN, Reply({p}, success),
         success => proc[p].pc = "cache_delete"
  PROVE  Served(i)'
<1>1. waits[i] \in Handlers \cup {Nobody} /\ client[i] \in Lives
  BY DEF TypeInv, TypeOK
<1>2. CASE waits[i] = p
  <2>1. /\ waits'[i] = Nobody
        /\ client'[i] = IF success THEN AfterAnswer(client[i]) ELSE AfterNoAnswer(client[i])
    BY <1>2 DEF Reply
  <2>2. client'[i] \notin {"starting", "leaving"}
    BY <1>1, <2>1 DEF AfterAnswer, AfterNoAnswer, Lives
  <2>3. client'[i] = "registered" => client[i] = "registered" \/ (success /\ client[i] = "starting")
    BY <1>1, <2>1 DEF AfterAnswer, AfterNoAnswer, Lives
  <2>4. client'[i] = "registered" => HasRow(i)' /\ HasNode(i)'
    BY <1>2, <2>3 DEF Served, Kept
  <2> QED
    BY <2>1, <2>2, <2>4 DEF Served
<1>3. CASE waits[i] # p
  <2>1. client'[i] = client[i] /\ waits'[i] = waits[i]
    BY <1>3 DEF Reply
  <2> QED
    BY <1>3, <2>1, OthersMove, Undisturbed
<1> QED
  BY <1>2, <1>3

-----------------------------------------------------------------------------
\* Before anything is registered, nobody counts on anything.
LEMMA ServedInit == Init => \A i \in Instances : Served(i)
  BY DEF Init, Served

\* Every step serves every instance.
LEMMA ServedStep ==
  ASSUME TypeInv, [Next]_vars, NEW i \in Instances, Served(i)
  PROVE  Served(i)'
<1>t. /\ proc \in [Procs -> Locals] /\ \A p \in Procs : proc[p] \in Locals
      /\ Monitor \in Procs /\ Handlers \subseteq Procs
      /\ waits[i] \in Handlers \cup {Nobody} /\ client[i] \in Lives
      /\ ServiceOf[i] \in Services
      /\ node \in [Instances -> 0..session] /\ session \in Nat \ {0}
      /\ row \in [Services -> Statuses \cup {NoRow}]
      /\ client \in [Instances -> Lives] /\ waits \in [Instances -> Handlers \cup {Nobody}]
      /\ forfeited \in [Instances -> BOOLEAN]
  BY InstancesAssumption, BoundsAssumption DEF TypeInv, TypeOK
<1>k. UNCHANGED <<node, row, forfeited>> => Kept(i)
  BY DEF Kept, HasRow, HasNode
<1>1. ASSUME NEW j \in Instances, NEW h \in Handlers, ClientStart(j, h)
      PROVE  Served(i)'
  <2>1. CASE j = i
    <3>1. CASE Booted
      <4>1. client'[i] = "starting" /\ waits'[i] = h
        BY <1>1, <1>t, <2>1, <3>1 DEF ClientStart
      <4>2. /\ proc'[h].pc = "exists" /\ proc'[h].inst = i /\ proc'[h].svc = ServiceOf[i]
        BY <1>1, <1>t, <2>1, <3>1, RequestTyped DEF ClientStart, Points, Ops
      <4> QED
        BY <4>1, <4>2, SentinelsAssumption DEF Served
    <3>2. CASE ~Booted
      <4>1. client'[i] = "anonymous" /\ waits'[i] = waits[i] /\ client[i] = "down"
        BY <1>1, <1>t, <2>1, <3>2 DEF ClientStart
      <4> QED
        BY <4>1 DEF Served
    <3> QED
      BY <3>1, <3>2
  <2>2. CASE j # i
    <3>1. client'[i] = client[i] /\ waits'[i] = waits[i] /\ Kept(i)
      BY <1>1, <1>t, <2>2 DEF ClientStart, Kept, HasRow, HasNode
    <3>2. CASE Become(h, At("exists", "REGISTER", ServiceOf[j], j)) /\ proc[h].pc = "idle"
      <4>1. Advance(h) /\ waits[i] # h
        BY <1>t, <3>2, InstancesAssumption, RequestTyped, Elsewhere DEF Points, Ops
      <4> QED
        BY <1>t, <3>1, <4>1, OthersMove, Undisturbed
    <3>3. CASE UNCHANGED proc
      BY <3>1, <3>3, Undisturbed
    <3> QED
      BY <1>1, <3>2, <3>3 DEF ClientStart
  <2> QED
    BY <2>1, <2>2
<1>2. ASSUME NEW j \in Instances, NEW h \in Handlers, ClientStop(j, h)
      PROVE  Served(i)'
  <2>k. Kept(i)
    BY <1>2, <1>k DEF ClientStop
  <2>1. CASE Hung(j, "down") /\ UNCHANGED proc
    <3>1. CASE j = i
      BY <1>t, <2>1, <3>1 DEF Hung, Served
    <3>2. CASE j # i
      BY <1>t, <2>1, <2>k, <3>2, Undisturbed DEF Hung
    <3> QED
      BY <3>1, <3>2
  <2>2. CASE /\ proc[h].pc = "idle"
             /\ client' = [client EXCEPT ![j] = "leaving"]
             /\ waits' = [waits EXCEPT ![j] = h]
             /\ Become(h, At("delete", "DEREGISTER", ServiceOf[j], j))
    <3>1. Advance(h) /\ waits[i] # h /\ proc'[h].pc = "delete"
      <4>1. waits[i] # h
        BY <1>t, <2>2, Elsewhere
      <4>2. ServiceOf[j] \in Services /\ "delete" \in Points /\ "DEREGISTER" \in Ops
        BY InstancesAssumption DEF Points, Ops
      <4> QED
        BY <1>t, <2>2, <4>1, <4>2, RequestTyped
    <3>2. CASE j = i
      BY <1>t, <2>2, <3>1, <3>2, SentinelsAssumption DEF Served
    <3>3. CASE j # i
      BY <1>t, <2>2, <2>k, <3>1, <3>3, OthersMove, Undisturbed
    <3> QED
      BY <3>2, <3>3
  <2> QED
    BY <1>2, <2>1, <2>2 DEF ClientStop
<1>3. ASSUME NEW j \in Instances, NEW state, Hung(j, state), UNCHANGED <<proc, node, row, forfeited>>,
             state \notin {"starting", "leaving", "registered"}
      PROVE  Served(i)'
  <2>1. CASE j = i
    BY <1>t, <1>3, <2>1 DEF Hung, Served
  <2>2. CASE j # i
    BY <1>t, <1>3, <1>k, <2>2, Undisturbed DEF Hung
  <2> QED
    BY <2>1, <2>2
<1>4. ASSUME NEW j \in Instances, ClientTimeout(j) \/ ClientCrash(j), j = i
      PROVE  Served(i)'
  <2>1. CASE ClientTimeout(j)
    <3>1. AfterNoAnswer(client[i]) \in {"anonymous", "down"}
      BY <1>4, <2>1 DEF ClientTimeout, Served, AfterNoAnswer
    <3> QED
      BY <1>3, <1>4, <2>1, <3>1 DEF ClientTimeout
  <2>2. CASE ClientCrash(j)
    BY <1>3, <2>2 DEF ClientCrash
  <2> QED
    BY <1>4, <2>1, <2>2
<1>5. ASSUME NEW j \in Instances, ClientTimeout(j) \/ ClientCrash(j), j # i
      PROVE  Served(i)'
  BY <1>t, <1>5, <1>k, Undisturbed DEF ClientTimeout, ClientCrash, Hung
<1>6. ASSUME NEW h \in Handlers, NEW point \in Points \ {"cache_get"}, NEW saw \in BOOLEAN,
             \/ Go(h, point)
             \/ proc' = [proc EXCEPT ![h].pc = point, ![h].saw = saw],
             UNCHANGED clientVars, Kept(i),
             waits[i] = h /\ client[i] = "starting" =>
               /\ point \in {"exists", "write", "db_select", "db_write", "cache_delete"}
               /\ point \in {"db_select", "db_write", "cache_delete"} => HasNode(i)'
               /\ point = "cache_delete" => HasRow(i)',
             waits[i] = h /\ client[i] = "leaving" =>
               point \in {"delete", "db_unknown", "cache_delete"}
      PROVE  Served(i)'
  <2>1. /\ Advance(h) /\ proc'[h].pc = point
        /\ proc'[h].svc = proc[h].svc /\ proc'[h].inst = proc[h].inst
    BY <1>t, <1>6, MoveTyped
  <2>2. client'[i] = client[i] /\ waits'[i] = waits[i]
    BY <1>6
  <2>3. CASE waits[i] # h
    BY <1>t, <1>6, <2>1, <2>2, <2>3, OthersMove, Undisturbed
  <2>4. CASE waits[i] = h
    BY <1>6, <2>1, <2>2, <2>4, SentinelsAssumption DEF Served, Kept
  <2> QED
    BY <2>3, <2>4
<1>7. ASSUME NEW h \in Handlers, ZkExists(h)
      PROVE  Served(i)'
  <2>1. /\ "write" \in Points \ {"cache_get"} /\ (node[proc[h].inst] # 0) \in BOOLEAN
        /\ Kept(i) /\ UNCHANGED clientVars
        /\ waits[i] = h => client[i] # "leaving"
    BY <1>7, <1>k DEF ZkExists, Points, Served
  <2> QED
    BY <1>6, <1>7, <2>1 DEF ZkExists
<1>8. ASSUME NEW h \in Handlers, ZkWrite(h)
      PROVE  Served(i)'
  <2>1. Kept(i)
    BY <1>8, <1>t DEF ZkWrite, Written, Kept, HasRow, HasNode
  <2>2. waits[i] = h => client[i] # "leaving"
    BY <1>8 DEF ZkWrite, Served
  <2>3. ASSUME waits[i] = h, client[i] = "starting"
        PROVE  node'[i] # 0
    <3>1. proc[h].inst = i
      BY <2>3 DEF Served
    <3> QED
      BY <1>8, <1>t, <3>1 DEF ZkWrite, WriteFails, Written
  <2>4. "db_select" \in Points \ {"cache_get"} /\ UNCHANGED clientVars
    BY <1>8 DEF ZkWrite, Points
  <2> QED
    BY <1>6, <1>8, <2>1, <2>2, <2>3, <2>4 DEF ZkWrite, HasNode
<1>9. ASSUME NEW h \in Handlers, DbSelect(h)
      PROVE  Served(i)'
  <2>1. /\ "db_write" \in Points \ {"cache_get"} /\ (row[proc[h].svc] # NoRow) \in BOOLEAN
        /\ Kept(i) /\ UNCHANGED clientVars
        /\ waits[i] = h => client[i] # "leaving"
        /\ waits[i] = h /\ client[i] = "starting" => HasNode(i)'
    BY <1>9, <1>k DEF DbSelect, Points, Served, Kept
  <2> QED
    BY <1>6, <1>9, <2>1 DEF DbSelect
<1>10. ASSUME NEW h \in Handlers, DbWrite(h)
       PROVE  Served(i)'
  <2>1. CASE /\ row' = [row EXCEPT ![proc[h].svc] = "healthy"]
             /\ proc' = [proc EXCEPT ![h].pc = "cache_delete", ![h].saw = FALSE]
             /\ UNCHANGED clientVars
    <3>1. Kept(i)
      BY <1>10, <1>t, <2>1, SentinelsAssumption DEF DbWrite, Kept, HasRow, HasNode
    <3>2. waits[i] = h => client[i] # "leaving"
      BY <1>10 DEF DbWrite, Served
    <3>3. ASSUME waits[i] = h, client[i] = "starting"
          PROVE  HasNode(i)' /\ HasRow(i)'
      <4>1. HasNode(i) /\ proc[h].svc = ServiceOf[i]
        BY <1>10, <3>3 DEF DbWrite, Served
      <4> QED
        BY <1>t, <2>1, <3>1, <3>3, <4>1, SentinelsAssumption DEF Kept, HasRow
    <3>4. "cache_delete" \in Points \ {"cache_get"}
      BY DEF Points
    <3> QED
      BY <1>6, <2>1, <3>1, <3>2, <3>3, <3>4
  <2>2. CASE Finish(h) /\ Reply({h}, FALSE) /\ UNCHANGED row
    BY <1>10, <1>t, <1>k, <2>2, FinishTyped, Answered DEF DbWrite
  <2> QED
    BY <1>10, <2>1, <2>2 DEF DbWrite
<1>11. ASSUME NEW h \in Handlers, ZkWriteRaises(h)
       PROVE  Served(i)'
  BY <1>11, <1>t, <1>k, FinishTyped, Answered DEF ZkWriteRaises
<1>12. ASSUME NEW h \in Handlers, ZkDelete(h)
       PROVE  Served(i)'
  <2>1. waits[i] = h => client[i] = "leaving"
    BY <1>12, <1>t, SentinelsAssumption DEF ZkDelete, Served
  <2>2. Kept(i)
    <3>1. client[i] # "leaving" /\ HasNode(i) => HasNode(i)'
      BY <1>12, <1>t, <2>1 DEF ZkDelete, Deleted, HasNode
    <3> QED
      BY <1>12, <3>1 DEF ZkDelete, Deleted, Kept, HasRow
  <2>3. "db_unknown" \in Points \ {"cache_get"} /\ UNCHANGED clientVars /\ Go(h, "db_unknown")
    BY <1>12 DEF ZkDelete, Deleted, Points
  <2> QED
    BY <1>6, <2>1, <2>2, <2>3
<1>13. ASSUME NEW h \in Handlers, DbUnknown(h)
       PROVE  Served(i)'
  <2>1. waits[i] = h => client[i] = "leaving"
    BY <1>13, <1>t, SentinelsAssumption DEF DbUnknown, Served
  <2>2. Kept(i)
    BY <1>13, <1>t, SentinelsAssumption DEF DbUnknown, Kept, HasRow, HasNode
  <2>3. "cache_delete" \in Points \ {"cache_get"} /\ UNCHANGED clientVars /\ Go(h, "cache_delete")
    BY <1>13 DEF DbUnknown, Points
  <2> QED
    BY <1>6, <2>1, <2>2, <2>3
<1>14. ASSUME NEW h \in Handlers, CacheDelete(h)
       PROVE  Served(i)'
  BY <1>14, <1>t, <1>k, FinishTyped, Answered DEF CacheDelete
<1>15. ASSUME NEW h \in Handlers, NEW op \in {"DISCOVER", "CHECK"}, NEW s \in Queried,
              StartLookup(h, op, s)
       PROVE  Served(i)'
  <2>1. s \in Services /\ h \in Procs /\ op \in Ops /\ "cache_get" \in Points
    BY <1>15, InstancesAssumption DEF Ops, Points
  <2>2. Advance(h)
    BY <1>15, <2>1, RequestTyped DEF StartLookup
  <2> QED
    BY <1>15, <1>t, <1>k, <2>2, MoveElsewhere DEF StartLookup
<1>16. ASSUME NEW p \in Procs, Lookup(p)
       PROVE  Served(i)'
  <2>1. Advance(p)
    BY <1>16, LookupMoves
  <2>2. proc[p].pc \in {"cache_get", "children", "get", "probe"} /\ UNCHANGED clientVars
    BY <1>16 DEF Lookup, CacheGet, ZkChildren, ZkGet, CacheSet, Probe, DbStatus
  <2>3. Kept(i)
    <3>1. CASE DbStatus(p)
      <4>1. Overall(p) # NoRow
        BY SentinelsAssumption DEF Overall
      <4> QED
        BY <1>t, <3>1, <4>1 DEF DbStatus, Kept, HasRow, HasNode
    <3> QED
      BY <1>16, <1>k, <3>1 DEF Lookup, CacheGet, ZkChildren, ZkGet, CacheSet, Probe
  <2> QED
    BY <2>1, <2>2, <2>3, MoveElsewhere
<1>17. ASSUME MonitorStep
       PROVE  Served(i)'
  <2>1. CASE Lookup(Monitor)
    BY <1>16, <1>t, <2>1
  <2>2. CASE BootExists \/ BootWrite \/ MonitorList \/ MonitorNext
    <3>1. Advance(Monitor) /\ UNCHANGED clientVars
      BY <2>2, MonitorMoves DEF BootExists, BootWrite, MonitorList, MonitorNext
    <3>2. Kept(i)
      <4>1. CASE BootWrite
        BY <1>t, <4>1 DEF BootWrite, Written, Kept, HasRow, HasNode
      <4> QED
        BY <1>k, <2>2, <4>1 DEF BootExists, MonitorList, MonitorNext
    <3> QED
      BY <1>t, <3>1, <3>2, MoveElsewhere
  <2> QED
    BY <1>17, <2>1, <2>2 DEF MonitorStep
<1>18. ASSUME NEW p \in Procs, Fault(p)
       PROVE  Served(i)'
  <2>1. Advance(p)
    BY <1>18, FinishTyped, CycleTyped DEF Fault
  <2> QED
    BY <1>18, <1>k, <2>1, Answered DEF Fault
<1>19. ASSUME NEW gone, DropNodes(gone), UNCHANGED <<row, clientVars>>,
              waits[i] # Nobody => proc'[waits[i]] = proc[waits[i]]
       PROVE  Served(i)'
  <2>1. Kept(i)
    BY <1>t, <1>19 DEF DropNodes, Kept, HasRow, HasNode
  <2> QED
    BY <1>19, <2>1, Undisturbed
<1>20. CASE SessionLost
  BY <1>19, <1>20 DEF SessionLost
<1>21. CASE ConfigRestart
  <2>1. waits[i] # Nobody => waits[i] \in Handlers /\ proc'[waits[i]] = proc[waits[i]]
    BY <1>t, <1>21, SentinelsAssumption DEF ConfigRestart
  <2> QED
    BY <1>19, <1>21, <2>1 DEF ConfigRestart
<1>22. ASSUME NEW n, SessionExpires(n)
       PROVE  Served(i)'
  BY <1>19, <1>22 DEF SessionExpires
<1>23. CASE ConfigCrash
  <2>1. /\ waits'[i] = Nobody
        /\ waits[i] = Nobody => client'[i] = client[i]
        /\ waits[i] # Nobody => client'[i] = AfterNoAnswer(client[i])
    BY <1>t, <1>23, SentinelsAssumption DEF ConfigCrash, Reply
  <2>2. client'[i] \notin {"starting", "leaving"}
        /\ (client'[i] = "registered" => client[i] = "registered")
    BY <1>t, <2>1 DEF Served, AfterNoAnswer, Lives
  <2> QED
    BY <1>23, <2>1, <2>2 DEF ConfigCrash, Served, HasRow, HasNode
<1>24. ASSUME NEW s \in Services, Expire(s)
       PROVE  Served(i)'
  BY <1>24, <1>k, Undisturbed DEF Expire
<1>25. CASE UNCHANGED vars
  BY <1>25, <1>k, Undisturbed DEF vars
<1> QED
  BY <1>1, <1>2, <1>4, <1>5, <1>7, <1>8, <1>9, <1>10, <1>11, <1>12, <1>13, <1>14, <1>15,
     <1>16, <1>17, <1>18, <1>20, <1>21, <1>22, <1>23, <1>24, <1>25
     DEF Next, ClientStep, HandlerStep

\* What an instance that runs as registered counts on is in both stores.
THEOREM AnswersHold == Spec => []AnsweredIsPersisted
<1> DEFINE Inv == TypeInv /\ \A i \in Instances : Served(i)
<1>1. Init => Inv
  BY TypeInit, ServedInit
<1>2. Inv /\ [Next]_vars => Inv'
  BY TypeStep, ServedStep
<1>3. Inv => AnsweredIsPersisted
  BY DEF AnsweredIsPersisted, Served, HasRow, HasNode
<1> QED
  BY <1>1, <1>2, <1>3, PTL DEF Spec

-----------------------------------------------------------------------------
\* A process that acts for an instance acts on the service of that instance,
\* so the list it is going to delete is the one its write has changed; only the
\* start-up acts for config-service itself.
AimedAt(locals) ==
  locals.pc \in Acting =>
    /\ locals.inst \in Instances
    /\ locals.svc = ServiceOf[locals.inst]
    /\ locals.pc \in {"boot_exists", "boot_write"} <=> locals.inst = Self

Aimed == \A p \in Procs : AimedAt(proc[p])

\* A move of one process keeps the aim of all if it keeps its own.
LEMMA AimKept ==
  ASSUME TypeInv, Aimed, NEW p \in Procs, Advance(p), AimedAt(proc'[p])
  PROVE  Aimed'
<1>1. proc' \in [Procs -> Locals] /\ \A q \in Procs \ {p} : proc'[q] = proc[q]
  BY DEF Advance, TypeInv, TypeOK
<1> QED
  BY <1>1 DEF Aimed

\* config-service starts aimed at its own instance.
LEMMA AimedInit == Init => Aimed
<1> SUFFICES ASSUME Init PROVE Aimed
  OBVIOUS
<1>1. AimedAt(Boot) /\ AimedAt(Idle)
  BY InstancesAssumption DEF AimedAt, Boot, Idle, At, Acting, Owing
<1> QED
  BY <1>1 DEF Init, Aimed

\* Every step keeps the aim.
LEMMA AimedStep == TypeInv /\ Aimed /\ [Next]_vars => Aimed'
<1> SUFFICES ASSUME TypeInv, Aimed, [Next]_vars PROVE Aimed'
  OBVIOUS
<1>t. /\ Monitor \in Procs /\ Handlers \subseteq Procs
      /\ \A p \in Procs : AimedAt(proc[p])
  BY DEF Aimed
<1>u. UNCHANGED proc => Aimed'
  BY DEF Aimed
<1>f. ASSUME NEW p \in Procs, Finish(p)
      PROVE  Aimed'
  BY <1>f, FinishTyped, AimKept DEF AimedAt, Acting, Owing
<1>m. ASSUME NEW p \in Procs, NEW point \in Points \ {"cache_get"}, NEW saw \in BOOLEAN,
             \/ Go(p, point)
             \/ proc' = [proc EXCEPT ![p].pc = point, ![p].saw = saw],
             proc[p].pc \in Acting,
             point \in {"boot_exists", "boot_write"} <=>
               proc[p].pc \in {"boot_exists", "boot_write"}
      PROVE  Aimed'
  <2>1. /\ Advance(p) /\ proc'[p].pc = point
        /\ proc'[p].svc = proc[p].svc /\ proc'[p].inst = proc[p].inst
    BY <1>m, MoveTyped
  <2>2. AimedAt(proc'[p])
    BY <1>t, <1>m, <2>1 DEF AimedAt
  <2> QED
    BY <2>1, <2>2, AimKept
<1>1. ASSUME NEW i \in Instances, NEW h \in Handlers, ClientStart(i, h) \/ ClientStop(i, h)
      PROVE  Aimed'
  <2>1. ASSUME NEW point \in {"exists", "delete"}, NEW op \in Ops, Become(h, At(point, op, ServiceOf[i], i))
        PROVE  Aimed'
    <3>s. i # Self
      BY <1>1 DEF ClientStart, ClientStop
    <3>1. point \in Points /\ ServiceOf[i] \in Services
      BY InstancesAssumption DEF Points
    <3>2. /\ Advance(h) /\ proc'[h].pc = point
          /\ proc'[h].svc = ServiceOf[i] /\ proc'[h].inst = i
      BY <1>t, <2>1, <3>1, RequestTyped
    <3>3. AimedAt(proc'[h])
      BY <3>s, <3>2 DEF AimedAt
    <3> QED
      BY <1>t, <3>2, <3>3, AimKept
  <2> QED
    BY <1>1, <1>u, <2>1 DEF ClientStart, ClientStop, Ops
<1>2. ASSUME NEW h \in Handlers,
             ZkExists(h) \/ ZkWrite(h) \/ DbSelect(h) \/ ZkDelete(h) \/ DbUnknown(h)
      PROVE  Aimed'
  <2>1. /\ {"write", "db_select", "db_write", "db_unknown", "cache_delete"} \subseteq Points \ {"cache_get"}
        /\ (node[proc[h].inst] # 0) \in BOOLEAN /\ (row[proc[h].svc] # NoRow) \in BOOLEAN
    BY DEF Points
  <2>2. CASE ZkExists(h)
    BY <1>t, <1>m, <2>1, <2>2 DEF ZkExists, Acting, Owing
  <2>3. CASE ZkWrite(h)
    BY <1>t, <1>m, <2>1, <2>3 DEF ZkWrite, Acting, Owing
  <2>4. CASE DbSelect(h)
    BY <1>t, <1>m, <2>1, <2>4 DEF DbSelect, Acting, Owing
  <2>5. CASE ZkDelete(h)
    BY <1>t, <1>m, <2>1, <2>5 DEF ZkDelete, Deleted, Acting, Owing
  <2>6. CASE DbUnknown(h)
    BY <1>t, <1>m, <2>1, <2>6 DEF DbUnknown, Acting, Owing
  <2> QED
    BY <1>2, <2>2, <2>3, <2>4, <2>5, <2>6
<1>3. ASSUME NEW h \in Handlers, ZkWriteRaises(h) \/ CacheDelete(h)
      PROVE  Aimed'
  BY <1>3, <1>f, <1>t DEF ZkWriteRaises, CacheDelete
<1>4. ASSUME NEW h \in Handlers, DbWrite(h)
      PROVE  Aimed'
  <2>1. "cache_delete" \in Points \ {"cache_get"} /\ proc[h].pc \in Acting
    BY <1>4 DEF Points, DbWrite, Acting, Owing
  <2> QED
    BY <1>4, <1>f, <1>m, <1>t, <2>1 DEF DbWrite
<1>5. ASSUME NEW h \in Handlers, NEW op \in {"DISCOVER", "CHECK"}, NEW s \in Queried,
             StartLookup(h, op, s)
      PROVE  Aimed'
  <2>1. s \in Services /\ h \in Procs /\ op \in Ops /\ "cache_get" \in Points
    BY <1>5, InstancesAssumption DEF Ops, Points
  <2>2. Advance(h) /\ proc'[h].pc = "cache_get"
    BY <1>5, <2>1, RequestTyped DEF StartLookup
  <2> QED
    BY <2>1, <2>2, AimKept DEF AimedAt, Acting, Owing
<1>6. ASSUME NEW p \in Procs, Lookup(p)
      PROVE  Aimed'
  BY <1>6, LookupMoves, AimKept DEF AimedAt
<1>7. CASE BootExists
  <2>1. /\ "boot_write" \in Points \ {"cache_get"} /\ (node[Self] # 0) \in BOOLEAN
        /\ proc[Monitor].pc \in Acting
    BY <1>7 DEF BootExists, Points, Acting
  <2> QED
    BY <1>7, <1>m, <1>t, <2>1 DEF BootExists
<1>8. CASE ~BootExists /\ (BootWrite \/ MonitorList \/ MonitorNext)
  BY <1>8, <1>t, MonitorMoves, AimKept DEF AimedAt
<1>9. ASSUME NEW p \in Procs, Fault(p)
      PROVE  Aimed'
  <2>1. CASE Finish(p)
    BY <1>f, <2>1
  <2>2. CASE StartCycle
    BY <1>t, <2>2, CycleTyped, AimKept DEF AimedAt, Acting, Owing
  <2> QED
    BY <1>9, <2>1, <2>2 DEF Fault
<1>10. AimedAt(Boot) /\ AimedAt(Idle)
  BY InstancesAssumption DEF AimedAt, Boot, Idle, At, Acting, Owing
<1>11. CASE ConfigCrash
  BY <1>10, <1>11 DEF ConfigCrash, Aimed
<1>12. CASE ConfigRestart
  BY <1>10, <1>12, <1>t DEF ConfigRestart, Aimed, TypeInv, TypeOK
<1>13. CASE \/ \E i \in Instances : ClientTimeout(i) \/ ClientCrash(i)
            \/ SessionLost \/ \E n \in 1..MaxFaults : SessionExpires(n)
            \/ \E s \in Services : Expire(s)
            \/ UNCHANGED vars
  BY <1>13, <1>u DEF ClientTimeout, ClientCrash, SessionLost, SessionExpires, Expire, vars
<1> QED
  BY <1>1, <1>2, <1>3, <1>4, <1>5, <1>6, <1>7, <1>8, <1>9, <1>11, <1>12, <1>13, <1>t
     DEF Next, ClientStep, HandlerStep, MonitorStep

-----------------------------------------------------------------------------
\* StaleListExplained for one service, and what a step that leaves the list
\* and the nodes of the service alone owes it.
Explained(s) ==
  cache[s] # NoEntry /\ cache[s] # Listed(s) =>
    excused[s] \/ \E h \in Handlers : Updating(h, s)

StillExplained(s) ==
  (excused[s] \/ \E h \in Handlers : Updating(h, s)) =>
    (excused'[s] \/ \E h \in Handlers : Updating(h, s)')

\* A step that leaves list and nodes alone keeps the explanation if it pays
\* what it owes.
LEMMA SameList ==
  ASSUME NEW s \in Services, Explained(s), cache'[s] = cache[s],
         \A i \in Instances : ServiceOf[i] = s => (node'[i] # 0 <=> node[i] # 0),
         StillExplained(s)
  PROVE  Explained(s)'
<1>1. Listed(s)' = Listed(s)
  BY DEF Listed
<1> QED
  BY <1>1 DEF Explained, StillExplained

\* A handler that has not yet written owes nothing that its move could drop.
LEMMA MoveExplains ==
  ASSUME TypeInv, NEW s \in Services, NEW p \in Procs, Advance(p),
         excused[s] => excused'[s],
         p \in Handlers /\ Updating(p, s) => Updating(p, s)' \/ excused'[s]
  PROVE  StillExplained(s)
<1>1. \A q \in Procs \ {p} : proc'[q] = proc[q]
  BY DEF Advance, TypeInv, TypeOK
<1> QED
  BY <1>1 DEF StillExplained, Updating

\* Every step explains every stale list.
LEMMA ExplainedStep ==
  ASSUME TypeInv, Aimed, [Next]_vars, NEW s \in Services, Explained(s)
  PROVE  Explained(s)'
<1>t. /\ proc \in [Procs -> Locals] /\ Monitor \in Procs /\ Handlers \subseteq Procs
      /\ node \in [Instances -> 0..session] /\ session \in Nat \ {0}
      /\ cache \in [Services -> {NoEntry} \cup SUBSET Instances]
      /\ excused \in [Services -> BOOLEAN]
      /\ ServiceOf \in [Instances -> Services]
      /\ \A p \in Procs : proc[p] \in Locals /\ AimedAt(proc[p])
  BY InstancesAssumption, BoundsAssumption DEF TypeInv, TypeOK, Aimed
<1>a. ASSUME NEW p \in Procs, Advance(p), UNCHANGED <<node, cache>>,
             excused[s] => excused'[s],
             p \in Handlers /\ Updating(p, s) => Updating(p, s)' \/ excused'[s]
      PROVE  Explained(s)'
  BY <1>a, MoveExplains, SameList
<1>u. UNCHANGED <<node, cache, excused, proc>> => Explained(s)'
  BY DEF Explained, Listed, Updating
<1>m. ASSUME NEW h \in Handlers, NEW point \in Owing, NEW saw \in BOOLEAN,
             \/ Go(h, point)
             \/ proc' = [proc EXCEPT ![h].pc = point, ![h].saw = saw]
      PROVE  /\ Advance(h)
             /\ Updating(h, s) => Updating(h, s)'
             /\ proc[h].svc = s => Updating(h, s)'
  <2>1. point \in Points \ {"cache_get"}
    BY DEF Owing, Points
  <2>2. Advance(h) /\ proc'[h].pc = point /\ proc'[h].svc = proc[h].svc
    BY <1>m, <1>t, <2>1, MoveTyped
  <2> QED
    BY <2>2 DEF Updating
<1>1. ASSUME NEW i \in Instances, NEW h \in Handlers, ClientStart(i, h) \/ ClientStop(i, h)
      PROVE  Explained(s)'
  <2>1. ASSUME NEW point \in {"exists", "delete"}, NEW op \in Ops,
               Become(h, At(point, op, ServiceOf[i], i)), proc[h].pc = "idle"
        PROVE  Advance(h) /\ ~Updating(h, s)
    <3>1. point \in Points /\ ServiceOf[i] \in Services
      BY <1>t DEF Points
    <3> QED
      BY <1>t, <2>1, <3>1, RequestTyped DEF Updating, Owing
  <2>2. UNCHANGED <<node, cache, excused>>
    BY <1>1 DEF ClientStart, ClientStop
  <2> QED
    BY <1>1, <1>a, <1>t, <1>u, <2>1, <2>2 DEF ClientStart, ClientStop, Ops
<1>2. ASSUME NEW h \in Handlers, ZkExists(h) \/ DbSelect(h)
      PROVE  Explained(s)'
  <2>1. CASE ZkExists(h)
    <3>1. Advance(h) /\ ~Updating(h, s) /\ UNCHANGED <<node, cache, excused>>
      BY <1>t, <2>1, MoveTyped DEF ZkExists, Points, Updating, Owing
    <3> QED
      BY <1>a, <1>t, <3>1
  <2>2. CASE DbSelect(h)
    <3>1. "db_write" \in Owing /\ (row[proc[h].svc] # NoRow) \in BOOLEAN
      BY DEF Owing
    <3> QED
      BY <1>a, <1>m, <1>t, <2>2, <3>1 DEF DbSelect
  <2> QED
    BY <1>2, <2>1, <2>2
<1>3. ASSUME NEW h \in Handlers, ZkWrite(h) \/ ZkDelete(h)
      PROVE  Explained(s)'
  <2>1. /\ Advance(h) /\ proc[h].inst \in Instances /\ proc[h].svc = ServiceOf[proc[h].inst]
        /\ Updating(h, s) => Updating(h, s)'
        /\ proc[h].svc = s => Updating(h, s)'
    <3>1. {"db_select", "db_unknown"} \subseteq Owing
      BY DEF Owing
    <3>2. AimedAt(proc[h]) /\ proc[h].pc \in Acting
      BY <1>3, <1>t DEF ZkWrite, ZkDelete, Acting
    <3>3. /\ Advance(h)
          /\ Updating(h, s) => Updating(h, s)'
          /\ proc[h].svc = s => Updating(h, s)'
      BY <1>3, <1>m, <3>1 DEF ZkWrite, ZkDelete, Deleted
    <3> QED
      BY <3>2, <3>3 DEF AimedAt
  <2>2. UNCHANGED <<cache, excused>>
    BY <1>3 DEF ZkWrite, ZkDelete, Deleted
  <2>3. CASE ServiceOf[proc[h].inst] = s
    BY <2>1, <2>3 DEF Explained
  <2>4. CASE ServiceOf[proc[h].inst] # s
    <3>1. \A i \in Instances : ServiceOf[i] = s => node'[i] = node[i]
      BY <1>3, <1>t, <2>4 DEF ZkWrite, Written, ZkDelete, Deleted
    <3>2. StillExplained(s)
      BY <1>t, <2>1, <2>2, MoveExplains
    <3> QED
      BY <2>2, <3>1, <3>2, SameList
  <2> QED
    BY <2>3, <2>4
<1>4. ASSUME NEW h \in Handlers, ZkWriteRaises(h)
      PROVE  Explained(s)'
  <2>1. Advance(h) /\ ~Updating(h, s) /\ UNCHANGED <<node, cache, excused>>
    BY <1>4, <1>t, FinishTyped DEF ZkWriteRaises, Updating, Owing
  <2> QED
    BY <1>a, <1>t, <2>1
<1>5. ASSUME NEW h \in Handlers, DbWrite(h)
      PROVE  Explained(s)'
  <2>1. CASE proc' = [proc EXCEPT ![h].pc = "cache_delete", ![h].saw = FALSE] /\ UNCHANGED excused
    <3>1. "cache_delete" \in Owing
      BY DEF Owing
    <3> QED
      BY <1>5, <1>a, <1>m, <1>t, <2>1, <3>1 DEF DbWrite
  <2>2. CASE Finish(h) /\ excused' = [excused EXCEPT ![proc[h].svc] = TRUE]
    <3>1. Advance(h) /\ UNCHANGED <<node, cache>>
      BY <1>5, <1>t, <2>2, FinishTyped DEF DbWrite
    <3>2. (excused[s] => excused'[s]) /\ (Updating(h, s) => excused'[s])
      BY <1>t, <2>2 DEF Updating
    <3> QED
      BY <1>a, <1>t, <3>1, <3>2
  <2> QED
    BY <1>5, <2>1, <2>2 DEF DbWrite
<1>6. ASSUME NEW h \in Handlers, DbUnknown(h)
      PROVE  Explained(s)'
  <2>1. "cache_delete" \in Owing
    BY DEF Owing
  <2> QED
    BY <1>6, <1>a, <1>m, <1>t, <2>1 DEF DbUnknown
<1>7. ASSUME NEW h \in Handlers, CacheDelete(h)
      PROVE  Explained(s)'
  <2>1. CASE proc[h].svc = s
    BY <1>7, <1>t, <2>1 DEF CacheDelete, Explained
  <2>2. CASE proc[h].svc # s
    <3>1. Advance(h) /\ ~Updating(h, s) /\ cache'[s] = cache[s] /\ excused'[s] = excused[s]
      BY <1>7, <1>t, <2>2, FinishTyped DEF CacheDelete, Updating
    <3>2. StillExplained(s)
      BY <1>t, <3>1, MoveExplains
    <3> QED
      BY <1>7, <3>1, <3>2, SameList DEF CacheDelete
  <2> QED
    BY <2>1, <2>2
<1>8. ASSUME NEW h \in Handlers, NEW op \in {"DISCOVER", "CHECK"}, NEW x \in Queried,
             StartLookup(h, op, x)
      PROVE  Explained(s)'
  <2>1. x \in Services /\ op \in Ops /\ "cache_get" \in Points
    BY <1>8, InstancesAssumption DEF Ops, Points
  <2>2. Advance(h) /\ ~Updating(h, s) /\ UNCHANGED <<node, cache, excused>>
    BY <1>8, <1>t, <2>1, RequestTyped DEF StartLookup, Updating, Owing
  <2> QED
    BY <1>a, <1>t, <2>2
<1>9. ASSUME NEW p \in Procs, Lookup(p)
      PROVE  Explained(s)'
  <2>1. Advance(p) /\ ~Updating(p, s)
    BY <1>9, LookupMoves DEF Lookup, CacheGet, ZkChildren, ZkGet, CacheSet, Probe, DbStatus,
                             Updating, Owing
  <2>2. CASE CacheSet(p) /\ proc[p].svc = s
    <3>1. Listed(s)' = Listed(s)
      BY <2>2 DEF CacheSet, Listed
    <3>2. cache'[s] = proc[p].list /\ excused'[s] = (proc[p].list # Listed(s))
      BY <1>t, <2>2 DEF CacheSet
    <3> QED
      BY <3>1, <3>2 DEF Explained
  <2>3. CASE CacheSet(p) /\ proc[p].svc # s
    <3>1. cache'[s] = cache[s] /\ excused'[s] = excused[s] /\ UNCHANGED node
      BY <1>t, <2>3 DEF CacheSet
    <3>2. StillExplained(s)
      BY <2>1, <3>1, MoveExplains
    <3> QED
      BY <3>1, <3>2, SameList
  <2>4. CASE ~CacheSet(p)
    <3>1. UNCHANGED <<node, cache, excused>>
      BY <1>9, <2>4 DEF Lookup, CacheGet, ZkChildren, ZkGet, Probe, DbStatus
    <3> QED
      BY <1>a, <2>1, <3>1
  <2> QED
    BY <2>2, <2>3, <2>4
<1>10. CASE BootExists \/ MonitorList \/ MonitorNext
  <2>1. Advance(Monitor) /\ UNCHANGED <<node, cache, excused>>
    BY <1>10, MonitorMoves DEF BootExists, MonitorList, MonitorNext
  <2> QED
    BY <1>a, <1>t, <2>1, SentinelsAssumption
<1>11. CASE BootWrite
  <2>1. Advance(Monitor) /\ cache' = cache
        /\ excused' = [excused EXCEPT ![ServiceOf[Self]] = TRUE]
    BY <1>11, MonitorMoves DEF BootWrite
  <2>2. CASE ServiceOf[Self] = s
    BY <1>t, <2>1, <2>2 DEF Explained
  <2>3. CASE ServiceOf[Self] # s
    <3>1. proc[Monitor].inst = Self
      BY <1>11, <1>t DEF BootWrite, AimedAt, Acting
    <3>2. \A i \in Instances : ServiceOf[i] = s => node'[i] = node[i]
      BY <1>11, <1>t, <2>3, <3>1 DEF BootWrite, Written
    <3>3. StillExplained(s)
      BY <1>t, <2>1, <2>3, MoveExplains, SentinelsAssumption
    <3> QED
      BY <2>1, <3>2, <3>3, SameList
  <2> QED
    BY <2>2, <2>3
<1>12. ASSUME NEW p \in Procs, Fault(p)
       PROVE  Explained(s)'
  <2>1. Advance(p)
    BY <1>12, FinishTyped, CycleTyped DEF Fault
  <2>2. UNCHANGED <<node, cache>>
    BY <1>12 DEF Fault
  <2>3. (excused[s] => excused'[s]) /\ (Updating(p, s) => excused'[s])
    BY <1>12 DEF Fault, Excuse, Abandoned, Updating
  <2> QED
    BY <1>a, <2>1, <2>2, <2>3
<1>13. ASSUME NEW gone, DropNodes(gone), UNCHANGED cache,
              \A h \in Handlers : proc'[h] = proc[h]
       PROVE  Explained(s)'
  <2>1. excused[s] => excused'[s]
    BY <1>13 DEF DropNodes
  <2>2. StillExplained(s)
    BY <1>13, <2>1 DEF StillExplained, Updating
  <2>3. CASE \E i \in gone : ServiceOf[i] = s /\ node[i] # 0
    BY <1>13, <2>3 DEF DropNodes, Explained
  <2>4. CASE ~ \E i \in gone : ServiceOf[i] = s /\ node[i] # 0
    <3>1. \A i \in Instances : ServiceOf[i] = s => (node'[i] # 0 <=> node[i] # 0)
      BY <1>13, <2>4 DEF DropNodes
    <3> QED
      BY <1>13, <2>2, <3>1, SameList
  <2> QED
    BY <2>3, <2>4
<1>14. CASE SessionLost
  BY <1>13, <1>14 DEF SessionLost
<1>15. ASSUME NEW n, SessionExpires(n)
       PROVE  Explained(s)'
  BY <1>13, <1>15 DEF SessionExpires
<1>16. CASE ConfigRestart
  <2>1. \A h \in Handlers : proc'[h] = proc[h]
    BY <1>16, <1>t, SentinelsAssumption DEF ConfigRestart
  <2> QED
    BY <1>13, <1>16, <2>1 DEF ConfigRestart
<1>17. CASE ConfigCrash
  <2>1. StillExplained(s)
    BY <1>17 DEF ConfigCrash, StillExplained, Updating, Excuse, Abandoned
  <2> QED
    BY <1>17, <2>1, SameList DEF ConfigCrash
<1>18. ASSUME NEW x \in Services, Expire(x)
       PROVE  Explained(s)'
  <2>1. CASE x = s
    BY <1>18, <1>t, <2>1 DEF Expire, Explained
  <2>2. CASE x # s
    <3>1. cache'[s] = cache[s] /\ excused'[s] = excused[s] /\ UNCHANGED <<node, proc>>
      BY <1>18, <1>t, <2>2 DEF Expire
    <3> QED
      BY <3>1, SameList DEF StillExplained, Updating
  <2> QED
    BY <2>1, <2>2
<1>19. CASE \/ \E i \in Instances : ClientTimeout(i) \/ ClientCrash(i)
            \/ UNCHANGED vars
  BY <1>19, <1>u DEF ClientTimeout, ClientCrash, vars
<1> QED
  BY <1>1, <1>2, <1>3, <1>4, <1>5, <1>6, <1>7, <1>8, <1>9, <1>10, <1>11, <1>12, <1>14, <1>15,
     <1>16, <1>17, <1>18, <1>19, <1>t
     DEF Next, ClientStep, HandlerStep, MonitorStep

\* Every stale list goes back to an update still under way, to a fill that
\* raced a change, to a request that failed half-way or to a session.
THEOREM StaleListsExplained == Spec => []StaleListExplained
<1> DEFINE Inv == TypeInv /\ Aimed /\ \A s \in Services : Explained(s)
<1>1. Init => Inv
  BY TypeInit, AimedInit DEF Init, Explained
<1>2. Inv /\ [Next]_vars => Inv'
  BY TypeStep, AimedStep, ExplainedStep
<1>3. Inv => StaleListExplained
  BY DEF StaleListExplained, Explained
<1> QED
  BY <1>1, <1>2, <1>3, PTL DEF Spec

-----------------------------------------------------------------------------
\* What a deregistration leaves for good: config-service's own node is never
\* removed that way, and no registration is on its way to write the node.
Gone(i) == departed[i] => i # Self /\ node[i] = 0 /\ ~Arriving(i)

\* A move that does not start or go on with a registration of i brings none.
LEMMA NobodyArrives ==
  ASSUME TypeInv, NEW i \in Instances, NEW p \in Procs, Advance(p), ~Arriving(i),
         p = Monitor \/ proc'[p].inst # i \/ proc'[p].pc \notin {"exists", "write"}
  PROVE  ~Arriving(i)'
<1>1. proc' \in [Procs -> Locals] /\ \A q \in Procs \ {p} : proc'[q] = proc[q]
  BY DEF Advance, TypeInv, TypeOK
<1>2. ASSUME NEW h \in Handlers, proc'[h].inst = i, proc'[h].pc \in {"exists", "write"}
      PROVE  FALSE
  <2>1. h \in Procs /\ h # Monitor
    BY SentinelsAssumption
  <2>2. h # p
    BY <1>2, <2>1
  <2>3. proc'[h] = proc[h]
    BY <1>1, <2>1, <2>2
  <2> QED
    BY <1>2, <2>3 DEF Arriving
<1> QED
  BY <1>2 DEF Arriving

\* So it keeps what is gone, if it does not touch the node.
LEMMA MoveKeepsGone ==
  ASSUME TypeInv, NEW i \in Instances, Gone(i), NEW p \in Procs, Advance(p),
         departed' = departed, node'[i] = node[i],
         p = Monitor \/ proc'[p].inst # i \/ proc'[p].pc \notin {"exists", "write"}
  PROVE  Gone(i)'
  BY NobodyArrives DEF Gone

\* Every step keeps what is gone.
LEMMA GoneStep ==
  ASSUME TypeInv, Aimed, [Next]_vars, NEW i \in Instances, Gone(i)
  PROVE  Gone(i)'
<1>t. /\ proc \in [Procs -> Locals] /\ Monitor \in Procs /\ Handlers \subseteq Procs
      /\ node \in [Instances -> 0..session] /\ session \in Nat \ {0}
      /\ departed \in [Instances -> BOOLEAN]
      /\ \A p \in Procs : proc[p] \in Locals /\ AimedAt(proc[p])
  BY InstancesAssumption, BoundsAssumption DEF TypeInv, TypeOK, Aimed
<1>u. UNCHANGED <<node, departed, proc>> => Gone(i)'
  BY DEF Gone, Arriving
<1>m. ASSUME NEW h \in Handlers, NEW point \in Points \ {"cache_get"}, NEW saw \in BOOLEAN,
             \/ Go(h, point)
             \/ proc' = [proc EXCEPT ![h].pc = point, ![h].saw = saw],
             point \notin {"exists", "write"} \/ proc[h].inst # i,
             departed' = departed, node'[i] = node[i]
      PROVE  Gone(i)'
  <2>1. Advance(h) /\ proc'[h].pc = point /\ proc'[h].inst = proc[h].inst
    BY <1>m, <1>t, MoveTyped
  <2> QED
    BY <1>m, <1>t, <2>1, MoveKeepsGone
<1>f. ASSUME NEW p \in Procs, Finish(p), departed' = departed, node' = node
      PROVE  Gone(i)'
  BY <1>f, FinishTyped, MoveKeepsGone
<1>1. ASSUME NEW j \in Instances, NEW h \in Handlers, ClientStart(j, h)
      PROVE  Gone(i)'
  <2>1. CASE j = i
    BY <1>1, <1>t, <2>1 DEF ClientStart, Gone
  <2>2. CASE j # i
    <3>1. departed'[i] = departed[i] /\ node' = node
      BY <1>1, <1>t, <2>2 DEF ClientStart
    <3>2. CASE Become(h, At("exists", "REGISTER", ServiceOf[j], j))
      <4>1. ServiceOf[j] \in Services /\ "exists" \in Points /\ "REGISTER" \in Ops /\ h \in Procs
        BY InstancesAssumption DEF Points, Ops
      <4>2. Advance(h) /\ proc'[h].inst = j
        BY <3>2, <4>1, RequestTyped
      <4> QED
        BY <2>2, <3>1, <4>1, <4>2, NobodyArrives DEF Gone
    <3>3. CASE UNCHANGED proc
      BY <3>1, <3>3 DEF Gone, Arriving
    <3> QED
      BY <1>1, <3>2, <3>3 DEF ClientStart
  <2> QED
    BY <2>1, <2>2
<1>2. ASSUME NEW j \in Instances, NEW h \in Handlers, ClientStop(j, h)
      PROVE  Gone(i)'
  <2>1. UNCHANGED <<node, departed>>
    BY <1>2 DEF ClientStop
  <2>2. CASE Become(h, At("delete", "DEREGISTER", ServiceOf[j], j))
    <3>1. ServiceOf[j] \in Services /\ "delete" \in Points /\ "DEREGISTER" \in Ops /\ h \in Procs
      BY InstancesAssumption DEF Points, Ops
    <3>2. Advance(h) /\ proc'[h].pc = "delete"
      BY <2>2, <3>1, RequestTyped
    <3> QED
      BY <2>1, <3>1, <3>2, MoveKeepsGone
  <2> QED
    BY <1>2, <1>u, <2>1, <2>2 DEF ClientStop
<1>3. ASSUME NEW h \in Handlers, ZkExists(h)
      PROVE  Gone(i)'
  <2>1. /\ "write" \in Points \ {"cache_get"} /\ (node[proc[h].inst] # 0) \in BOOLEAN
        /\ proc[h].pc = "exists" /\ UNCHANGED <<node, departed>>
    BY <1>3 DEF ZkExists, Points
  <2>2. CASE proc[h].inst = i
    <3>1. ~departed[i]
      BY <2>1, <2>2 DEF Gone, Arriving
    <3> QED
      BY <2>1, <3>1 DEF Gone
  <2>3. CASE proc[h].inst # i
    BY <1>3, <1>m, <2>1, <2>3 DEF ZkExists
  <2> QED
    BY <2>2, <2>3
<1>4. ASSUME NEW h \in Handlers, ZkWrite(h)
      PROVE  Gone(i)'
  <2>1. proc[h].pc = "write" /\ departed' = departed
    BY <1>4 DEF ZkWrite
  <2>2. CASE proc[h].inst = i
    <3>1. ~departed[i]
      BY <2>1, <2>2 DEF Gone, Arriving
    <3> QED
      BY <2>1, <3>1 DEF Gone
  <2>3. CASE proc[h].inst # i
    <3>1. node'[i] = node[i] /\ "db_select" \in Points \ {"cache_get"}
      BY <1>4, <1>t, <2>3 DEF ZkWrite, Written, Points
    <3> QED
      BY <1>4, <1>m, <2>1, <2>3, <3>1 DEF ZkWrite
  <2> QED
    BY <2>2, <2>3
<1>5. ASSUME NEW h \in Handlers, ZkDelete(h)
      PROVE  Gone(i)'
  <2>1. /\ "db_unknown" \in Points \ {"cache_get"} /\ Go(h, "db_unknown") /\ h \in Procs
        /\ node' = [node EXCEPT ![proc[h].inst] = 0]
        /\ departed' = [departed EXCEPT ![proc[h].inst] = ~Arriving(proc[h].inst)]
        /\ proc[h].pc = "delete"
    BY <1>5, <1>t DEF ZkDelete, Deleted, Points
  <2>2. Advance(h) /\ proc'[h].pc = "db_unknown"
    BY <2>1, MoveTyped
  <2>3. CASE proc[h].inst = i
    <3>1. i # Self
      BY <1>t, <2>1, <2>3 DEF AimedAt, Acting
    <3>2. node'[i] = 0 /\ (departed'[i] => ~Arriving(i))
      BY <1>t, <2>1, <2>3
    <3> QED
      BY <2>1, <2>2, <3>1, <3>2, NobodyArrives DEF Gone
  <2>4. CASE proc[h].inst # i
    <3>1. node'[i] = node[i] /\ departed'[i] = departed[i]
      BY <1>t, <2>1, <2>4
    <3> QED
      BY <2>1, <2>2, <3>1, NobodyArrives DEF Gone
  <2> QED
    BY <2>3, <2>4
<1>6. ASSUME NEW h \in Handlers, DbSelect(h) \/ DbWrite(h) \/ DbUnknown(h)
      PROVE  Gone(i)'
  <2>1. /\ {"db_write", "cache_delete"} \subseteq Points \ {"cache_get", "exists", "write"}
        /\ (row[proc[h].svc] # NoRow) \in BOOLEAN /\ UNCHANGED <<node, departed>>
    BY <1>6 DEF DbSelect, DbWrite, DbUnknown, Points
  <2>2. CASE DbSelect(h)
    BY <1>m, <2>1, <2>2 DEF DbSelect
  <2>3. CASE DbWrite(h)
    BY <1>f, <1>m, <1>t, <2>1, <2>3 DEF DbWrite
  <2>4. CASE DbUnknown(h)
    BY <1>m, <2>1, <2>4 DEF DbUnknown
  <2> QED
    BY <1>6, <2>2, <2>3, <2>4
<1>7. ASSUME NEW h \in Handlers, ZkWriteRaises(h) \/ CacheDelete(h)
      PROVE  Gone(i)'
  BY <1>7, <1>f, <1>t DEF ZkWriteRaises, CacheDelete
<1>8. ASSUME NEW h \in Handlers, NEW op \in {"DISCOVER", "CHECK"}, NEW s \in Queried,
             StartLookup(h, op, s)
      PROVE  Gone(i)'
  <2>1. s \in Services /\ op \in Ops /\ "cache_get" \in Points /\ h \in Procs
    BY <1>8, InstancesAssumption DEF Ops, Points
  <2>2. Advance(h) /\ proc'[h].pc = "cache_get" /\ UNCHANGED <<node, departed>>
    BY <1>8, <2>1, RequestTyped DEF StartLookup
  <2> QED
    BY <2>1, <2>2, MoveKeepsGone
<1>9. ASSUME NEW p \in Procs, Lookup(p)
      PROVE  Gone(i)'
  <2>1. UNCHANGED <<node, departed>>
    BY <1>9 DEF Lookup, CacheGet, ZkChildren, ZkGet, CacheSet, Probe, DbStatus
  <2> QED
    BY <1>9, <2>1, LookupMoves, MoveKeepsGone DEF Acting
<1>10. CASE BootExists \/ BootWrite \/ MonitorList \/ MonitorNext
  <2>1. Advance(Monitor) /\ departed' = departed
    BY <1>10, MonitorMoves DEF BootExists, BootWrite, MonitorList, MonitorNext
  <2>2. CASE i = Self
    BY <2>1, <2>2 DEF Gone
  <2>3. CASE i # Self
    <3>1. BootWrite => proc[Monitor].inst = Self
      BY <1>t DEF BootWrite, AimedAt, Acting
    <3>2. node'[i] = node[i]
      BY <1>10, <1>t, <2>3, <3>1 DEF BootExists, BootWrite, MonitorList, MonitorNext, Written
    <3> QED
      BY <1>t, <2>1, <3>2, MoveKeepsGone
  <2> QED
    BY <2>2, <2>3
<1>11. ASSUME NEW p \in Procs, Fault(p)
       PROVE  Gone(i)'
  <2>1. UNCHANGED <<node, departed>>
    BY <1>11 DEF Fault
  <2>2. CASE Finish(p)
    BY <1>f, <2>1, <2>2
  <2>3. CASE StartCycle
    BY <1>t, <2>1, <2>3, CycleTyped, MoveKeepsGone
  <2> QED
    BY <1>11, <2>2, <2>3 DEF Fault
<1>12. ASSUME NEW gone, DropNodes(gone), \A h \in Handlers : proc'[h] = proc[h]
       PROVE  Gone(i)'
  BY <1>12 DEF DropNodes, Gone, Arriving
<1>13. CASE SessionLost
  BY <1>12, <1>13 DEF SessionLost
<1>14. ASSUME NEW n, SessionExpires(n)
       PROVE  Gone(i)'
  BY <1>12, <1>14 DEF SessionExpires
<1>15. CASE ConfigRestart
  <2>1. \A h \in Handlers : proc'[h] = proc[h]
    BY <1>15, <1>t, SentinelsAssumption DEF ConfigRestart
  <2> QED
    BY <1>12, <1>15, <2>1 DEF ConfigRestart
<1>16. CASE ConfigCrash
  <2>1. \A h \in Handlers : proc'[h] = Idle
    BY <1>16, <1>t, SentinelsAssumption DEF ConfigCrash
  <2>2. ~Arriving(i)'
    BY <2>1, IdleTyped DEF Arriving
  <2> QED
    BY <1>16, <2>2 DEF ConfigCrash, Gone
<1>17. CASE \/ \E j \in Instances : ClientTimeout(j) \/ ClientCrash(j)
            \/ \E s \in Services : Expire(s)
            \/ UNCHANGED vars
  BY <1>17, <1>u DEF ClientTimeout, ClientCrash, Expire, vars
<1> QED
  BY <1>1, <1>2, <1>3, <1>4, <1>5, <1>6, <1>7, <1>8, <1>9, <1>10, <1>11, <1>13, <1>14,
     <1>15, <1>16, <1>17, <1>t
     DEF Next, ClientStep, HandlerStep, MonitorStep

\* Once a deregistration has removed an instance, and no registration of it was on its
\* way, it stays out of ZooKeeper, and out of the lists in Redis but for the
\* stale ones that are accounted for, until it starts again.
THEOREM DeregisteredAreGone == Spec => []DeregisteredStaysGone
<1> DEFINE Inv == /\ TypeInv /\ Aimed
                  /\ \A s \in Services : Explained(s)
                  /\ \A i \in Instances : Gone(i)
<1>1. Init => Inv
  BY TypeInit, AimedInit DEF Init, Explained, Gone
<1>2. Inv /\ [Next]_vars => Inv'
  BY TypeStep, AimedStep, ExplainedStep, GoneStep
<1>3. Inv => DeregisteredStaysGone
  <2> SUFFICES ASSUME Inv, NEW i \in Instances, departed[i]
               PROVE  LET s == ServiceOf[i] IN
                      /\ node[i] = 0
                      /\ cache[s] # NoEntry /\ i \in cache[s] =>
                           excused[s] \/ \E h \in Handlers : Updating(h, s)
    BY DEF DeregisteredStaysGone
  <2>1. node[i] = 0 /\ ServiceOf[i] \in Services
    BY InstancesAssumption DEF Gone
  <2>2. i \notin Listed(ServiceOf[i])
    BY <2>1 DEF Listed
  <2> QED
    BY <2>1, <2>2 DEF Explained
<1> QED
  BY <1>1, <1>2, <1>3, PTL DEF Spec
=============================================================================
