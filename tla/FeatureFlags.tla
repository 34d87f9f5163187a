----------------------------- MODULE FeatureFlags -----------------------------
(***************************************************************************)
(* FeatureFlagService of config-service for one environment: boolean flags *)
(* live in Unleash; Redis caches an evaluation per flag and user (5 s),    *)
(* each flag's metadata and the list of all flags (300 s each).  Requests  *)
(* and the periodic sync are coroutines of one process; every Redis        *)
(* command and every HTTP call is a step of its own, and Unleash changes   *)
(* whenever its operators like.  One user stands for all: users have       *)
(* evaluation keys of their own.                                           *)
(***************************************************************************)
EXTENDS Naturals, Sequences, FiniteSets

CONSTANTS
  Flags,       \* flag names, in the order in which Unleash lists them
  Asked,       \* bound: the flags single requests are about
  Kinds,       \* bound: the requests clients make, of "eval", "flag", "list", "sync"
  Defaults,    \* bound: the default values clients give
  Initial,     \* bound: the states flags have at first
  Handlers,    \* requests that may be in flight at once
  Syncers,     \* the periodic sync task; empty when UNLEASH_AUTO_SYNC_ENABLED=false
  PageSize,    \* flags in a full page of Unleash's list
  None,        \* no cache entry
  NoFlag,      \* a request about no single flag
  MaxChanges,  \* bound: changes made in Unleash
  MaxFaults    \* bound: calls to Redis or Unleash that fail

ASSUME FlagsAssumption == Flags \subseteq Nat /\ IsFiniteSet(Flags) /\ NoFlag \notin Flags
ASSUME AskedAssumption == Asked \subseteq Flags /\ Defaults \subseteq BOOLEAN
ASSUME PageAssumption == PageSize \in Nat \ {0}
ASSUME BoundsAssumption == MaxChanges \in Nat /\ MaxFaults \in Nat

VARIABLES
  log,      \* log[f]: the states flag f has had in Unleash, the present one last
  evals,    \* evals[f]: the cached evaluation of f
  meta,     \* meta[f]: the cached metadata of f
  list,     \* the cached list
  proc,     \* the coroutines
  floor,    \* history variable: the version of f when the last complete
            \* invalidation began
  faults    \* calls that have failed so far

vars == <<log, evals, meta, list, proc, floor, faults>>

-----------------------------------------------------------------------------
\* A flag is not there, disabled, enabled, or enabled with a rollout or users.
States == {"absent", "off", "on", "targeted"}

ASSUME InitialAssumption == Initial \subseteq States

\* Cached copies carry the version of the flag they are made from (0 in an
\* evaluation that failed to look the flag up) and, for the properties only,
\* whether an invalidation passed them by: raced.
Metas == [ver : Nat \ {0}, raced : BOOLEAN]
Evals == [reason : {"ERROR", "DISABLED", "MATCH"}, val : BOOLEAN, ver : Nat, raced : BOOLEAN]

\* A list holds the version of each flag on it (0: not on it).  For the
\* properties: the flags that were there from its first page to its last,
\* whether a page failed, whether a flag of an earlier page was removed meanwhile.
Lists == [got : [Flags -> Nat], steady : SUBSET Flags,
          raced : BOOLEAN, partial : BOOLEAN, shifted : BOOLEAN]

ASSUME NoneAssumption == None \notin Metas /\ None \notin Evals /\ None \notin Lists

Points == {"idle", "eval_get", "meta_get", "fetch", "meta_set", "eval_set",
           "list_get", "page", "list_set", "drop_list", "drop_evals", "drop_metas"}

\* The locals: what was asked; the evaluation or metadata version in hand; the
\* list in hand and the offset of its next page; what a sync has still to
\* drop and the versions when it began.
Locals == [pc : Points, kind : {"eval", "flag", "list", "sync"},
           flag : Flags \cup {NoFlag}, def : BOOLEAN,
           ans : Evals \cup {None}, ver : Nat, raced : BOOLEAN,
           offset : Nat, fetched : Lists, todo : SUBSET Flags,
           base : [Flags -> Nat]]

Procs == Handlers \cup Syncers

NothingFetched == [got |-> [f \in Flags |-> 0], steady |-> {},
                   raced |-> FALSE, partial |-> FALSE, shifted |-> FALSE]

At(pc, kind, flag, def) ==
  [pc |-> pc, kind |-> kind, flag |-> flag, def |-> def, ans |-> None,
   ver |-> 0, raced |-> FALSE, offset |-> 0, fetched |-> NothingFetched,
   todo |-> {}, base |-> [f \in Flags |-> 0]]

Idle == At("idle", "list", NoFlag, FALSE)

Now(f)   == log[f][Len(log[f])]
Present  == {f \in Flags : Now(f) # "absent"}
Return(p) == proc' = [proc EXCEPT ![p] = Idle]

-----------------------------------------------------------------------------
\* Unleash (external): somebody creates, toggles, retargets or removes a flag.

\* The place of a flag in the order in which Unleash lists those it has.
Rank(f) == Cardinality({g \in Present : g <= f})

\* A fill of the list when f goes: if f is in what the offset skips, the flags after
\* it move up, and the next page begins one flag too late.
Removed(q, f) ==
  IF q.pc # "page" THEN q
  ELSE [q EXCEPT !.fetched.steady = @ \ {f},
                 !.fetched.shifted = @ \/ Rank(f) <= q.offset]

Changes == Cardinality({c \in Flags \X (2..MaxChanges + 1) : c[2] <= Len(log[c[1]])})

Change(f, s) ==
  /\ Changes < MaxChanges
  /\ s # Now(f)
  /\ log' = [log EXCEPT ![f] = Append(@, s)]
  /\ proc' = IF s = "absent" THEN [p \in Procs |-> Removed(proc[p], f)] ELSE proc
  /\ UNCHANGED <<evals, meta, list, floor, faults>>

-----------------------------------------------------------------------------
\* Requests: evaluate (one flag of a bulk request too, with FALSE by default),
\* get a flag, list the flags, sync.

StartEval(p, f, def) ==
  /\ proc[p].pc = "idle"
  /\ proc' = [proc EXCEPT ![p] = At("eval_get", "eval", f, def)]
  /\ UNCHANGED <<log, evals, meta, list, floor, faults>>

StartFlag(p, f) ==
  /\ proc[p].pc = "idle"
  /\ proc' = [proc EXCEPT ![p] = At("meta_get", "flag", f, FALSE)]
  /\ UNCHANGED <<log, evals, meta, list, floor, faults>>

StartList(p) ==
  /\ proc[p].pc = "idle"
  /\ proc' = [proc EXCEPT ![p] = At("list_get", "list", NoFlag, FALSE)]
  /\ UNCHANGED <<log, evals, meta, list, floor, faults>>

StartSync(p) ==
  /\ proc[p].pc = "idle"
  /\ proc' = [proc EXCEPT ![p] = [At("drop_list", "sync", NoFlag, FALSE)
                                  EXCEPT !.base = [f \in Flags |-> Len(log[f])]]]
  /\ UNCHANGED <<log, evals, meta, list, floor, faults>>

-----------------------------------------------------------------------------
\* evaluate_flag and get_feature_flag.

\* A cached evaluation is returned as it is.
EvalGet(p) ==
  /\ proc[p].pc = "eval_get"
  /\ IF evals[proc[p].flag] # None THEN Return(p)
     ELSE proc' = [proc EXCEPT ![p].pc = "meta_get"]
  /\ UNCHANGED <<log, evals, meta, list, floor, faults>>

\* get_feature_flag has found version ver, or nothing (state "absent", version
\* 0 if it failed): the endpoint answers, an evaluation goes on to cache its
\* result.  The SDK or, failing that, the rollout in the metadata decides for a
\* targeted flag; its own copy of Unleash makes either value possible.
Found(p, state, ver, raced) ==
  LET q == proc[p]
      go(reason, val) == proc' = [proc EXCEPT ![p] =
        [At("eval_set", "eval", q.flag, q.def) EXCEPT
           !.ans = [reason |-> reason, val |-> val, ver |-> ver, raced |-> raced]]]
  IN IF q.kind = "flag" THEN Return(p)
     ELSE \/ state = "absent" /\ go("ERROR", q.def)
          \/ state = "off" /\ go("DISABLED", q.def)
          \/ state = "on" /\ go("MATCH", TRUE)
          \/ state = "targeted" /\ \E val \in BOOLEAN : go("MATCH", val)

\* Between the deletion of an evaluation and of the metadata it comes from.
HalfDropped(f) ==
  \E q \in Procs : \/ proc[q].pc = "drop_evals" /\ f \notin proc[q].todo
                   \/ proc[q].pc = "drop_metas" /\ f \in proc[q].todo

MetaGet(p) ==
  /\ proc[p].pc = "meta_get"
  /\ LET f == proc[p].flag IN
     IF meta[f] = None THEN proc' = [proc EXCEPT ![p].pc = "fetch"]
     ELSE Found(p, log[f][meta[f].ver], meta[f].ver, meta[f].raced \/ HalfDropped(f))
  /\ UNCHANGED <<log, evals, meta, list, floor, faults>>

\* GET /api/admin/projects/default/features/{name}: 404 is not cached.
Fetch(p) ==
  /\ proc[p].pc = "fetch"
  /\ LET f == proc[p].flag IN
     IF Now(f) = "absent" THEN Found(p, "absent", Len(log[f]), FALSE)
     ELSE proc' = [proc EXCEPT ![p] =
            [@ EXCEPT !.pc = "meta_set", !.ver = Len(log[f])]]
  /\ UNCHANGED <<log, evals, meta, list, floor, faults>>

MetaSet(p) ==
  /\ proc[p].pc = "meta_set"
  /\ LET f == proc[p].flag
         v == proc[p].ver
         raced == proc[p].raced
     IN /\ meta' = [meta EXCEPT ![f] = [ver |-> v, raced |-> raced]]
        /\ Found(p, log[f][v], v, raced)
  /\ UNCHANGED <<log, evals, list, floor, faults>>

\* Mutant of LookupFails: the failure is cached like a flag.
LookupFailsCached(p) ==
  /\ proc[p].pc \in {"fetch", "meta_set"}
  /\ faults < MaxFaults
  /\ faults' = faults + 1
  /\ meta' = [meta EXCEPT ![proc[p].flag] = [ver |-> 0, raced |-> FALSE]]
  /\ Found(p, "absent", 0, FALSE)
  /\ UNCHANGED <<log, evals, list, floor>>

\* Unleash answers with an error or not at all, or Redis refuses the metadata:
\* get_feature_flag catches it and returns None, as if there were no flag.
LookupFails(p) ==
  /\ proc[p].pc \in {"fetch", "meta_set"}
  /\ faults < MaxFaults
  /\ faults' = faults + 1
  /\ Found(p, "absent", 0, FALSE)
  /\ UNCHANGED <<log, evals, meta, list, floor>>

EvalSet(p) ==
  /\ proc[p].pc = "eval_set"
  /\ evals' = [evals EXCEPT ![proc[p].flag] = proc[p].ans]
  /\ Return(p)
  /\ UNCHANGED <<log, meta, list, floor, faults>>

-----------------------------------------------------------------------------
\* get_feature_flags.

ListGet(p) ==
  /\ proc[p].pc = "list_get"
  /\ IF list # None THEN Return(p)
     ELSE proc' = [proc EXCEPT ![p] =
            [At("page", "list", NoFlag, FALSE)
             EXCEPT !.fetched = [NothingFetched EXCEPT !.steady = Present]]]
  /\ UNCHANGED <<log, evals, meta, list, floor, faults>>

\* The pages end: an empty list is not cached.
Cacheable(fetched) == \E f \in Flags : fetched.got[f] # 0

Finish(p, fetched) ==
  IF Cacheable(fetched)
  THEN proc' = [proc EXCEPT ![p] =
         [At("list_set", "list", NoFlag, FALSE) EXCEPT !.fetched = fetched]]
  ELSE Return(p)

\* The flags Unleash returns for an offset and limit.
Page(offset) == {f \in Present : Rank(f) \in (offset + 1)..(offset + PageSize)}

WithPage(fetched, page) ==
  [fetched EXCEPT !.got = [f \in Flags |-> IF f \in page THEN Len(log[f]) ELSE @[f]]]

\* Mutant of FetchPage: the first page is taken to be the last.
FetchPageOnce(p) ==
  /\ proc[p].pc = "page"
  /\ Finish(p, WithPage(proc[p].fetched, Page(proc[p].offset)))
  /\ UNCHANGED <<log, evals, meta, list, floor, faults>>

\* Mutant of FetchPage: the offset stays where it is.
FetchPageAgain(p) ==
  /\ proc[p].pc = "page"
  /\ LET page == Page(proc[p].offset)
         fetched == WithPage(proc[p].fetched, page)
     IN IF Cardinality(page) < PageSize THEN Finish(p, fetched)
        ELSE proc' = [proc EXCEPT ![p].fetched = fetched]
  /\ UNCHANGED <<log, evals, meta, list, floor, faults>>

FetchPage(p) ==
  /\ proc[p].pc = "page"
  /\ LET page == Page(proc[p].offset)
         fetched == WithPage(proc[p].fetched, page)
     IN IF Cardinality(page) < PageSize THEN Finish(p, fetched)
        ELSE proc' = [proc EXCEPT ![p].offset = @ + PageSize, ![p].fetched = fetched]
  /\ UNCHANGED <<log, evals, meta, list, floor, faults>>

\* A page answered with an error status ends the loop; what was read is kept.
PageFails(p) ==
  /\ proc[p].pc = "page"
  /\ faults < MaxFaults
  /\ faults' = faults + 1
  /\ Finish(p, [proc[p].fetched EXCEPT !.partial = TRUE])
  /\ UNCHANGED <<log, evals, meta, list, floor>>

ListSet(p) ==
  /\ proc[p].pc = "list_set"
  /\ list' = proc[p].fetched
  /\ Return(p)
  /\ UNCHANGED <<log, evals, meta, floor, faults>>

-----------------------------------------------------------------------------
\* sync_flags_from_unleash: invalidate_environment_cache, then get_feature_flags.
\* The scans delete evaluations and then metadata key by key, in any order.

\* A fill of the list under way has read pages before the deletion.
DropList(p) ==
  /\ proc[p].pc = "drop_list"
  /\ list' = None
  /\ proc' = [q \in Procs |->
       IF q = p THEN [proc[p] EXCEPT !.pc = "drop_evals", !.todo = Flags]
       ELSE IF proc[q].pc \in {"page", "list_set"}
            THEN [proc[q] EXCEPT !.fetched.raced = TRUE] ELSE proc[q]]
  /\ UNCHANGED <<log, evals, meta, floor, faults>>

\* The coroutine q after the deletion of f's evaluation: an evaluation in its
\* hands is from before.
PassedBy(q, f) ==
  IF q.flag = f /\ q.pc = "meta_set" THEN [q EXCEPT !.raced = TRUE]
  ELSE IF q.flag = f /\ q.pc = "eval_set" THEN [q EXCEPT !.ans.raced = TRUE]
  ELSE q

\* p has deleted the key of f; after the last one it goes on to `next`.
Dropped(p, f, next) ==
  proc' = [q \in Procs |->
    IF q # p THEN PassedBy(proc[q], f)
    ELSE IF proc[p].todo = {f} THEN next
    ELSE [proc[p] EXCEPT !.todo = @ \ {f}]]

DropEval(p, f) ==
  /\ proc[p].pc = "drop_evals" /\ f \in proc[p].todo
  /\ evals' = [evals EXCEPT ![f] = None]
  /\ Dropped(p, f, [proc[p] EXCEPT !.pc = "drop_metas", !.todo = Flags])
  /\ UNCHANGED <<log, meta, list, floor, faults>>

\* What a complete invalidation promises.
Raise(p, f) ==
  floor' = IF proc[p].todo # {f} THEN floor
           ELSE [g \in Flags |-> IF floor[g] < proc[p].base[g] THEN proc[p].base[g]
                                 ELSE floor[g]]

\* Mutant of DropMeta: the metadata is left to expire.
DropMetaNever(p, f) ==
  /\ proc[p].pc = "drop_metas" /\ f \in proc[p].todo
  /\ Raise(p, f)
  /\ Dropped(p, f, At("list_get", "list", NoFlag, FALSE))
  /\ UNCHANGED <<log, evals, meta, list, faults>>

DropMeta(p, f) ==
  /\ proc[p].pc = "drop_metas" /\ f \in proc[p].todo
  /\ meta' = [meta EXCEPT ![f] = None]
  /\ Raise(p, f)
  /\ Dropped(p, f, At("list_get", "list", NoFlag, FALSE))
  /\ UNCHANGED <<log, evals, list, faults>>

\* An exception in the invalidation is caught; the sync goes on to the list.
DropFails(p) ==
  /\ proc[p].pc \in {"drop_list", "drop_evals", "drop_metas"}
  /\ faults < MaxFaults
  /\ faults' = faults + 1
  /\ proc' = [proc EXCEPT ![p] = At("list_get", "list", NoFlag, FALSE)]
  /\ UNCHANGED <<log, evals, meta, list, floor>>

-----------------------------------------------------------------------------
\* The times to live.

ExpireEval(f) == evals[f] # None /\ evals' = [evals EXCEPT ![f] = None]
                 /\ UNCHANGED <<log, meta, list, proc, floor, faults>>
ExpireMeta(f) == meta[f] # None /\ meta' = [meta EXCEPT ![f] = None]
                 /\ UNCHANGED <<log, evals, list, proc, floor, faults>>
ExpireList    == list # None /\ list' = None
                 /\ UNCHANGED <<log, evals, meta, proc, floor, faults>>

\* Redis or Unleash raises out of the request, or the process ends: the
\* coroutine is gone, what it has written stays.
Fail(p) ==
  /\ proc[p].pc \in {"eval_get", "meta_get", "eval_set", "list_get", "page", "list_set"}
  /\ faults < MaxFaults
  /\ faults' = faults + 1
  /\ Return(p)
  /\ UNCHANGED <<log, evals, meta, list, floor>>

-----------------------------------------------------------------------------
Init ==
  /\ log \in [Flags -> {<<s>> : s \in Initial}]
  /\ evals = [f \in Flags |-> None]
  /\ meta = [f \in Flags |-> None]
  /\ list = None
  /\ proc = [p \in Procs |-> Idle]
  /\ floor = [f \in Flags |-> 0]
  /\ faults = 0

Request(p) ==
  \/ "eval" \in Kinds /\ \E f \in Asked, def \in Defaults : StartEval(p, f, def)
  \/ "flag" \in Kinds /\ \E f \in Asked : StartFlag(p, f)
  \/ "list" \in Kinds /\ StartList(p)
  \/ "sync" \in Kinds /\ StartSync(p)

Step(p) ==
  \/ EvalGet(p) \/ MetaGet(p) \/ Fetch(p) \/ MetaSet(p) \/ EvalSet(p)
  \/ ListGet(p) \/ FetchPage(p) \/ ListSet(p)
  \/ DropList(p) \/ \E f \in Flags : DropEval(p, f) \/ DropMeta(p, f)

Fault(p) == LookupFails(p) \/ PageFails(p) \/ DropFails(p) \/ Fail(p)

Next ==
  \/ \E f \in Flags, s \in States : Change(f, s)
  \/ \E p \in Handlers : Request(p)
  \/ \E p \in Syncers : StartSync(p)
  \/ \E p \in Procs : Step(p) \/ Fault(p)
  \/ \E f \in Asked : ExpireEval(f) \/ ExpireMeta(f)
  \/ ExpireList

Spec == Init /\ [][Next]_vars

\* The event loop runs every coroutine that is ready and the sync wakes up
\* every UNLEASH_SYNC_INTERVAL seconds; entries with a time to live expire.
Fairness ==
  /\ \A p \in Procs : WF_vars(Step(p))
  /\ \A p \in Syncers : WF_vars(StartSync(p))
  /\ \A f \in Asked : WF_vars(ExpireEval(f)) /\ WF_vars(ExpireMeta(f))
  /\ WF_vars(ExpireList)

FairSpec == Spec /\ Fairness

-----------------------------------------------------------------------------
TypeOK ==
  /\ log \in [Flags -> Seq(States) \ {<<>>}]
  /\ evals \in [Flags -> Evals \cup {None}]
  /\ meta \in [Flags -> Metas \cup {None}]
  /\ list \in Lists \cup {None}
  /\ proc \in [Procs -> Locals]
  /\ floor \in [Flags -> Nat]
  /\ faults \in 0..MaxFaults

\* sync_flags_from_unleash invalidates "ALL caches for this environment" so that
\* both list and evaluate endpoints have fresh data: an entry from before the
\* last complete invalidation is there only because a fill that had read
\* Unleash before its key was deleted wrote it afterwards, or because an
\* evaluation used metadata that was deleted after the evaluations were.
StaleExplained ==
  /\ \A f \in Flags :
       /\ meta[f] # None /\ meta[f].ver < floor[f] => meta[f].raced
       /\ evals[f] # None /\ evals[f].ver # 0 /\ evals[f].ver < floor[f] => evals[f].raced
  /\ list # None =>
       \A f \in Flags : list.got[f] # 0 /\ list.got[f] < floor[f] => list.raced

\* get_feature_flags caches for 300 s whatever pages it read: a flag that was
\* there all the time is missing only if a page failed, or if a flag that the
\* offset had passed was removed and the next page then began one flag too late.
ListGapsExplained ==
  list # None => \/ list.partial \/ list.shifted
                 \/ \A f \in list.steady : list.got[f] # 0

\* Once Unleash settles and calls succeed, everything Redis holds is what
\* Unleash says: no fill, sync or expiry brings old entries back for ever.
CachesConverge ==
  <>[]( /\ \A f \in Flags :
             /\ meta[f] # None => meta[f].ver = Len(log[f])
             /\ evals[f] # None => evals[f].ver = Len(log[f])
        /\ list # None => \A f \in Flags :
             list.got[f] = IF f \in Present THEN Len(log[f]) ELSE 0 )

\* Every sync ends, whatever the flags, the requests and the failures.
SyncRecurs == \A p \in Syncers : []<>(proc[p].pc = "idle")
=============================================================================
