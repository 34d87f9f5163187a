-------------------------- MODULE FeatureFlagsProofs --------------------------
(***************************************************************************)
(* What FeatureFlags promises of what Redis holds, for any flags, pages,   *)
(* requests, changes in Unleash and failures.                              *)
(***************************************************************************)
EXTENDS FeatureFlags, FiniteSetTheorems, FunctionTheorems, TLAPS

\* A sync has deleted f's evaluation, and not passed f's metadata yet, or has.
Invalidating(p, f) == \/ proc[p].pc = "drop_evals" /\ f \notin proc[p].todo
                      \/ proc[p].pc = "drop_metas"

\* An evaluation, metadata, or a list entry of version v of f is older than some
\* invalidation that has deleted the entry of f, complete or under way.
OldEval(f, v) == v < floor[f] \/ \E p \in Procs : Invalidating(p, f) /\ v < proc[p].base[f]

OldMeta(f, v) == v < floor[f] \/ \E p \in Procs :
  proc[p].pc = "drop_metas" /\ f \notin proc[p].todo /\ v < proc[p].base[f]

OldEntry(f, v) == v < floor[f] \/ \E p \in Procs :
  proc[p].pc \in {"drop_evals", "drop_metas"} /\ v < proc[p].base[f]

\* What is old is marked: what Redis holds, and what a request is about to store.
MetaMarked(m, f) == m # None /\ OldMeta(f, m.ver) => m.raced

EvalMarked(e, f) == e # None /\ e.ver # 0 /\ OldEval(f, e.ver) => e.raced

ListMarked(l) == \A f \in Flags : l.got[f] # 0 /\ OldEntry(f, l.got[f]) => l.raced

HeldMarked(q) ==
  /\ q.pc = "meta_set" /\ OldEval(q.flag, q.ver) => q.raced
  /\ q.pc = "eval_set" => EvalMarked(q.ans, q.flag)
  /\ q.pc \in {"page", "list_set"} => ListMarked(q.fetched)

Marked ==
  /\ \A f \in Flags : MetaMarked(meta[f], f) /\ EvalMarked(evals[f], f)
  /\ list # None => ListMarked(list)
  /\ \A p \in Procs : HeldMarked(proc[p])

\* The flags that were there all the time are on the list, as far as it goes.
Whole(l) == l.partial \/ l.shifted \/ \A f \in l.steady : l.got[f] # 0

Sofar(l, offset) ==
  l.shifted \/ \A f \in l.steady : f \in Present /\ (Rank(f) <= offset => l.got[f] # 0)

Gapless ==
  /\ list # None => Whole(list)
  /\ \A p \in Procs : /\ proc[p].pc = "page" => Sofar(proc[p].fetched, proc[p].offset)
                      /\ proc[p].pc = "list_set" => Whole(proc[p].fetched)

\* A request is about a flag, has a version of it, an evaluation to store; no
\* invalidation knows a version that is still to come.
CoherentAt(q) ==
  /\ q.pc \in {"eval_get", "meta_get", "fetch", "meta_set", "eval_set"} => q.flag \in Flags
  /\ q.pc = "meta_set" => q.ver # 0
  /\ q.pc = "eval_set" => q.ans # None
  /\ \A f \in Flags : q.base[f] <= Len(log[f])

Coherent ==
  /\ \A f \in Flags : floor[f] <= Len(log[f])
  /\ \A p \in Procs : CoherentAt(proc[p])

IInv == TypeOK /\ Coherent /\ Marked /\ Gapless

-----------------------------------------------------------------------------
(***************************************************************************)
(* Pages.                                                                  *)
(***************************************************************************)

\* The flags up to f, of a set of flags.
UpTo(P, f) == {g \in P : g <= f}

\* Ranks number the flags that are present.
LEMMA RankBijection ==
  ASSUME NEW P, IsFiniteSet(P), P \subseteq Nat
  PROVE  /\ \A f \in P : Cardinality(UpTo(P, f)) \in 1..Cardinality(P)
         /\ [f \in P |-> Cardinality(UpTo(P, f))] \in Surjection(P, 1..Cardinality(P))
<1> DEFINE n == Cardinality(P)
           r == [f \in P |-> Cardinality(UpTo(P, f))]
<1>1. n \in Nat
  BY FS_CardinalityType
<1>2. ASSUME NEW f \in P
      PROVE  /\ IsFiniteSet(UpTo(P, f)) /\ Cardinality(UpTo(P, f)) \in 1..n
  <2>1. UpTo(P, f) \in SUBSET P /\ f \in UpTo(P, f)
    BY DEF UpTo
  <2>2. IsFiniteSet(UpTo(P, f)) /\ Cardinality(UpTo(P, f)) <= n
    BY <2>1, FS_Subset
  <2>3. Cardinality(UpTo(P, f)) \in Nat /\ Cardinality(UpTo(P, f)) # 0
    BY <2>1, <2>2, FS_CardinalityType, FS_EmptySet
  <2> QED
    BY <1>1, <2>2, <2>3
<1>3. ASSUME NEW f \in P, NEW g \in P, f < g
      PROVE  Cardinality(UpTo(P, f)) # Cardinality(UpTo(P, g))
  <2>1. UpTo(P, f) \in SUBSET UpTo(P, g) /\ g \in UpTo(P, g) /\ g \notin UpTo(P, f)
    <3>1. f \in Nat /\ g \in Nat
      OBVIOUS
    <3>2. \A h \in P : h \in Nat /\ (h <= f => h <= g)
      BY <1>3, <3>1
    <3>3. ~ (g <= f)
      BY <1>3, <3>1
    <3>4. UpTo(P, f) \subseteq UpTo(P, g)
      BY <3>2 DEF UpTo
    <3>5. g \in UpTo(P, g) /\ g \notin UpTo(P, f)
      BY <3>1, <3>3 DEF UpTo
    <3> QED
      BY <3>4, <3>5
  <2>2. UpTo(P, f) # UpTo(P, g)
    BY <2>1
  <2> QED
    BY <1>2, <2>1, <2>2, FS_Subset
<1>4. r \in [P -> 1..n]
  BY <1>2
<1>5. \A f, g \in P : r[f] = r[g] => f = g
  <2> SUFFICES ASSUME NEW f \in P, NEW g \in P, f # g PROVE r[f] # r[g]
    OBVIOUS
  <2>1. f < g \/ g < f
    OBVIOUS
  <2> QED
    BY <1>3, <2>1
<1>6. r \in Injection(P, 1..n)
  BY <1>4, <1>5 DEF Injection, IsInjective
<1>7. IsFiniteSet(1..n) /\ Cardinality(1..n) = n
  BY <1>1, FS_Interval
<1>8. r \in Surjection(P, 1..n)
  BY <1>6, <1>7, FS_Injection
<1> QED
  BY <1>2, <1>8

\* A page that is not full ends the list: whatever comes after the offset is on it.
LEMMA ShortPage ==
  ASSUME NEW P, IsFiniteSet(P), P \subseteq Nat, NEW o \in Nat, NEW k \in Nat,
         Cardinality({f \in P : Cardinality(UpTo(P, f)) \in (o + 1)..(o + k)}) < k,
         NEW f \in P, Cardinality(UpTo(P, f)) > o
  PROVE  Cardinality(UpTo(P, f)) \in (o + 1)..(o + k)
<1> DEFINE n == Cardinality(P)
           page == {g \in P : Cardinality(UpTo(P, g)) \in (o + 1)..(o + k)}
           r == [g \in P |-> Cardinality(UpTo(P, g))]
           s == [g \in page |-> Cardinality(UpTo(P, g))]
<1>1. n \in Nat /\ r \in Surjection(P, 1..n) /\ Cardinality(UpTo(P, f)) \in 1..n
  BY RankBijection, FS_CardinalityType
<1> SUFFICES ASSUME Cardinality(UpTo(P, f)) > o + k PROVE FALSE
  BY <1>1
<1>2. (o + 1)..(o + k) \subseteq 1..n
  BY <1>1
<1>3. s \in Surjection(page, (o + 1)..(o + k))
  <2>1. s \in [page -> (o + 1)..(o + k)]
    OBVIOUS
  <2>2. ASSUME NEW i \in (o + 1)..(o + k) PROVE \E g \in page : s[g] = i
    <3>1. PICK g \in P : r[g] = i
      BY <1>1, <1>2 DEF Surjection
    <3> QED
      BY <3>1
  <2> QED
    BY <2>1, <2>2 DEF Surjection
<1>4. IsFiniteSet(page)
  BY FS_Subset
<1>5. Cardinality((o + 1)..(o + k)) <= Cardinality(page)
  BY <1>3, <1>4, FS_Surjection
<1>6. Cardinality((o + 1)..(o + k)) = k
  BY FS_Interval
<1>7. Cardinality(page) < k /\ Cardinality(page) \in Nat
  BY <1>4, FS_CardinalityType
<1> QED
  BY <1>5, <1>6, <1>7

-----------------------------------------------------------------------------
(***************************************************************************)
(* Steps.                                                                  *)
(***************************************************************************)

\* As long as no sync deletes a key, nothing grows old.
LEMMA NothingAges ==
  ASSUME NEW p \in Procs, NEW q, q.pc \notin {"drop_evals", "drop_metas"},
         proc \in [Procs -> Locals], proc' = [proc EXCEPT ![p] = q], floor' = floor,
         NEW f \in Flags, NEW v
  PROVE  /\ OldEval(f, v)' => OldEval(f, v)
         /\ OldMeta(f, v)' => OldMeta(f, v)
         /\ OldEntry(f, v)' => OldEntry(f, v)
<1>1. \A x \in Procs : proc'[x].pc \in {"drop_evals", "drop_metas"} => proc'[x] = proc[x]
  OBVIOUS
<1> QED
  BY <1>1 DEF OldEval, OldMeta, OldEntry, Invalidating

\* A request goes on with the locals q, and may store what is marked as it must be.
LEMMA Moves ==
  ASSUME IInv, NEW p \in Procs, NEW q \in Locals, proc' = [proc EXCEPT ![p] = q],
         q.pc \notin {"drop_evals", "drop_metas"}, CoherentAt(q), HeldMarked(q),
         q.pc = "page" => Sofar(q.fetched, q.offset), q.pc = "list_set" => Whole(q.fetched),
         UNCHANGED <<log, floor>>, faults' \in 0..MaxFaults,
         evals' \in [Flags -> Evals \cup {None}], meta' \in [Flags -> Metas \cup {None}],
         list' \in Lists \cup {None},
         \A f \in Flags : MetaMarked(meta'[f], f) /\ EvalMarked(evals'[f], f),
         list' # None => ListMarked(list') /\ Whole(list')
  PROVE  IInv'
<1>1. TypeOK /\ Coherent /\ Marked /\ Gapless
  BY DEF IInv
<1>2. proc \in [Procs -> Locals] /\ proc'[p] = q /\ \A x \in Procs : x # p => proc'[x] = proc[x]
  BY <1>1 DEF TypeOK
<1>3. TypeOK'
  <2>1. proc' \in [Procs -> Locals]
    BY <1>2
  <2> QED
    BY <1>1, <2>1 DEF TypeOK
<1>4. Coherent'
  BY <1>1, <1>2 DEF Coherent, CoherentAt
<1>5. ASSUME NEW f \in Flags, NEW v
      PROVE  /\ OldEval(f, v)' => OldEval(f, v)
             /\ OldMeta(f, v)' => OldMeta(f, v)
             /\ OldEntry(f, v)' => OldEntry(f, v)
  BY <1>2, NothingAges
<1>6. Marked'
  <2>1. ASSUME NEW f \in Flags PROVE (MetaMarked(meta[f], f) /\ EvalMarked(evals[f], f))'
    <3>1. MetaMarked(meta'[f], f) /\ EvalMarked(evals'[f], f)
      OBVIOUS
    <3> QED
      BY <1>5, <3>1 DEF MetaMarked, EvalMarked
  <2>2. (list # None => ListMarked(list))'
    BY <1>5 DEF ListMarked
  <2>3. ASSUME NEW x \in Procs PROVE HeldMarked(proc[x])'
    <3>1. HeldMarked(proc'[x]) /\ CoherentAt(proc'[x])
      BY <1>1, <1>2 DEF Marked, Coherent
    <3>2. PICK h : h = proc'[x]
      OBVIOUS
    <3>3. HeldMarked(h) /\ CoherentAt(h)
      BY <3>1, <3>2
    <3>4. h.pc = "meta_set" /\ OldEval(h.flag, h.ver)' => h.raced
      BY <1>5, <3>3 DEF HeldMarked, CoherentAt
    <3>5. h.pc = "eval_set" /\ h.ans.ver # 0 /\ OldEval(h.flag, h.ans.ver)' => h.ans.raced
      BY <1>5, <3>3 DEF HeldMarked, CoherentAt, EvalMarked
    <3>6. h.pc \in {"page", "list_set"} =>
            \A f \in Flags : h.fetched.got[f] # 0 /\ OldEntry(f, h.fetched.got[f])' => h.fetched.raced
      BY <1>5, <3>3 DEF HeldMarked, ListMarked
    <3> QED
      BY <3>2, <3>4, <3>5, <3>6 DEF HeldMarked, EvalMarked, ListMarked
  <2> QED
    BY <2>1, <2>2, <2>3 DEF Marked
<1>7. Gapless'
  <2>1. (list # None => Whole(list))'
    BY DEF Whole
  <2>2. ASSUME NEW x \in Procs
        PROVE  (/\ proc[x].pc = "page" => Sofar(proc[x].fetched, proc[x].offset)
                /\ proc[x].pc = "list_set" => Whole(proc[x].fetched))'
    <3>1. /\ proc'[x].pc = "page" => Sofar(proc'[x].fetched, proc'[x].offset)
          /\ proc'[x].pc = "list_set" => Whole(proc'[x].fetched)
      BY <1>1, <1>2 DEF Gapless
    <3>2. \A f : Now(f)' = Now(f) /\ Rank(f)' = Rank(f)
      BY DEF Now, Rank, Present
    <3> QED
      BY <3>1, <3>2 DEF Sofar, Whole, Present
  <2> QED
    BY <2>1, <2>2 DEF Gapless
<1> QED
  BY <1>3, <1>4, <1>6, <1>7 DEF IInv

\* A request that stores nothing.
LEMMA Looks ==
  ASSUME IInv, NEW p \in Procs, NEW q \in Locals, proc' = [proc EXCEPT ![p] = q],
         q.pc \notin {"drop_evals", "drop_metas"}, CoherentAt(q), HeldMarked(q),
         q.pc = "page" => Sofar(q.fetched, q.offset), q.pc = "list_set" => Whole(q.fetched),
         UNCHANGED <<log, evals, meta, list, floor>>, faults' \in 0..MaxFaults
  PROVE  IInv'
<1>1. TypeOK /\ Marked /\ Gapless
  BY DEF IInv
<1>2. \A f \in Flags : MetaMarked(meta'[f], f) /\ EvalMarked(evals'[f], f)
  BY <1>1 DEF Marked
<1>3. list' # None => ListMarked(list') /\ Whole(list')
  BY <1>1 DEF Marked, Gapless
<1>4. /\ evals' \in [Flags -> Evals \cup {None}] /\ meta' \in [Flags -> Metas \cup {None}]
      /\ list' \in Lists \cup {None}
  BY <1>1 DEF TypeOK
<1> QED
  BY <1>2, <1>3, <1>4, Moves

\* The locals a request starts with.
LEMMA AtLocals ==
  ASSUME NEW pc \in Points, NEW kind \in {"eval", "flag", "list", "sync"},
         NEW f \in Flags \cup {NoFlag}, NEW def \in BOOLEAN
  PROVE  /\ At(pc, kind, f, def) \in Locals /\ At(pc, kind, f, def).pc = pc
         /\ At(pc, kind, f, def).flag = f /\ At(pc, kind, f, def).kind = kind
         /\ \A g \in Flags : At(pc, kind, f, def).base[g] = 0
         /\ At(pc, kind, f, def).fetched = NothingFetched
<1>1. NothingFetched \in Lists
  BY DEF NothingFetched, Lists
<1>2. [g \in Flags |-> 0] \in [Flags -> Nat]
  OBVIOUS
<1> QED
  BY <1>1, <1>2 DEF At, Locals

\* The numbers of versions.
LEMMA Versions ==
  ASSUME TypeOK, NEW f \in Flags
  PROVE  Len(log[f]) \in Nat \ {0} /\ log[f] \in Seq(States)
<1>1. log[f] \in Seq(States) /\ log[f] # <<>>
  BY DEF TypeOK
<1> QED
  BY <1>1

\* A request that starts, or waits for what the first line of its endpoint reads.
LEMMA Begins ==
  ASSUME IInv, NEW p \in Procs, NEW pc \in {"idle", "eval_get", "meta_get", "list_get"},
         NEW kind \in {"eval", "flag", "list", "sync"}, NEW f \in Flags \cup {NoFlag},
         NEW def \in BOOLEAN, pc \in {"eval_get", "meta_get"} => f \in Flags,
         proc' = [proc EXCEPT ![p] = At(pc, kind, f, def)],
         UNCHANGED <<log, evals, meta, list, floor>>, faults' \in 0..MaxFaults
  PROVE  IInv'
<1> DEFINE q == At(pc, kind, f, def)
<1>1. q \in Locals /\ q.pc = pc /\ q.flag = f /\ \A g \in Flags : q.base[g] = 0
  BY AtLocals DEF Points
<1>2. \A g \in Flags : Len(log[g]) \in Nat
  BY Versions DEF IInv
<1> HIDE DEF q
<1>3. CoherentAt(q) /\ HeldMarked(q)
  BY <1>1, <1>2 DEF CoherentAt, HeldMarked
<1>4. PICK x \in Locals : x = q
  BY <1>1
<1>5. proc' = [proc EXCEPT ![p] = x] /\ x.pc \notin {"drop_evals", "drop_metas", "page", "list_set"}
  BY <1>1, <1>4 DEF q
<1> QED
  BY <1>3, <1>4, <1>5, Looks

\* A request ends.
LEMMA Returns ==
  ASSUME IInv, NEW p \in Procs, Return(p), UNCHANGED <<log, evals, meta, list, floor>>,
         faults' \in 0..MaxFaults
  PROVE  IInv'
BY Begins DEF Return, Idle

\* A request that starts has nothing in hand.
LEMMA StartsInv ==
  ASSUME IInv, NEW p \in Procs,
         \/ \E f \in Flags, def \in BOOLEAN : StartEval(p, f, def)
         \/ \E f \in Flags : StartFlag(p, f)
         \/ StartList(p)
  PROVE  IInv'
<1>1. faults \in 0..MaxFaults
  BY DEF IInv, TypeOK
<1>2. ASSUME NEW f \in Flags, NEW def \in BOOLEAN, StartEval(p, f, def) PROVE IInv'
  BY <1>1, <1>2, Begins DEF StartEval
<1>3. ASSUME NEW f \in Flags, StartFlag(p, f) PROVE IInv'
  BY <1>1, <1>3, Begins DEF StartFlag
<1>4. CASE StartList(p)
  BY <1>1, <1>4, Begins DEF StartList
<1> QED
  BY <1>2, <1>3, <1>4

\* A sync notes the versions there are.
LEMMA StartSyncInv ==
  ASSUME IInv, NEW p \in Procs, StartSync(p)
  PROVE  IInv'
<1> DEFINE q == [At("drop_list", "sync", NoFlag, FALSE) EXCEPT !.base = [f \in Flags |-> Len(log[f])]]
<1>1. TypeOK /\ faults \in 0..MaxFaults
  BY DEF IInv, TypeOK
<1>2. /\ At("drop_list", "sync", NoFlag, FALSE) \in Locals
      /\ At("drop_list", "sync", NoFlag, FALSE).pc = "drop_list"
  <2>1. PICK pc \in Points : pc = "drop_list"
    BY DEF Points
  <2>2. PICK kind \in {"eval", "flag", "list", "sync"} : kind = "sync"
    OBVIOUS
  <2>3. PICK def \in BOOLEAN : def = FALSE
    OBVIOUS
  <2>4. At(pc, kind, NoFlag, def) \in Locals /\ At(pc, kind, NoFlag, def).pc = pc
    BY AtLocals
  <2> QED
    BY <2>1, <2>2, <2>3, <2>4
<1>3. \A f \in Flags : Len(log[f]) \in Nat
  BY <1>1, Versions
<1>4. q \in Locals /\ q.pc = "drop_list" /\ \A f \in Flags : q.base[f] = Len(log[f])
  BY <1>2, <1>3 DEF Locals
<1>5. proc' = [proc EXCEPT ![p] = q]
  BY DEF StartSync
<1> HIDE DEF q
<1>6. CoherentAt(q) /\ HeldMarked(q)
  BY <1>3, <1>4 DEF CoherentAt, HeldMarked
<1>7. PICK x \in Locals : x = q
  BY <1>4
<1>8. /\ proc' = [proc EXCEPT ![p] = x] /\ CoherentAt(x) /\ HeldMarked(x)
      /\ x.pc \notin {"drop_evals", "drop_metas", "page", "list_set"}
  BY <1>4, <1>5, <1>6, <1>7
<1> QED
  BY <1>1, <1>7, <1>8, Looks DEF StartSync

\* The locals of a request that ends.
LEMMA IdleLocals ==
  ASSUME TypeOK
  PROVE  Idle \in Locals /\ Idle.pc = "idle" /\ CoherentAt(Idle) /\ HeldMarked(Idle)
<1>1. PICK pc \in Points : pc = "idle"
  BY DEF Points
<1>2. PICK kind \in {"eval", "flag", "list", "sync"} : kind = "list"
  OBVIOUS
<1>3. PICK f \in Flags \cup {NoFlag}, def \in BOOLEAN : f = NoFlag /\ def = FALSE
  OBVIOUS
<1>4. /\ At(pc, kind, f, def) \in Locals /\ At(pc, kind, f, def).pc = pc
      /\ \A g \in Flags : At(pc, kind, f, def).base[g] = 0
  BY AtLocals
<1>5. Idle \in Locals /\ Idle.pc = "idle" /\ \A g \in Flags : Idle.base[g] = 0
  BY <1>1, <1>2, <1>3, <1>4 DEF Idle
<1>6. \A g \in Flags : Len(log[g]) \in Nat
  BY Versions
<1> QED
  BY <1>5, <1>6 DEF CoherentAt, HeldMarked

\* A lookup that has found version ver (none that counts: 0), whose evaluation is marked
\* if it is old: the request ends, or has an evaluation to store.
LEMMA Finds ==
  ASSUME TypeOK, Coherent, NEW p \in Procs, proc[p].flag \in Flags, NEW state,
         NEW ver \in Nat, NEW raced \in BOOLEAN,
         ver # 0 /\ OldEval(proc[p].flag, ver) => raced, Found(p, state, ver, raced)
  PROVE  \E q \in Locals :
           /\ proc' = [proc EXCEPT ![p] = q] /\ q.pc \in {"idle", "eval_set"}
           /\ CoherentAt(q) /\ HeldMarked(q)
<1>1. proc[p] \in Locals /\ proc[p].def \in BOOLEAN /\ \A f \in Flags : Len(log[f]) \in Nat
  BY Versions DEF TypeOK, Locals
<1>2. CASE Return(p)
  BY <1>2, IdleLocals DEF Return
<1>3. ASSUME NEW reason \in {"ERROR", "DISABLED", "MATCH"}, NEW val \in BOOLEAN,
             proc' = [proc EXCEPT ![p] = [At("eval_set", "eval", proc[p].flag, proc[p].def) EXCEPT
               !.ans = [reason |-> reason, val |-> val, ver |-> ver, raced |-> raced]]]
      PROVE  \E q \in Locals :
               /\ proc' = [proc EXCEPT ![p] = q] /\ q.pc \in {"idle", "eval_set"}
               /\ CoherentAt(q) /\ HeldMarked(q)
  <2> DEFINE e == [reason |-> reason, val |-> val, ver |-> ver, raced |-> raced]
             q == [At("eval_set", "eval", proc[p].flag, proc[p].def) EXCEPT !.ans = e]
  <2>1. PICK pc \in Points : pc = "eval_set"
    BY DEF Points
  <2>2. PICK kind \in {"eval", "flag", "list", "sync"} : kind = "eval"
    OBVIOUS
  <2>3. PICK f \in Flags, def \in BOOLEAN : f = proc[p].flag /\ def = proc[p].def
    BY <1>1
  <2>4. /\ At(pc, kind, f, def) \in Locals /\ At(pc, kind, f, def).pc = pc
        /\ At(pc, kind, f, def).flag = f
        /\ \A g \in Flags : At(pc, kind, f, def).base[g] = 0
    BY AtLocals
  <2>5. e \in Evals /\ e # None /\ e.ver = ver /\ e.raced = raced
    BY NoneAssumption DEF Evals
  <2>6. /\ q \in Locals /\ q.pc = "eval_set" /\ q.flag = f /\ q.ans = e
        /\ \A g \in Flags : q.base[g] = 0
    BY <2>1, <2>2, <2>3, <2>4, <2>5 DEF Locals
  <2>7. proc' = [proc EXCEPT ![p] = q]
    BY <1>3
  <2> HIDE DEF q, e
  <2>8. CoherentAt(q)
    BY <1>1, <2>5, <2>6 DEF CoherentAt
  <2>9. HeldMarked(q)
    BY <2>3, <2>5, <2>6 DEF HeldMarked, EvalMarked
  <2> QED
    BY <2>6, <2>7, <2>8, <2>9
<1> QED
  BY <1>1, <1>2, <1>3 DEF Found

\* No version that Unleash has now is old.
LEMMA NowIsNew ==
  ASSUME TypeOK, Coherent, NEW f \in Flags
  PROVE  ~ OldEval(f, Len(log[f])) /\ ~ OldMeta(f, Len(log[f])) /\ ~ OldEntry(f, Len(log[f]))
<1>1. Len(log[f]) \in Nat /\ floor[f] \in Nat /\ floor[f] <= Len(log[f])
  BY Versions DEF TypeOK, Coherent
<1>2. \A p \in Procs : proc[p].base[f] \in Nat /\ proc[p].base[f] <= Len(log[f])
  BY DEF TypeOK, Coherent, CoherentAt, Locals
<1> QED
  BY <1>1, <1>2 DEF OldEval, OldMeta, OldEntry

\* An evaluation that is not cached goes on to the metadata.
LEMMA EvalGetInv ==
  ASSUME IInv, NEW p \in Procs, EvalGet(p)
  PROVE  IInv'
<1>1. TypeOK /\ Coherent /\ faults \in 0..MaxFaults /\ proc[p] \in Locals
  BY DEF IInv, TypeOK
<1>2. CASE Return(p)
  BY <1>1, <1>2, Returns DEF EvalGet
<1>3. CASE proc' = [proc EXCEPT ![p].pc = "meta_get"]
  <2> DEFINE q == [proc[p] EXCEPT !.pc = "meta_get"]
  <2>1. /\ q \in Locals /\ q.pc = "meta_get" /\ q.flag = proc[p].flag /\ q.base = proc[p].base
        /\ proc[p].pc = "eval_get"
    BY <1>1 DEF Locals, Points, EvalGet
  <2>2. proc' = [proc EXCEPT ![p] = q]
    BY <1>3
  <2> HIDE DEF q
  <2>3. CoherentAt(q) /\ HeldMarked(q)
    BY <1>1, <2>1 DEF Coherent, CoherentAt, HeldMarked
  <2>4. PICK x \in Locals : x = q
    BY <2>1
  <2>5. /\ proc' = [proc EXCEPT ![p] = x] /\ CoherentAt(x) /\ HeldMarked(x)
        /\ x.pc \notin {"drop_evals", "drop_metas", "page", "list_set"}
    BY <2>1, <2>2, <2>3, <2>4
  <2> QED
    BY <1>1, <2>4, <2>5, Looks DEF EvalGet
<1> QED
  BY <1>2, <1>3 DEF EvalGet

\* An evaluation found between the two deletions of a sync, or made from old metadata,
\* is marked.
LEMMA MetaGetInv ==
  ASSUME IInv, NEW p \in Procs, MetaGet(p)
  PROVE  IInv'
<1>1. /\ TypeOK /\ Coherent /\ Marked /\ faults \in 0..MaxFaults /\ proc[p] \in Locals
      /\ proc[p].pc = "meta_get" /\ UNCHANGED <<log, evals, meta, list, floor, faults>>
  BY DEF IInv, TypeOK, MetaGet
<1>2. PICK f \in Flags : f = proc[p].flag
  BY <1>1 DEF Coherent, CoherentAt
<1>3. CASE meta[f] = None
  <2> DEFINE q == [proc[p] EXCEPT !.pc = "fetch"]
  <2>1. /\ q \in Locals /\ q.pc = "fetch" /\ q.flag = proc[p].flag /\ q.base = proc[p].base
    BY <1>1 DEF Locals, Points
  <2>2. proc' = [proc EXCEPT ![p] = q]
    BY <1>2, <1>3 DEF MetaGet
  <2> HIDE DEF q
  <2>3. CoherentAt(q) /\ HeldMarked(q)
    BY <1>1, <2>1 DEF Coherent, CoherentAt, HeldMarked
  <2>4. PICK x \in Locals : x = q
    BY <2>1
  <2>5. /\ proc' = [proc EXCEPT ![p] = x] /\ CoherentAt(x) /\ HeldMarked(x)
        /\ x.pc \notin {"drop_evals", "drop_metas", "page", "list_set"}
    BY <2>1, <2>2, <2>3, <2>4
  <2> QED
    BY <1>1, <2>4, <2>5, Looks
<1>4. CASE meta[f] # None
  <2>1. PICK m \in Metas : m = meta[f]
    BY <1>1, <1>4 DEF TypeOK
  <2>2. m.ver \in Nat /\ m.raced \in BOOLEAN
    BY <2>1 DEF Metas
  <2>3. PICK raced \in BOOLEAN : raced = (m.raced \/ HalfDropped(f))
    BY <2>2
  <2>4. OldEval(f, m.ver) => m.raced \/ HalfDropped(f)
    <3>1. OldMeta(f, m.ver) => m.raced
      BY <1>1, <1>4, <2>1 DEF Marked, MetaMarked
    <3>2. OldEval(f, m.ver) => OldMeta(f, m.ver) \/ HalfDropped(f)
      BY DEF OldEval, OldMeta, Invalidating, HalfDropped
    <3> QED
      BY <3>1, <3>2
  <2>5. Found(p, log[f][m.ver], m.ver, raced)
    BY <1>2, <1>4, <2>1, <2>3 DEF MetaGet
  <2>6. PICK state : state = log[f][m.ver]
    OBVIOUS
  <2>7. m.ver # 0 /\ OldEval(proc[p].flag, m.ver) => raced
    BY <1>2, <2>3, <2>4
  <2>8. PICK ver \in Nat : ver = m.ver
    BY <2>2
  <2>9. PICK q \in Locals : /\ proc' = [proc EXCEPT ![p] = q] /\ q.pc \in {"idle", "eval_set"}
                            /\ CoherentAt(q) /\ HeldMarked(q)
    BY <1>1, <1>2, <2>5, <2>6, <2>7, <2>8, Finds
  <2> QED
    BY <1>1, <2>9, Looks
<1> QED
  BY <1>3, <1>4

\* What is fetched is not old.
LEMMA FetchInv ==
  ASSUME IInv, NEW p \in Procs, Fetch(p)
  PROVE  IInv'
<1>1. /\ TypeOK /\ Coherent /\ Marked /\ faults \in 0..MaxFaults /\ proc[p] \in Locals
      /\ proc[p].pc = "fetch" /\ UNCHANGED <<log, evals, meta, list, floor, faults>>
  BY DEF IInv, TypeOK, Fetch
<1>2. PICK f \in Flags : f = proc[p].flag
  BY <1>1 DEF Coherent, CoherentAt
<1>3. PICK ver \in Nat : ver = Len(log[f]) /\ ver # 0
  BY <1>1, Versions
<1>4. ~ OldEval(f, ver)
  BY <1>1, <1>3, NowIsNew
<1>5. CASE Now(f) = "absent"
  <2>1. PICK raced \in BOOLEAN : raced = FALSE
    OBVIOUS
  <2>2. Found(p, "absent", ver, raced)
    BY <1>2, <1>3, <1>5, <2>1 DEF Fetch
  <2>3. PICK q \in Locals : /\ proc' = [proc EXCEPT ![p] = q] /\ q.pc \in {"idle", "eval_set"}
                            /\ CoherentAt(q) /\ HeldMarked(q)
    BY <1>1, <1>2, <1>4, <2>2, Finds
  <2> QED
    BY <1>1, <2>3, Looks
<1>6. CASE Now(f) # "absent"
  <2> DEFINE q == [proc[p] EXCEPT !.pc = "meta_set", !.ver = ver]
  <2>1. /\ q \in Locals /\ q.pc = "meta_set" /\ q.flag = f /\ q.base = proc[p].base
        /\ q.ver = ver
    BY <1>1, <1>2 DEF Locals, Points
  <2>2. proc' = [proc EXCEPT ![p] = q]
    BY <1>2, <1>3, <1>6 DEF Fetch
  <2> HIDE DEF q
  <2>3. CoherentAt(q) /\ HeldMarked(q)
    BY <1>1, <1>3, <1>4, <2>1 DEF Coherent, CoherentAt, HeldMarked
  <2>4. PICK x \in Locals : x = q
    BY <2>1
  <2>5. /\ proc' = [proc EXCEPT ![p] = x] /\ CoherentAt(x) /\ HeldMarked(x)
        /\ x.pc \notin {"drop_evals", "drop_metas", "page", "list_set"}
    BY <2>1, <2>2, <2>3, <2>4
  <2> QED
    BY <1>1, <2>4, <2>5, Looks
<1> QED
  BY <1>5, <1>6

\* What was marked while it was in a request's hands is stored as marked.
LEMMA MetaSetInv ==
  ASSUME IInv, NEW p \in Procs, MetaSet(p)
  PROVE  IInv'
<1>1. /\ TypeOK /\ Coherent /\ Marked /\ Gapless /\ faults \in 0..MaxFaults /\ proc[p] \in Locals
      /\ proc[p].pc = "meta_set" /\ UNCHANGED <<log, evals, list, floor, faults>>
  BY DEF IInv, TypeOK, MetaSet
<1>2. PICK f \in Flags : f = proc[p].flag
  BY <1>1 DEF Coherent, CoherentAt
<1>3. PICK ver \in Nat, raced \in BOOLEAN : ver = proc[p].ver /\ raced = proc[p].raced /\ ver # 0
  BY <1>1 DEF Coherent, CoherentAt, Locals
<1>4. OldEval(f, ver) => raced
  BY <1>1, <1>2, <1>3 DEF Marked, HeldMarked
<1>5. /\ meta' = [meta EXCEPT ![f] = [ver |-> ver, raced |-> raced]]
      /\ Found(p, log[f][ver], ver, raced)
  BY <1>2, <1>3 DEF MetaSet
<1>6. PICK state : state = log[f][ver]
  OBVIOUS
<1>7. PICK q \in Locals : /\ proc' = [proc EXCEPT ![p] = q] /\ q.pc \in {"idle", "eval_set"}
                          /\ CoherentAt(q) /\ HeldMarked(q)
  BY <1>1, <1>2, <1>4, <1>5, <1>6, Finds
<1>8. [ver |-> ver, raced |-> raced] \in Metas
  BY <1>3 DEF Metas
<1>9. meta' \in [Flags -> Metas \cup {None}]
  BY <1>1, <1>5, <1>8 DEF TypeOK
<1>10. ASSUME NEW g \in Flags PROVE MetaMarked(meta'[g], g) /\ EvalMarked(evals'[g], g)
  <2>1. EvalMarked(evals'[g], g) /\ MetaMarked(meta[g], g)
    BY <1>1 DEF Marked
  <2>2. CASE g = f
    <3>1. meta'[g] = [ver |-> ver, raced |-> raced]
      BY <1>1, <1>5, <2>2 DEF TypeOK
    <3>2. OldMeta(f, ver) => OldEval(f, ver)
      BY DEF OldMeta, OldEval, Invalidating
    <3> QED
      BY <1>4, <2>1, <2>2, <3>1, <3>2 DEF MetaMarked
  <2>3. CASE g # f
    <3>1. meta'[g] = meta[g]
      BY <1>1, <1>5, <2>3 DEF TypeOK
    <3> QED
      BY <2>1, <3>1
  <2> QED
    BY <2>2, <2>3
<1>11. /\ evals' \in [Flags -> Evals \cup {None}] /\ list' \in Lists \cup {None}
       /\ list' # None => ListMarked(list') /\ Whole(list')
  BY <1>1 DEF TypeOK, Marked, Gapless
<1>12. q.pc \notin {"drop_evals", "drop_metas", "page", "list_set"}
  BY <1>7
<1> QED
  BY <1>1, <1>7, <1>9, <1>10, <1>11, <1>12, Moves

\* A lookup that fails finds version 0, which does not count.
LEMMA LookupFailsInv ==
  ASSUME IInv, NEW p \in Procs, LookupFails(p)
  PROVE  IInv'
<1>1. /\ TypeOK /\ Coherent /\ faults' \in 0..MaxFaults
      /\ proc[p].pc \in {"fetch", "meta_set"} /\ UNCHANGED <<log, evals, meta, list, floor>>
  BY BoundsAssumption DEF IInv, TypeOK, LookupFails
<1>2. PICK ver \in Nat, raced \in BOOLEAN : ver = 0 /\ raced = FALSE
  OBVIOUS
<1>3. Found(p, "absent", ver, raced) /\ proc[p].flag \in Flags
  BY <1>1, <1>2 DEF LookupFails, Coherent, CoherentAt
<1>4. PICK q \in Locals : /\ proc' = [proc EXCEPT ![p] = q] /\ q.pc \in {"idle", "eval_set"}
                          /\ CoherentAt(q) /\ HeldMarked(q)
  BY <1>1, <1>2, <1>3, Finds
<1> QED
  BY <1>1, <1>4, Looks

\* What was marked while it was in a request's hands is stored as marked.
LEMMA EvalSetInv ==
  ASSUME IInv, NEW p \in Procs, EvalSet(p)
  PROVE  IInv'
<1>1. /\ TypeOK /\ Coherent /\ Marked /\ Gapless /\ faults' \in 0..MaxFaults /\ proc[p] \in Locals
      /\ proc[p].pc = "eval_set" /\ UNCHANGED <<log, meta, list, floor>>
  BY DEF IInv, TypeOK, EvalSet
<1>2. PICK f \in Flags : f = proc[p].flag
  BY <1>1 DEF Coherent, CoherentAt
<1>3. PICK e \in Evals : e = proc[p].ans
  BY <1>1 DEF Coherent, CoherentAt, Locals
<1>4. evals' = [evals EXCEPT ![f] = e] /\ EvalMarked(e, f)
  BY <1>1, <1>2, <1>3 DEF EvalSet, Marked, HeldMarked
<1>5. PICK q \in Locals : proc' = [proc EXCEPT ![p] = q] /\ q.pc = "idle" /\ CoherentAt(q) /\ HeldMarked(q)
  BY <1>1, IdleLocals DEF EvalSet, Return
<1>6. evals' \in [Flags -> Evals \cup {None}]
  BY <1>1, <1>4 DEF TypeOK
<1>7. ASSUME NEW g \in Flags PROVE MetaMarked(meta'[g], g) /\ EvalMarked(evals'[g], g)
  <2>1. EvalMarked(evals[g], g) /\ MetaMarked(meta'[g], g)
    BY <1>1 DEF Marked
  <2>2. evals'[g] = IF g = f THEN e ELSE evals[g]
    BY <1>1, <1>4 DEF TypeOK
  <2> QED
    BY <1>4, <2>1, <2>2
<1>8. /\ meta' \in [Flags -> Metas \cup {None}] /\ list' \in Lists \cup {None}
      /\ list' # None => ListMarked(list') /\ Whole(list')
  BY <1>1 DEF TypeOK, Marked, Gapless
<1>9. q.pc \notin {"drop_evals", "drop_metas", "page", "list_set"}
  BY <1>5
<1> QED
  BY <1>1, <1>5, <1>6, <1>7, <1>8, <1>9, Moves

\* A loop over the pages ends with a list that is marked and whole.
LEMMA Finishes ==
  ASSUME IInv, NEW p \in Procs, NEW l \in Lists, ListMarked(l), Whole(l), Finish(p, l),
         UNCHANGED <<log, evals, meta, list, floor>>, faults' \in 0..MaxFaults
  PROVE  IInv'
<1>1. CASE Return(p)
  BY <1>1, Returns
<1>2. CASE proc' = [proc EXCEPT ![p] = [At("list_set", "list", NoFlag, FALSE) EXCEPT !.fetched = l]]
  <2> DEFINE q == [At("list_set", "list", NoFlag, FALSE) EXCEPT !.fetched = l]
  <2>1. PICK pc \in Points : pc = "list_set"
    BY DEF Points
  <2>2. PICK kind \in {"eval", "flag", "list", "sync"} : kind = "list"
    OBVIOUS
  <2>3. PICK f \in Flags \cup {NoFlag}, def \in BOOLEAN : f = NoFlag /\ def = FALSE
    OBVIOUS
  <2>4. /\ At(pc, kind, f, def) \in Locals /\ At(pc, kind, f, def).pc = pc
        /\ \A g \in Flags : At(pc, kind, f, def).base[g] = 0
    BY AtLocals
  <2>5. /\ q \in Locals /\ q.pc = "list_set" /\ q.fetched = l
        /\ \A g \in Flags : q.base[g] = 0
    BY <2>1, <2>2, <2>3, <2>4 DEF Locals
  <2>6. \A g \in Flags : Len(log[g]) \in Nat
    BY Versions DEF IInv
  <2>7. PICK x \in Locals : x = q
    BY <2>5
  <2> HIDE DEF q
  <2>8. CoherentAt(x) /\ HeldMarked(x) /\ Whole(x.fetched)
    BY <2>5, <2>6, <2>7 DEF CoherentAt, HeldMarked
  <2>9. proc' = [proc EXCEPT ![p] = x]
    BY <1>2, <2>7 DEF q
  <2>10. x.pc \notin {"drop_evals", "drop_metas", "page"}
    BY <2>5, <2>7
  <2> QED
    BY <2>8, <2>9, <2>10, Looks
<1> QED
  BY <1>1, <1>2 DEF Finish

\* Flags that are present have ranks.
LEMMA Ranks ==
  ASSUME NEW f \in Present
  PROVE  /\ IsFiniteSet(Present) /\ Present \subseteq Nat
         /\ Rank(f) = Cardinality(UpTo(Present, f)) /\ Rank(f) \in Nat \ {0}
<1>1. Present \in SUBSET Flags
  BY DEF Present
<1>2. IsFiniteSet(Present) /\ Present \subseteq Nat
  BY <1>1, FS_Subset, FlagsAssumption
<1>3. Rank(f) = Cardinality(UpTo(Present, f))
  BY DEF Rank, UpTo
<1>4. Cardinality(UpTo(Present, f)) \in 1..Cardinality(Present)
  BY <1>2, RankBijection
<1> QED
  BY <1>2, <1>3, <1>4

\* No page has been read.
LEMMA ListGetInv ==
  ASSUME IInv, NEW p \in Procs, ListGet(p)
  PROVE  IInv'
<1>1. /\ TypeOK /\ faults' \in 0..MaxFaults /\ UNCHANGED <<log, evals, meta, list, floor>>
  BY DEF IInv, TypeOK, ListGet
<1>2. CASE Return(p)
  BY <1>1, <1>2, Returns
<1>3. CASE proc' = [proc EXCEPT ![p] = [At("page", "list", NoFlag, FALSE)
                      EXCEPT !.fetched = [NothingFetched EXCEPT !.steady = Present]]]
  <2> DEFINE l == [NothingFetched EXCEPT !.steady = Present]
             q == [At("page", "list", NoFlag, FALSE) EXCEPT !.fetched = l]
  <2>1. PICK pc \in Points : pc = "page"
    BY DEF Points
  <2>2. PICK kind \in {"eval", "flag", "list", "sync"} : kind = "list"
    OBVIOUS
  <2>3. PICK f \in Flags \cup {NoFlag}, def \in BOOLEAN : f = NoFlag /\ def = FALSE
    OBVIOUS
  <2>4. /\ At(pc, kind, f, def) \in Locals /\ At(pc, kind, f, def).pc = pc
        /\ \A g \in Flags : At(pc, kind, f, def).base[g] = 0
    BY AtLocals
  <2>5. l \in Lists /\ l.steady = Present /\ \A g \in Flags : l.got[g] = 0
    BY DEF Lists, NothingFetched, Present
  <2>6. At(pc, kind, f, def).offset = 0
    BY DEF At
  <2>7. /\ q \in Locals /\ q.pc = "page" /\ q.fetched = l /\ q.offset = 0
        /\ \A g \in Flags : q.base[g] = 0
    BY <2>1, <2>2, <2>3, <2>4, <2>5, <2>6 DEF Locals
  <2>8. \A g \in Flags : Len(log[g]) \in Nat
    BY <1>1, Versions
  <2>9. PICK x \in Locals : x = q
    BY <2>7
  <2>10. proc' = [proc EXCEPT ![p] = x]
    BY <1>3, <2>9
  <2> HIDE DEF q, l
  <2>11. CoherentAt(x) /\ HeldMarked(x)
    BY <2>5, <2>7, <2>8, <2>9 DEF CoherentAt, HeldMarked, ListMarked
  <2>12. Sofar(x.fetched, x.offset)
    BY <2>5, <2>7, <2>9, Ranks DEF Sofar
  <2>13. x.pc = "page"
    BY <2>7, <2>9
  <2> QED
    BY <1>1, <2>10, <2>11, <2>12, <2>13, Looks
<1> QED
  BY <1>2, <1>3 DEF ListGet

\* A page adds the versions of its flags.
LEMMA WithPageLists ==
  ASSUME TypeOK, NEW l \in Lists, NEW page \in SUBSET Flags
  PROVE  /\ WithPage(l, page) \in Lists
         /\ \A f \in Flags : WithPage(l, page).got[f] = IF f \in page THEN Len(log[f]) ELSE l.got[f]
         /\ WithPage(l, page).steady = l.steady /\ WithPage(l, page).shifted = l.shifted
         /\ WithPage(l, page).raced = l.raced /\ WithPage(l, page).partial = l.partial
<1>1. \A f \in Flags : Len(log[f]) \in Nat
  BY Versions
<1> QED
  BY <1>1 DEF WithPage, Lists

\* A page adds versions that are not old, and no steady flag is passed over.
LEMMA FetchPageInv ==
  ASSUME IInv, NEW p \in Procs, FetchPage(p)
  PROVE  IInv'
<1> DEFINE page == Page(proc[p].offset)
           l == WithPage(proc[p].fetched, page)
<1>1. /\ TypeOK /\ Coherent /\ Marked /\ Gapless /\ faults' \in 0..MaxFaults /\ proc[p] \in Locals
      /\ proc[p].pc = "page" /\ UNCHANGED <<log, evals, meta, list, floor>>
  BY DEF IInv, TypeOK, FetchPage
<1>2. PICK o \in Nat, old \in Lists : o = proc[p].offset /\ old = proc[p].fetched
  BY <1>1 DEF Locals
<1>3. page = {f \in Present : Rank(f) \in (o + 1)..(o + PageSize)} /\ page \in SUBSET Flags
  BY <1>2 DEF Page, Present
<1>4. /\ l \in Lists /\ l.steady = old.steady /\ l.shifted = old.shifted /\ l.raced = old.raced
      /\ \A f \in Flags : l.got[f] = IF f \in page THEN Len(log[f]) ELSE old.got[f]
  BY <1>1, <1>2, <1>3, WithPageLists
<1>5. ListMarked(old) /\ Sofar(old, o)
  BY <1>1, <1>2 DEF Marked, HeldMarked, Gapless
<1>6. ListMarked(l)
  <2> SUFFICES ASSUME NEW f \in Flags, l.got[f] # 0, OldEntry(f, l.got[f])
               PROVE  l.raced
    BY DEF ListMarked
  <2>1. l.got[f] = old.got[f]
    BY <1>1, <1>4, NowIsNew
  <2> QED
    BY <1>4, <1>5, <2>1 DEF ListMarked
<1>7. ASSUME ~ old.shifted, NEW f \in old.steady
      PROVE  f \in Present /\ f \in Flags /\ (Rank(f) <= o \/ f \in page => l.got[f] # 0)
             /\ Rank(f) \in Nat
  <2>1. f \in Present /\ (Rank(f) <= o => old.got[f] # 0)
    BY <1>5, <1>7 DEF Sofar
  <2>2. f \in Flags /\ Rank(f) \in Nat
    BY <2>1, Ranks DEF Present
  <2> QED
    BY <1>1, <1>4, <2>1, <2>2, Versions
<1>8. PageSize \in Nat /\ PageSize # 0
  BY PageAssumption
<1>9. PICK x \in Lists : x = l
  BY <1>4
<1>10. CASE Cardinality(page) < PageSize
  <2>1. Finish(p, x)
    BY <1>1, <1>9, <1>10 DEF FetchPage
  <2>2. Whole(x)
    <3> SUFFICES ASSUME ~ old.shifted, NEW f \in old.steady PROVE l.got[f] # 0
      BY <1>4, <1>9 DEF Whole
    <3>1. /\ f \in Present /\ f \in Flags /\ (Rank(f) <= o \/ f \in page => l.got[f] # 0)
          /\ Rank(f) \in Nat
      BY <1>7
    <3>2. PICK P : P = Present /\ IsFiniteSet(P) /\ P \subseteq Nat
      BY <3>1, Ranks
    <3>3. \A g \in P : Rank(g) = Cardinality(UpTo(P, g))
      BY <3>2, Ranks
    <3>4. page = {g \in P : Cardinality(UpTo(P, g)) \in (o + 1)..(o + PageSize)}
      BY <1>3, <3>2, <3>3
    <3>5. Rank(f) > o => Rank(f) \in (o + 1)..(o + PageSize)
      BY <1>8, <1>10, <3>1, <3>2, <3>3, <3>4, ShortPage
    <3>6. Rank(f) > o => f \in page
      BY <1>3, <3>1, <3>5
    <3> QED
      BY <3>1, <3>6
  <2> QED
    BY <1>1, <1>6, <1>9, <2>1, <2>2, Finishes
<1>11. CASE ~ (Cardinality(page) < PageSize)
  <2>1. PICK c \in Locals, n \in Nat : c = proc[p] /\ n = o + PageSize
    BY <1>1, <1>8
  <2> DEFINE q == [c EXCEPT !.offset = n, !.fetched = x]
  <2>2. q \in Locals /\ q.pc = c.pc /\ q.offset = n /\ q.fetched = x /\ q.base = c.base
    BY DEF Locals
  <2>3. proc' = [proc EXCEPT ![p].offset = @ + PageSize, ![p].fetched = x]
    BY <1>9, <1>11 DEF FetchPage
  <2>4. proc' = [proc EXCEPT ![p] = q]
    BY <1>1, <1>2, <2>1, <2>3 DEF TypeOK
  <2>5. PICK y \in Locals : y = q
    BY <2>2
  <2> HIDE DEF q
  <2>6. /\ proc' = [proc EXCEPT ![p] = y] /\ y.pc = "page" /\ y.offset = n
        /\ y.fetched = x /\ y.base = proc[p].base
    BY <1>1, <2>1, <2>2, <2>4, <2>5
  <2>7. CoherentAt(y) /\ HeldMarked(y)
    <3>1. ListMarked(x) /\ \A f \in Flags : proc[p].base[f] <= Len(log[f])
      BY <1>1, <1>6, <1>9 DEF Coherent, CoherentAt
    <3> QED
      BY <2>6, <3>1 DEF CoherentAt, HeldMarked
  <2>8. Sofar(y.fetched, y.offset)
    <3> SUFFICES ASSUME ~ old.shifted, NEW f \in old.steady
                 PROVE  f \in Present /\ (Rank(f) <= n => x.got[f] # 0)
      BY <1>4, <1>9, <2>6 DEF Sofar
    <3>1. /\ f \in Present /\ (Rank(f) <= o \/ f \in page => x.got[f] # 0) /\ Rank(f) \in Nat
      BY <1>7, <1>9
    <3>2. Rank(f) \in (o + 1)..(o + PageSize) => f \in page
      BY <1>3, <3>1
    <3>3. Rank(f) <= n => Rank(f) <= o \/ Rank(f) \in (o + 1)..(o + PageSize)
      BY <1>8, <2>1, <3>1
    <3> QED
      BY <3>1, <3>2, <3>3
  <2> QED
    BY <1>1, <2>6, <2>7, <2>8, Looks
<1> QED
  BY <1>10, <1>11

\* A loop that a failed page ends gives a partial list.
LEMMA PageFailsInv ==
  ASSUME IInv, NEW p \in Procs, PageFails(p)
  PROVE  IInv'
<1> DEFINE l == [proc[p].fetched EXCEPT !.partial = TRUE]
<1>1. /\ TypeOK /\ Marked /\ faults' \in 0..MaxFaults /\ proc[p] \in Locals
      /\ proc[p].pc = "page" /\ Finish(p, l) /\ UNCHANGED <<log, evals, meta, list, floor>>
  BY BoundsAssumption DEF IInv, TypeOK, PageFails
<1>2. proc[p].fetched \in Lists /\ ListMarked(proc[p].fetched)
  BY <1>1 DEF Locals, Marked, HeldMarked
<1>3. /\ l \in Lists /\ l.partial = TRUE /\ l.got = proc[p].fetched.got
      /\ l.raced = proc[p].fetched.raced
  BY <1>2 DEF Lists
<1>4. PICK x \in Lists : x = l
  BY <1>3
<1>5. ListMarked(x) /\ Whole(x) /\ Finish(p, x)
  BY <1>1, <1>2, <1>3, <1>4 DEF ListMarked, Whole
<1> QED
  BY <1>1, <1>5, Finishes

\* A list is stored as marked, and as whole, as it was in hand.
LEMMA ListSetInv ==
  ASSUME IInv, NEW p \in Procs, ListSet(p)
  PROVE  IInv'
<1>1. /\ TypeOK /\ Coherent /\ Marked /\ Gapless /\ faults' \in 0..MaxFaults /\ proc[p] \in Locals
      /\ proc[p].pc = "list_set" /\ list' = proc[p].fetched
      /\ UNCHANGED <<log, evals, meta, floor>>
  BY DEF IInv, TypeOK, ListSet
<1>2. list' \in Lists /\ ListMarked(list') /\ Whole(list')
  BY <1>1 DEF Locals, Marked, HeldMarked, Gapless
<1>3. PICK q \in Locals : proc' = [proc EXCEPT ![p] = q] /\ q.pc = "idle" /\ CoherentAt(q) /\ HeldMarked(q)
  BY <1>1, IdleLocals DEF ListSet, Return
<1>4. \A f \in Flags : MetaMarked(meta'[f], f) /\ EvalMarked(evals'[f], f)
  BY <1>1 DEF Marked
<1>5. evals' \in [Flags -> Evals \cup {None}] /\ meta' \in [Flags -> Metas \cup {None}]
  BY <1>1 DEF TypeOK
<1>6. q.pc \notin {"drop_evals", "drop_metas", "page", "list_set"}
  BY <1>3
<1> QED
  BY <1>1, <1>2, <1>3, <1>4, <1>5, <1>6, Moves

\* A failure leaves a request, or a sync before its list, with nothing in hand.
LEMMA FailsInv ==
  ASSUME IInv, NEW p \in Procs, Fail(p) \/ DropFails(p)
  PROVE  IInv'
<1>1. faults' \in 0..MaxFaults /\ UNCHANGED <<log, evals, meta, list, floor>>
  <2>1. faults \in 0..MaxFaults /\ faults < MaxFaults /\ faults' = faults + 1
    BY DEF IInv, TypeOK, Fail, DropFails
  <2>2. UNCHANGED <<log, evals, meta, list, floor>>
    BY DEF Fail, DropFails
  <2> QED
    BY <2>1, <2>2, BoundsAssumption
<1>2. CASE Fail(p)
  BY <1>1, <1>2, Returns DEF Fail
<1>3. CASE DropFails(p)
  BY <1>1, <1>3, Begins DEF DropFails
<1> QED
  BY <1>2, <1>3

\* Entries that are dropped, or stay.
LEMMA ExpireInv ==
  ASSUME IInv, UNCHANGED <<log, proc, floor, faults>>,
         evals' \in [Flags -> Evals \cup {None}], meta' \in [Flags -> Metas \cup {None}],
         \A f \in Flags : evals'[f] \in {evals[f], None} /\ meta'[f] \in {meta[f], None},
         list' \in {list, None}
  PROVE  IInv'
<1>1. TypeOK /\ Coherent /\ Marked /\ Gapless
  BY DEF IInv
<1>2. TypeOK' /\ Coherent'
  BY <1>1 DEF TypeOK, Coherent, CoherentAt
<1>3. ASSUME NEW f, NEW v
      PROVE  /\ OldEval(f, v)' <=> OldEval(f, v)
             /\ OldMeta(f, v)' <=> OldMeta(f, v)
             /\ OldEntry(f, v)' <=> OldEntry(f, v)
  BY DEF OldEval, OldMeta, OldEntry, Invalidating
<1>4. Marked'
  <2>1. ASSUME NEW f \in Flags PROVE (MetaMarked(meta[f], f) /\ EvalMarked(evals[f], f))'
    BY <1>1, <1>3 DEF Marked, MetaMarked, EvalMarked
  <2>2. (list # None => ListMarked(list))'
    BY <1>1, <1>3 DEF Marked, ListMarked
  <2>3. ASSUME NEW p \in Procs PROVE HeldMarked(proc[p])'
    BY <1>1, <1>3 DEF Marked, HeldMarked, EvalMarked, ListMarked
  <2> QED
    BY <2>1, <2>2, <2>3 DEF Marked
<1>5. Gapless'
  BY <1>1 DEF Gapless, Whole, Sofar, Present, Rank, Now
<1> QED
  BY <1>2, <1>4, <1>5 DEF IInv

-----------------------------------------------------------------------------
(***************************************************************************)
(* Invalidations.                                                          *)
(***************************************************************************)

\* Every fill of the list that is under way is marked.
LEMMA DropListInv ==
  ASSUME IInv, NEW p \in Procs, DropList(p)
  PROVE  IInv'
<1>1. /\ TypeOK /\ Coherent /\ Marked /\ Gapless /\ proc[p].pc = "drop_list" /\ list' = None
      /\ UNCHANGED <<log, evals, meta, floor, faults>>
  BY DEF IInv, DropList
<1>2. ASSUME NEW x \in Procs
      PROVE  /\ proc'[x] \in Locals /\ proc'[x].base = proc[x].base
             /\ x # p => /\ proc'[x].pc = proc[x].pc /\ proc'[x].todo = proc[x].todo
                         /\ proc'[x].flag = proc[x].flag /\ proc'[x].ver = proc[x].ver
                         /\ proc'[x].ans = proc[x].ans /\ proc'[x].raced = proc[x].raced
                         /\ proc'[x].offset = proc[x].offset
                         /\ proc'[x].fetched.got = proc[x].fetched.got
                         /\ proc'[x].fetched.steady = proc[x].fetched.steady
                         /\ proc'[x].fetched.shifted = proc[x].fetched.shifted
                         /\ proc'[x].fetched.partial = proc[x].fetched.partial
                         /\ proc[x].pc \in {"page", "list_set"} => proc'[x].fetched.raced
             /\ x = p => proc'[x].pc = "drop_evals" /\ proc'[x].todo = Flags
  <2>1. PICK c \in Locals : c = proc[x]
    BY <1>1 DEF TypeOK
  <2>2. c.fetched \in Lists
    BY DEF Locals
  <2>3. CASE x = p
    <3>1. proc'[x] = [c EXCEPT !.pc = "drop_evals", !.todo = Flags]
      BY <2>1, <2>3 DEF DropList
    <3> QED
      BY <2>1, <2>3, <3>1 DEF Locals, Points
  <2>4. CASE x # p /\ c.pc \in {"page", "list_set"}
    <3> DEFINE l == [c.fetched EXCEPT !.raced = TRUE]
    <3>1. proc'[x] = [c EXCEPT !.fetched = l]
      BY <2>1, <2>4 DEF DropList
    <3>2. /\ l \in Lists /\ l.raced = TRUE /\ l.got = c.fetched.got
          /\ l.steady = c.fetched.steady /\ l.shifted = c.fetched.shifted
          /\ l.partial = c.fetched.partial
      BY <2>2 DEF Lists
    <3> HIDE DEF l
    <3>3. /\ proc'[x] \in Locals /\ proc'[x].fetched = l
          /\ proc'[x].base = c.base /\ proc'[x].pc = c.pc /\ proc'[x].todo = c.todo
          /\ proc'[x].flag = c.flag /\ proc'[x].ver = c.ver /\ proc'[x].ans = c.ans
          /\ proc'[x].raced = c.raced /\ proc'[x].offset = c.offset
      BY <3>1, <3>2 DEF Locals
    <3> QED
      BY <2>1, <2>4, <3>2, <3>3
  <2>5. CASE x # p /\ c.pc \notin {"page", "list_set"}
    <3>1. proc'[x] = c
      BY <2>1, <2>5 DEF DropList
    <3> QED
      BY <2>1, <2>5, <3>1
  <2> QED
    BY <2>3, <2>4, <2>5
<1>3. TypeOK'
  <2>1. proc' \in [Procs -> Locals]
    BY <1>2 DEF DropList
  <2> QED
    BY <1>1, <2>1 DEF TypeOK
<1>4. Coherent'
  BY <1>1, <1>2 DEF Coherent, CoherentAt
<1>5. ASSUME NEW f \in Flags, NEW v
      PROVE  (OldEval(f, v)' => OldEval(f, v)) /\ (OldMeta(f, v)' => OldMeta(f, v))
  BY <1>1, <1>2 DEF OldEval, OldMeta, Invalidating
<1>6. Marked'
  <2>1. ASSUME NEW f \in Flags PROVE (MetaMarked(meta[f], f) /\ EvalMarked(evals[f], f))'
    BY <1>1, <1>5 DEF Marked, MetaMarked, EvalMarked
  <2>2. (list # None => ListMarked(list))'
    BY <1>1
  <2>3. ASSUME NEW x \in Procs, x # p PROVE HeldMarked(proc[x])'
    <3>1. HeldMarked(proc[x]) /\ CoherentAt(proc[x])
      BY <1>1 DEF Marked, Coherent
    <3>2. (proc[x].pc = "meta_set" /\ OldEval(proc[x].flag, proc[x].ver) => proc[x].raced)'
      BY <1>2, <1>5, <2>3, <3>1 DEF HeldMarked, CoherentAt
    <3>3. (proc[x].pc = "eval_set" => EvalMarked(proc[x].ans, proc[x].flag))'
      BY <1>2, <1>5, <2>3, <3>1 DEF HeldMarked, CoherentAt, EvalMarked
    <3>4. (proc[x].pc \in {"page", "list_set"} => ListMarked(proc[x].fetched))'
      BY <1>2, <2>3 DEF ListMarked
    <3> QED
      BY <3>2, <3>3, <3>4 DEF HeldMarked
  <2>4. HeldMarked(proc[p])'
    BY <1>2 DEF HeldMarked
  <2> QED
    BY <2>1, <2>2, <2>3, <2>4 DEF Marked
<1>7. Gapless'
  <2>1. \A f : Now(f)' = Now(f) /\ Rank(f)' = Rank(f)
    BY <1>1 DEF Now, Rank, Present
  <2>2. Present' = Present
    BY <1>1 DEF Now, Present
  <2> QED
    BY <1>1, <1>2, <2>1, <2>2 DEF Gapless, Sofar, Whole
<1> QED
  BY <1>3, <1>4, <1>6, <1>7 DEF IInv

\* An evaluation in the hands of another request is marked.
LEMMA Passed ==
  ASSUME NEW q \in Locals, CoherentAt(q), NEW f \in Flags, NEW x, x = PassedBy(q, f)
  PROVE  /\ x \in Locals /\ CoherentAt(x)
         /\ x.pc = q.pc /\ x.todo = q.todo /\ x.base = q.base
         /\ x.fetched = q.fetched /\ x.offset = q.offset
         /\ x.pc = "meta_set" /\ ~ x.raced => x.flag # f /\ x = q
         /\ x.pc = "eval_set" /\ ~ x.ans.raced => x.flag # f /\ x = q
<1>1. CASE q.flag = f /\ q.pc = "meta_set"
  <2>1. x = [q EXCEPT !.raced = TRUE]
    BY <1>1 DEF PassedBy
  <2>2. /\ x \in Locals /\ x.raced = TRUE /\ x.pc = q.pc /\ x.todo = q.todo /\ x.base = q.base
        /\ x.fetched = q.fetched /\ x.offset = q.offset /\ x.flag = q.flag /\ x.ver = q.ver
    BY <2>1 DEF Locals
  <2> QED
    BY <1>1, <2>2 DEF CoherentAt
<1>2. CASE q.flag = f /\ q.pc = "eval_set"
  <2> DEFINE e == [q.ans EXCEPT !.raced = TRUE]
  <2>1. x = [q EXCEPT !.ans = e]
    BY <1>2 DEF PassedBy
  <2>2. q.ans \in Evals
    BY <1>2 DEF Locals, CoherentAt
  <2>3. e \in Evals /\ e.raced = TRUE
    BY <2>2 DEF Evals
  <2> HIDE DEF e
  <2>4. /\ x \in Locals /\ x.ans = e /\ x.pc = q.pc /\ x.todo = q.todo /\ x.base = q.base
        /\ x.fetched = q.fetched /\ x.offset = q.offset /\ x.flag = q.flag
    BY <2>1, <2>3 DEF Locals
  <2>5. e # None
    BY <2>3, NoneAssumption
  <2> QED
    BY <1>2, <2>3, <2>4, <2>5 DEF CoherentAt
<1>3. CASE ~ (q.flag = f /\ q.pc \in {"meta_set", "eval_set"})
  <2>1. x = q
    BY <1>3 DEF PassedBy
  <2> QED
    BY <1>3, <2>1
<1> QED
  BY <1>1, <1>2, <1>3

\* A sync deletes a key of f: what requests have in hand is marked, and what
\* Redis holds is marked as it must be afterwards.
LEMMA Dropping ==
  ASSUME IInv, NEW p \in Procs, NEW f \in Flags, NEW next \in Locals,
         proc[p].pc \in {"drop_evals", "drop_metas"}, Dropped(p, f, next),
         next.pc \in {"drop_metas", "list_get"}, CoherentAt(next),
         UNCHANGED <<log, list, faults>>, floor' \in [Flags -> Nat],
         \A g \in Flags : floor'[g] <= Len(log[g]),
         evals' \in [Flags -> Evals \cup {None}], meta' \in [Flags -> Metas \cup {None}],
         \A g \in Flags : \A v : OldEval(g, v)' => OldEval(g, v) \/ g = f,
         \A g \in Flags : \A v : OldEntry(g, v)' => OldEntry(g, v),
         \A g \in Flags : (MetaMarked(meta[g], g) /\ EvalMarked(evals[g], g))'
  PROVE  IInv'
<1>1. /\ TypeOK /\ Coherent /\ Marked /\ Gapless /\ proc[p] \in Locals /\ CoherentAt(proc[p])
      /\ HeldMarked(proc[p])
  BY DEF IInv, TypeOK, Coherent, Marked
<1>2. /\ proc'[p] \in Locals /\ CoherentAt(proc'[p])
      /\ proc'[p].pc \in {"drop_evals", "drop_metas", "list_get"}
  <2>1. CASE proc[p].todo = {f}
    BY <2>1 DEF Dropped
  <2>2. CASE proc[p].todo # {f}
    <3>1. PICK c \in Locals : c = proc[p]
      BY <1>1
    <3>2. proc'[p] = [c EXCEPT !.todo = @ \ {f}]
      BY <2>2, <3>1 DEF Dropped
    <3>3. proc'[p] \in Locals /\ proc'[p].pc = c.pc /\ proc'[p].base = c.base
      BY <3>2 DEF Locals
    <3> QED
      BY <1>1, <3>1, <3>3 DEF CoherentAt
  <2> QED
    BY <2>1, <2>2
<1>3. ASSUME NEW x \in Procs, x # p
      PROVE  /\ proc'[x] \in Locals /\ CoherentAt(proc'[x]) /\ HeldMarked(proc[x])
             /\ proc'[x].pc = proc[x].pc /\ proc'[x].todo = proc[x].todo
             /\ proc'[x].base = proc[x].base
             /\ proc'[x].fetched = proc[x].fetched /\ proc'[x].offset = proc[x].offset
             /\ proc'[x].pc = "meta_set" /\ ~ proc'[x].raced => proc'[x].flag # f /\ proc'[x] = proc[x]
             /\ proc'[x].pc = "eval_set" /\ ~ proc'[x].ans.raced => proc'[x].flag # f /\ proc'[x] = proc[x]
  <2>1. PICK q \in Locals : q = proc[x] /\ CoherentAt(q)
    BY <1>1 DEF TypeOK, Coherent
  <2>2. PICK y : y = proc'[x]
    OBVIOUS
  <2>3. y = PassedBy(q, f)
    BY <1>3, <2>1, <2>2 DEF Dropped
  <2>4. HeldMarked(proc[x])
    BY <1>1 DEF Marked
  <2> QED
    BY <2>1, <2>2, <2>3, <2>4, Passed
<1>4. TypeOK'
  <2>1. proc' \in [Procs -> Locals]
    BY <1>2, <1>3 DEF Dropped
  <2> QED
    BY <1>1, <2>1 DEF TypeOK
<1>5. Coherent'
  <2>1. \A x \in Procs : CoherentAt(proc'[x])
    BY <1>2, <1>3
  <2> QED
    BY <2>1 DEF Coherent, CoherentAt
<1>6. Marked'
  <2>1. (list # None => ListMarked(list))'
    BY <1>1 DEF Marked, ListMarked
  <2>2. HeldMarked(proc[p])'
    BY <1>2 DEF HeldMarked
  <2>3. ASSUME NEW x \in Procs, x # p PROVE HeldMarked(proc[x])'
    <3>1. PICK q, y : q = proc[x] /\ y = proc'[x]
      OBVIOUS
    <3>2. /\ HeldMarked(q) /\ CoherentAt(y) /\ y.pc = q.pc /\ y.fetched = q.fetched
          /\ y.pc = "meta_set" /\ ~ y.raced => y.flag # f /\ y = q
          /\ y.pc = "eval_set" /\ ~ y.ans.raced => y.flag # f /\ y = q
      BY <1>3, <2>3, <3>1
    <3>3. y.pc = "meta_set" /\ OldEval(y.flag, y.ver)' => y.raced
      BY <3>2 DEF HeldMarked, CoherentAt
    <3>4. y.pc = "eval_set" /\ y.ans.ver # 0 /\ OldEval(y.flag, y.ans.ver)' => y.ans.raced
      BY <3>2 DEF HeldMarked, CoherentAt, EvalMarked
    <3>5. y.pc \in {"page", "list_set"} => \A g \in Flags :
            y.fetched.got[g] # 0 /\ OldEntry(g, y.fetched.got[g])' => y.fetched.raced
      BY <3>2 DEF HeldMarked, ListMarked
    <3> QED
      BY <3>1, <3>3, <3>4, <3>5 DEF HeldMarked, EvalMarked, ListMarked
  <2> QED
    BY <2>1, <2>2, <2>3 DEF Marked
<1>7. Gapless'
  <2>1. \A g : Now(g)' = Now(g) /\ Rank(g)' = Rank(g)
    BY DEF Now, Rank, Present
  <2>2. Present' = Present
    BY DEF Now, Present
  <2>3. list' # None => Whole(list')
    BY <1>1 DEF Gapless
  <2>4. ASSUME NEW x \in Procs
        PROVE  (/\ proc[x].pc = "page" => Sofar(proc[x].fetched, proc[x].offset)
                /\ proc[x].pc = "list_set" => Whole(proc[x].fetched))'
    <3>1. CASE x = p
      BY <1>2, <3>1
    <3>2. CASE x # p
      BY <1>1, <1>3, <2>1, <2>2, <3>2 DEF Gapless, Sofar, Whole
    <3> QED
      BY <3>1, <3>2
  <2> QED
    BY <2>3, <2>4 DEF Gapless, Whole
<1> QED
  BY <1>4, <1>5, <1>6, <1>7 DEF IInv

\* What a deletion step leaves of the other coroutines.
LEMMA DroppedOthers ==
  ASSUME TypeOK, Coherent, NEW p \in Procs, NEW f \in Flags, NEW next, Dropped(p, f, next),
         NEW x \in Procs, x # p
  PROVE  proc'[x].pc = proc[x].pc /\ proc'[x].todo = proc[x].todo /\ proc'[x].base = proc[x].base
<1>1. PICK q \in Locals : q = proc[x] /\ CoherentAt(q)
  BY DEF TypeOK, Coherent
<1>2. PICK y : y = proc'[x]
  OBVIOUS
<1>3. y = PassedBy(q, f)
  BY <1>1, <1>2 DEF Dropped
<1> QED
  BY <1>1, <1>2, <1>3, Passed

\* What a deletion step makes of the sync.
LEMMA DroppedSelf ==
  ASSUME TypeOK, NEW p \in Procs, NEW f \in Flags, NEW next, Dropped(p, f, next)
  PROVE  /\ proc[p].todo = {f} => proc'[p] = next
         /\ proc[p].todo # {f} => /\ proc'[p].todo = proc[p].todo \ {f}
                                  /\ proc'[p].pc = proc[p].pc /\ proc'[p].base = proc[p].base
<1>1. PICK c \in Locals : c = proc[p]
  BY DEF TypeOK
<1>2. CASE c.todo = {f}
  BY <1>1, <1>2 DEF Dropped
<1>3. CASE c.todo # {f}
  <2>1. proc'[p] = [c EXCEPT !.todo = @ \ {f}]
    BY <1>1, <1>3 DEF Dropped
  <2> QED
    BY <1>1, <1>3, <2>1 DEF Locals
<1> QED
  BY <1>2, <1>3

\* Only what is made of f is older than before, and the evaluation of f is gone.
LEMMA DropEvalInv ==
  ASSUME IInv, NEW p \in Procs, NEW f \in Flags, DropEval(p, f)
  PROVE  IInv'
<1> DEFINE n == [proc[p] EXCEPT !.pc = "drop_metas", !.todo = Flags]
<1>1. /\ TypeOK /\ Coherent /\ Marked /\ proc[p] \in Locals /\ CoherentAt(proc[p])
      /\ proc[p].pc = "drop_evals" /\ Dropped(p, f, n)
      /\ UNCHANGED <<log, meta, list, floor, faults>>
  BY DEF IInv, TypeOK, Coherent, DropEval
<1>2. n \in Locals /\ n.pc = "drop_metas" /\ n.todo = Flags /\ n.base = proc[p].base
  BY <1>1 DEF Locals, Points
<1>3. PICK next \in Locals : next = n
  BY <1>2
<1> HIDE DEF n
<1>4. /\ next.pc = "drop_metas" /\ next.todo = Flags /\ next.base = proc[p].base
      /\ Dropped(p, f, next)
  BY <1>1, <1>2, <1>3
<1>5. CoherentAt(next)
  BY <1>1, <1>4 DEF CoherentAt
<1>6. /\ \/ proc'[p].pc = "drop_metas" /\ proc'[p].todo = Flags /\ proc[p].todo = {f}
         \/ proc'[p].pc = "drop_evals" /\ proc'[p].todo = proc[p].todo \ {f}
      /\ proc'[p].base = proc[p].base
  BY <1>1, <1>4, DroppedSelf
<1>7. \A x \in Procs : x # p =>
        proc'[x].pc = proc[x].pc /\ proc'[x].todo = proc[x].todo /\ proc'[x].base = proc[x].base
  BY <1>1, <1>4, DroppedOthers
<1>8. ASSUME NEW g \in Flags, NEW v
      PROVE  /\ OldEval(g, v)' => OldEval(g, v) \/ g = f
             /\ OldMeta(g, v)' => OldMeta(g, v)
             /\ OldEntry(g, v)' => OldEntry(g, v)
  <2>1. \A x \in Procs : Invalidating(x, g)' => Invalidating(x, g) \/ g = f
    <3>1. Invalidating(p, g)' => Invalidating(p, g) \/ g = f
      BY <1>1, <1>6 DEF Invalidating
    <3>2. \A x \in Procs : x # p => (Invalidating(x, g)' => Invalidating(x, g))
      BY <1>7 DEF Invalidating
    <3> QED
      BY <3>1, <3>2
  <2>2. \A x \in Procs : proc'[x].base = proc[x].base
    BY <1>6, <1>7
  <2>3. OldEval(g, v)' => OldEval(g, v) \/ g = f
    BY <1>1, <2>1, <2>2 DEF OldEval
  <2>4. OldMeta(g, v)' => OldMeta(g, v)
    BY <1>1, <1>6, <1>7 DEF OldMeta
  <2>5. OldEntry(g, v)' => OldEntry(g, v)
    BY <1>1, <1>6, <1>7 DEF OldEntry
  <2> QED
    BY <2>3, <2>4, <2>5
<1>9. evals' = [evals EXCEPT ![f] = None]
  BY DEF DropEval
<1>10. evals' \in [Flags -> Evals \cup {None}] /\ meta' \in [Flags -> Metas \cup {None}]
  BY <1>1, <1>9 DEF TypeOK
<1>11. ASSUME NEW g \in Flags PROVE (MetaMarked(meta[g], g) /\ EvalMarked(evals[g], g))'
  <2>1. MetaMarked(meta[g], g) /\ EvalMarked(evals[g], g)
    BY <1>1 DEF Marked
  <2>2. evals'[g] = IF g = f THEN None ELSE evals[g]
    BY <1>1, <1>9 DEF TypeOK
  <2>3. MetaMarked(meta[g], g)'
    BY <1>1, <1>8, <2>1 DEF MetaMarked
  <2>4. EvalMarked(evals[g], g)'
    BY <1>8, <2>1, <2>2 DEF EvalMarked
  <2> QED
    BY <2>3, <2>4
<1>12. floor' \in [Flags -> Nat] /\ \A g \in Flags : floor'[g] <= Len(log[g])
  BY <1>1 DEF TypeOK, Coherent
<1> QED
  BY <1>1, <1>4, <1>5, <1>8, <1>10, <1>11, <1>12, Dropping

\* A complete invalidation has dropped everything it promises to have dropped.
LEMMA DropMetaInv ==
  ASSUME IInv, NEW p \in Procs, NEW f \in Flags, DropMeta(p, f)
  PROVE  IInv'
<1>1. /\ TypeOK /\ Coherent /\ Marked /\ proc[p] \in Locals /\ CoherentAt(proc[p])
      /\ proc[p].pc = "drop_metas" /\ UNCHANGED <<log, evals, list, faults>>
      /\ Raise(p, f) /\ Dropped(p, f, At("list_get", "list", NoFlag, FALSE))
  BY DEF IInv, TypeOK, Coherent, DropMeta
<1>2. PICK next \in Locals : /\ next = At("list_get", "list", NoFlag, FALSE)
                             /\ next.pc = "list_get" /\ CoherentAt(next)
  <2>1. PICK pc \in Points : pc = "list_get"
    BY DEF Points
  <2>2. PICK kind \in {"eval", "flag", "list", "sync"} : kind = "list"
    OBVIOUS
  <2>3. PICK g \in Flags \cup {NoFlag}, def \in BOOLEAN : g = NoFlag /\ def = FALSE
    OBVIOUS
  <2>4. /\ At(pc, kind, g, def) \in Locals /\ At(pc, kind, g, def).pc = pc
        /\ \A h \in Flags : At(pc, kind, g, def).base[h] = 0
    BY AtLocals
  <2>5. PICK x \in Locals : x = At(pc, kind, g, def)
    BY <2>4
  <2>6. x.pc = "list_get" /\ \A h \in Flags : x.base[h] = 0
    BY <2>1, <2>4, <2>5
  <2>7. \A h \in Flags : Len(log[h]) \in Nat
    BY <1>1, Versions
  <2>8. CoherentAt(x)
    BY <2>6, <2>7 DEF CoherentAt
  <2> QED
    BY <2>1, <2>2, <2>3, <2>5, <2>6, <2>8
<1>3. Dropped(p, f, next)
  BY <1>1, <1>2
<1>4. next.pc = "list_get" /\ CoherentAt(next)
  BY <1>2
<1>5. PICK base \in [Flags -> Nat] : base = proc[p].base
  BY <1>1 DEF Locals
<1>6. ASSUME NEW g \in Flags
      PROVE  floor'[g] = floor[g] \/ (proc[p].todo = {f} /\ floor'[g] = base[g])
  <2>1. CASE proc[p].todo # {f}
    BY <1>1, <2>1 DEF Raise
  <2>2. CASE proc[p].todo = {f}
    <3>1. floor'[g] = IF floor[g] < base[g] THEN base[g] ELSE floor[g]
      BY <1>1, <1>5, <2>2 DEF Raise
    <3> QED
      BY <2>2, <3>1
  <2> QED
    BY <2>1, <2>2
<1>7. floor' \in [Flags -> Nat]
  <2>1. floor \in [Flags -> Nat]
    BY <1>1 DEF TypeOK
  <2>2. floor' = floor \/ floor' = [g \in Flags |-> IF floor[g] < base[g] THEN base[g] ELSE floor[g]]
    BY <1>1, <1>5 DEF Raise
  <2> QED
    BY <1>5, <2>1, <2>2
<1>8. \A g \in Flags : floor'[g] <= Len(log[g])
  BY <1>1, <1>5, <1>6 DEF Coherent, CoherentAt
<1>9. /\ proc[p].todo = {f} => proc'[p].pc = "list_get"
      /\ proc[p].todo # {f} => /\ proc'[p].todo = proc[p].todo \ {f}
                               /\ proc'[p].pc = proc[p].pc /\ proc'[p].base = proc[p].base
  BY <1>1, <1>2, <1>3, DroppedSelf
<1>10. \A x \in Procs : x # p =>
        proc'[x].pc = proc[x].pc /\ proc'[x].todo = proc[x].todo /\ proc'[x].base = proc[x].base
  BY <1>1, <1>3, DroppedOthers
<1>11. ASSUME NEW g \in Flags, NEW v
       PROVE  /\ OldEval(g, v)' => OldEval(g, v)
              /\ OldMeta(g, v)' => OldMeta(g, v) \/ g = f
              /\ OldEntry(g, v)' => OldEntry(g, v)
  <2>1. v < floor'[g] => v < floor[g] \/ (proc[p].todo = {f} /\ v < proc[p].base[g])
    BY <1>5, <1>6
  <2>2. ASSUME NEW x \in Procs, proc'[x].pc \in {"drop_evals", "drop_metas"}
        PROVE  /\ proc'[x].pc = proc[x].pc /\ proc'[x].base = proc[x].base
               /\ x # p => proc'[x].todo = proc[x].todo
               /\ x = p => proc'[x].todo = proc[x].todo \ {f}
    BY <1>9, <1>10, <2>2
  <2>3. OldEval(g, v)' => OldEval(g, v)
    <3>1. \A x \in Procs : Invalidating(x, g)' => Invalidating(x, g) /\ proc'[x].base = proc[x].base
      BY <1>1, <2>2 DEF Invalidating
    <3>2. Invalidating(p, g)
      BY <1>1 DEF Invalidating
    <3> QED
      BY <2>1, <3>1, <3>2 DEF OldEval
  <2>4. OldMeta(g, v)' => OldMeta(g, v) \/ g = f
    <3>1. \A x \in Procs : proc'[x].pc = "drop_metas" /\ g \notin proc'[x].todo =>
            proc[x].pc = "drop_metas" /\ proc'[x].base = proc[x].base
            /\ (g \notin proc[x].todo \/ g = f)
      BY <2>2
    <3>2. proc[p].todo = {f} => g \notin proc[p].todo \/ g = f
      OBVIOUS
    <3> QED
      BY <1>1, <2>1, <3>1, <3>2 DEF OldMeta
  <2>5. OldEntry(g, v)' => OldEntry(g, v)
    BY <1>1, <2>1, <2>2 DEF OldEntry
  <2> QED
    BY <2>3, <2>4, <2>5
<1>12. meta' = [meta EXCEPT ![f] = None]
  BY DEF DropMeta
<1>13. evals' \in [Flags -> Evals \cup {None}] /\ meta' \in [Flags -> Metas \cup {None}]
  BY <1>1, <1>12 DEF TypeOK
<1>14. ASSUME NEW g \in Flags PROVE (MetaMarked(meta[g], g) /\ EvalMarked(evals[g], g))'
  <2>1. MetaMarked(meta[g], g) /\ EvalMarked(evals[g], g)
    BY <1>1 DEF Marked
  <2>2. meta'[g] = IF g = f THEN None ELSE meta[g]
    BY <1>1, <1>12 DEF TypeOK
  <2>3. MetaMarked(meta[g], g)'
    BY <1>11, <2>1, <2>2 DEF MetaMarked
  <2>4. EvalMarked(evals[g], g)'
    BY <1>1, <1>11, <2>1 DEF EvalMarked
  <2> QED
    BY <2>3, <2>4
<1>15. \A g \in Flags : \A v : OldEval(g, v)' => OldEval(g, v) \/ g = f
  BY <1>11
<1>16. \A g \in Flags : \A v : OldEntry(g, v)' => OldEntry(g, v)
  BY <1>11
<1> QED
  BY <1>1, <1>2, <1>3, <1>4, <1>7, <1>8, <1>13, <1>14, <1>15, <1>16, Dropping

-----------------------------------------------------------------------------
(***************************************************************************)
(* Changes in Unleash.                                                     *)
(***************************************************************************)

\* What a removal leaves of a coroutine.
LEMMA Removes ==
  ASSUME NEW q \in Locals, NEW f \in Flags, NEW x, x = Removed(q, f)
  PROVE  /\ x \in Locals /\ x.pc = q.pc /\ x.todo = q.todo /\ x.base = q.base
         /\ x.flag = q.flag /\ x.ver = q.ver /\ x.ans = q.ans /\ x.raced = q.raced
         /\ x.offset = q.offset
         /\ x.fetched.got = q.fetched.got /\ x.fetched.raced = q.fetched.raced
         /\ q.pc # "page" => x = q
         /\ q.pc = "page" => /\ x.fetched.steady = q.fetched.steady \ {f}
                             /\ q.fetched.shifted \/ Rank(f) <= q.offset => x.fetched.shifted
<1>1. CASE q.pc # "page"
  BY <1>1 DEF Removed
<1>2. CASE q.pc = "page"
  <2> DEFINE l == [q.fetched EXCEPT !.steady = @ \ {f}, !.shifted = @ \/ Rank(f) <= q.offset]
  <2>1. x = [q EXCEPT !.fetched = l]
    BY <1>2 DEF Removed
  <2>2. q.fetched \in Lists
    BY DEF Locals
  <2>3. /\ l \in Lists /\ l.got = q.fetched.got /\ l.raced = q.fetched.raced
        /\ l.steady = q.fetched.steady \ {f}
        /\ q.fetched.shifted \/ Rank(f) <= q.offset => l.shifted
    BY <2>2 DEF Lists
  <2> HIDE DEF l
  <2>4. /\ x \in Locals /\ x.pc = q.pc /\ x.todo = q.todo /\ x.base = q.base
        /\ x.flag = q.flag /\ x.ver = q.ver /\ x.ans = q.ans /\ x.raced = q.raced
        /\ x.offset = q.offset /\ x.fetched = l
    BY <2>1, <2>3 DEF Locals
  <2> QED
    BY <1>2, <2>3, <2>4
<1> QED
  BY <1>1, <1>2

\* What a change of f to state s makes of a list in hand, at offset o.
After(l, l1, o, f, s) ==
  /\ l1.got = l.got
  /\ l.shifted => l1.shifted
  /\ s # "absent" => l1.steady = l.steady
  /\ s = "absent" => l1.steady = l.steady \ {f}
  /\ s = "absent" /\ Rank(f) <= o => l1.shifted

\* The removal of a flag that comes after rank o moves none to a rank up to o.
LEMMA RemovalAfter ==
  ASSUME NEW P, IsFiniteSet(P), P \subseteq Nat, NEW f \in P, NEW g \in P \ {f}, NEW o \in Nat,
         Cardinality(UpTo(P, f)) > o, Cardinality(UpTo(P \ {f}, g)) <= o
  PROVE  Cardinality(UpTo(P, g)) <= o
<1> DEFINE below == UpTo(P, f) \ {f}
<1>1. IsFiniteSet(UpTo(P, f)) /\ f \in UpTo(P, f) /\ IsFiniteSet(UpTo(P \ {f}, g))
  <2>1. UpTo(P, f) \in SUBSET P /\ UpTo(P \ {f}, g) \in SUBSET P /\ f \in UpTo(P, f)
    BY DEF UpTo
  <2> QED
    BY <2>1, FS_Subset
<1>2. CASE g < f
  <2>1. \A h \in P : h <= g => h # f
    BY <1>2
  <2>2. UpTo(P, g) = UpTo(P \ {f}, g)
    BY <2>1 DEF UpTo
  <2> QED
    BY <2>2
<1>3. CASE f < g
  <2>1. \A h \in P : h <= f => h <= g
    BY <1>3
  <2>2. g \notin below /\ below \cup {g} \in SUBSET UpTo(P \ {f}, g)
    <3>1. f \in Nat /\ g \in Nat /\ ~ (g <= f) /\ g <= g
      BY <1>3
    <3>2. g \notin UpTo(P, f) /\ g \in UpTo(P \ {f}, g)
      BY <3>1 DEF UpTo
    <3>3. below \subseteq UpTo(P \ {f}, g)
      BY <2>1 DEF UpTo
    <3> QED
      BY <3>2, <3>3
  <2>3. IsFiniteSet(below) /\ Cardinality(below) = Cardinality(UpTo(P, f)) - 1
    BY <1>1, FS_RemoveElement
  <2>4. Cardinality(below \cup {g}) = Cardinality(below) + 1
    BY <2>2, <2>3, FS_AddElement
  <2>5. Cardinality(below \cup {g}) <= Cardinality(UpTo(P \ {f}, g))
    BY <1>1, <2>2, FS_Subset
  <2>6. /\ Cardinality(UpTo(P, f)) \in Nat /\ Cardinality(below) \in Nat
        /\ Cardinality(UpTo(P \ {f}, g)) \in Nat
    BY <1>1, <2>3, FS_CardinalityType
  <2> QED
    BY <2>3, <2>4, <2>5, <2>6
<1>4. f \in Nat /\ g \in Nat /\ (g < f \/ f < g)
  OBVIOUS
<1> QED
  BY <1>2, <1>3, <1>4

\* A flag that was there all the time stays covered: a new flag moves others to
\* later ranks only, and so does a removal, or it is noted.
LEMMA StaysSofar ==
  ASSUME TypeOK, NEW f \in Flags, NEW s \in States, log' = [log EXCEPT ![f] = Append(@, s)],
         NEW l, NEW l1, NEW o \in Nat, Sofar(l, o), After(l, l1, o, f, s)
  PROVE  Sofar(l1, o)'
<1>1. ASSUME NEW g \in Flags PROVE Now(g)' = IF g = f THEN s ELSE Now(g)
  <2>1. CASE g = f
    <3>1. log[g] \in Seq(States) /\ log'[g] = Append(log[g], s)
      BY <2>1, Versions DEF TypeOK
    <3> QED
      BY <2>1, <3>1 DEF Now
  <2>2. CASE g # f
    BY <2>2 DEF Now, TypeOK
  <2> QED
    BY <2>1, <2>2
<1>2. Present' = IF s = "absent" THEN Present \ {f} ELSE Present \cup {f}
  BY <1>1 DEF Present
<1>3. Present \in SUBSET Flags /\ Present' \in SUBSET Flags
  BY DEF Present
<1>4. PICK P, P1 : P = Present /\ P1 = Present'
  OBVIOUS
<1>5. IsFiniteSet(P1) /\ P1 \subseteq Nat
  BY <1>3, <1>4, FS_Subset, FlagsAssumption
<1>6. \A g : Rank(g) = Cardinality(UpTo(P, g)) /\ Rank(g)' = Cardinality(UpTo(P1, g))
  BY <1>4 DEF Rank, UpTo
<1>9. IsFiniteSet(P) /\ P \subseteq Nat
  BY <1>3, <1>4, FS_Subset, FlagsAssumption
<1> SUFFICES ASSUME ~ l1.shifted, NEW g \in l1.steady
             PROVE  g \in Present' /\ (Rank(g)' <= o => l1.got[g] # 0)
  BY DEF Sofar
<1>7. CASE s # "absent"
  <2>1. g \in Present /\ (Rank(g) <= o => l.got[g] # 0)
    BY <1>7 DEF Sofar, After
  <2>2. UpTo(P, g) \in SUBSET UpTo(P1, g) /\ UpTo(P1, g) \in SUBSET P1
    BY <1>2, <1>4, <1>7 DEF UpTo
  <2>3. IsFiniteSet(UpTo(P1, g))
    BY <1>5, <2>2, FS_Subset
  <2>4. IsFiniteSet(UpTo(P, g)) /\ Cardinality(UpTo(P, g)) <= Cardinality(UpTo(P1, g))
    BY <2>2, <2>3, FS_Subset
  <2>5. Cardinality(UpTo(P, g)) \in Nat /\ Cardinality(UpTo(P1, g)) \in Nat
    BY <2>3, <2>4, FS_CardinalityType
  <2>6. Rank(g)' <= o => Rank(g) <= o
    BY <1>6, <2>4, <2>5
  <2> QED
    BY <1>2, <1>7, <2>1, <2>6 DEF After
<1>8. CASE s = "absent"
  <2>1. g \in P \ {f} /\ (Rank(g) <= o => l1.got[g] # 0) /\ P1 = P \ {f}
    BY <1>2, <1>4, <1>8 DEF Sofar, After
  <2>2. CASE f \in P
    <3>1. Cardinality(UpTo(P, f)) > o
      <4>1. ~ (Rank(f) <= o)
        BY <1>8 DEF After
      <4>2. UpTo(P, f) \in SUBSET P
        BY DEF UpTo
      <4>3. Cardinality(UpTo(P, f)) \in Nat
        BY <1>9, <4>2, FS_Subset, FS_CardinalityType
      <4> QED
        BY <1>6, <4>1, <4>3
    <3>2. Cardinality(UpTo(P1, g)) <= o => Cardinality(UpTo(P, g)) <= o
      BY <1>6, <1>9, <2>1, <2>2, <3>1, RemovalAfter
    <3> QED
      BY <1>4, <1>6, <2>1, <3>2
  <2>3. CASE f \notin P
    <3>1. P1 = P
      BY <2>1, <2>3
    <3> QED
      BY <1>4, <1>6, <2>1, <3>1
  <2> QED
    BY <2>2, <2>3
<1> QED
  BY <1>7, <1>8

\* A new version is old for nobody.
LEMMA ChangeInv ==
  ASSUME IInv, NEW f \in Flags, NEW s \in States, Change(f, s)
  PROVE  IInv'
<1>1. /\ TypeOK /\ Coherent /\ Marked /\ Gapless /\ log' = [log EXCEPT ![f] = Append(@, s)]
      /\ UNCHANGED <<evals, meta, list, floor, faults>>
  BY DEF IInv, Change
<1>2. ASSUME NEW g \in Flags
      PROVE  /\ log'[g] \in Seq(States) \ {<<>>}
             /\ Len(log[g]) \in Nat /\ Len(log'[g]) \in Nat /\ Len(log[g]) <= Len(log'[g])
  <2>1. log[g] \in Seq(States) /\ Len(log[g]) \in Nat \ {0}
    BY <1>1, Versions
  <2>2. CASE g = f
    <3>1. log'[g] = Append(log[g], s)
      BY <1>1, <2>2 DEF TypeOK
    <3>2. Append(log[g], s) \in Seq(States) /\ Len(Append(log[g], s)) = Len(log[g]) + 1
      BY <2>1
    <3>3. Append(log[g], s) # <<>>
      BY <2>1, <3>2
    <3> QED
      BY <2>1, <3>1, <3>2, <3>3
  <2>3. CASE g # f
    <3>1. log'[g] = log[g]
      BY <1>1, <2>3 DEF TypeOK
    <3> QED
      BY <1>1, <2>1, <3>1 DEF TypeOK
  <2> QED
    BY <2>2, <2>3
<1>3. ASSUME NEW x \in Procs
      PROVE  /\ proc'[x] \in Locals /\ proc'[x].pc = proc[x].pc /\ proc'[x].todo = proc[x].todo
             /\ proc'[x].base = proc[x].base /\ proc'[x].flag = proc[x].flag
             /\ proc'[x].ver = proc[x].ver /\ proc'[x].ans = proc[x].ans
             /\ proc'[x].raced = proc[x].raced /\ proc'[x].offset = proc[x].offset
             /\ proc'[x].fetched.got = proc[x].fetched.got
             /\ proc'[x].fetched.raced = proc[x].fetched.raced
             /\ proc[x].pc # "page" \/ s # "absent" => proc'[x] = proc[x]
             /\ proc[x].pc = "page" /\ s = "absent" =>
                  /\ proc'[x].fetched.steady = proc[x].fetched.steady \ {f}
                  /\ proc[x].fetched.shifted \/ Rank(f) <= proc[x].offset => proc'[x].fetched.shifted
  <2>1. PICK q \in Locals : q = proc[x]
    BY <1>1 DEF TypeOK
  <2>2. PICK y : y = proc'[x]
    OBVIOUS
  <2>3. CASE s = "absent"
    <3>1. y = Removed(q, f)
      BY <2>1, <2>2, <2>3 DEF Change
    <3> QED
      BY <2>1, <2>2, <2>3, <3>1, Removes
  <2>4. CASE s # "absent"
    <3>1. y = q
      BY <2>1, <2>2, <2>4 DEF Change
    <3> QED
      BY <2>1, <2>2, <2>4, <3>1
  <2> QED
    BY <2>3, <2>4
<1>4. TypeOK'
  <2>1. proc' \in [Procs -> Locals]
    <3>1. CASE s = "absent"
      BY <1>3, <3>1 DEF Change
    <3>2. CASE s # "absent"
      BY <1>1, <3>2 DEF Change, TypeOK
    <3> QED
      BY <3>1, <3>2
  <2>2. log' \in [Flags -> Seq(States) \ {<<>>}]
    <3>1. log' = [g \in Flags |-> log'[g]]
      BY <1>1 DEF TypeOK
    <3> QED
      BY <1>2, <3>1
  <2> QED
    BY <1>1, <2>1, <2>2 DEF TypeOK
<1>5. Coherent'
  <2>1. ASSUME NEW g \in Flags PROVE floor'[g] <= Len(log'[g])
    <3>1. floor[g] \in Nat /\ floor[g] <= Len(log[g])
      BY <1>1 DEF TypeOK, Coherent
    <3> QED
      BY <1>1, <1>2, <3>1
  <2>2. ASSUME NEW x \in Procs PROVE CoherentAt(proc[x])'
    <3>1. CoherentAt(proc[x])
      BY <1>1 DEF Coherent
    <3>2. ASSUME NEW g \in Flags PROVE proc'[x].base[g] <= Len(log'[g])
      <4>1. proc[x].base[g] \in Nat /\ proc[x].base[g] <= Len(log[g])
        BY <1>1, <3>1 DEF TypeOK, Locals, CoherentAt
      <4>2. proc'[x].base = proc[x].base
        BY <1>3
      <4> QED
        BY <1>2, <4>1, <4>2
    <3> QED
      BY <1>3, <3>1, <3>2 DEF CoherentAt
  <2> QED
    BY <2>1, <2>2 DEF Coherent
<1>6. ASSUME NEW g, NEW v
      PROVE  /\ OldEval(g, v)' <=> OldEval(g, v)
             /\ OldMeta(g, v)' <=> OldMeta(g, v)
             /\ OldEntry(g, v)' <=> OldEntry(g, v)
  BY <1>1, <1>3 DEF OldEval, OldMeta, OldEntry, Invalidating
<1>7. Marked'
  <2>1. ASSUME NEW g \in Flags PROVE (MetaMarked(meta[g], g) /\ EvalMarked(evals[g], g))'
    BY <1>1, <1>6 DEF Marked, MetaMarked, EvalMarked
  <2>2. (list # None => ListMarked(list))'
    BY <1>1, <1>6 DEF Marked, ListMarked
  <2>3. ASSUME NEW x \in Procs PROVE HeldMarked(proc[x])'
    <3>1. HeldMarked(proc[x])
      BY <1>1 DEF Marked
    <3>2. PICK q, y : q = proc[x] /\ y = proc'[x]
      OBVIOUS
    <3>3. /\ y.pc = q.pc /\ y.flag = q.flag /\ y.ver = q.ver /\ y.ans = q.ans
          /\ y.raced = q.raced /\ y.fetched.got = q.fetched.got
          /\ y.fetched.raced = q.fetched.raced /\ HeldMarked(q)
      BY <1>3, <3>1, <3>2
    <3>4. y.pc = "meta_set" /\ OldEval(y.flag, y.ver)' => y.raced
      BY <1>6, <3>3 DEF HeldMarked
    <3>5. /\ y.pc = "eval_set" /\ y.ans # None /\ y.ans.ver # 0
             /\ OldEval(y.flag, y.ans.ver)'
          => y.ans.raced
      BY <1>6, <3>3 DEF HeldMarked, EvalMarked
    <3>6. y.pc \in {"page", "list_set"} => \A g \in Flags :
            y.fetched.got[g] # 0 /\ OldEntry(g, y.fetched.got[g])' => y.fetched.raced
      BY <1>6, <3>3 DEF HeldMarked, ListMarked
    <3> QED
      BY <3>2, <3>4, <3>5, <3>6 DEF HeldMarked, EvalMarked, ListMarked
  <2> QED
    BY <2>1, <2>2, <2>3 DEF Marked
<1>8. Gapless'
  <2>1. (list # None => Whole(list))'
    BY <1>1 DEF Gapless, Whole
  <2>2. ASSUME NEW x \in Procs, proc'[x].pc = "page" PROVE Sofar(proc[x].fetched, proc[x].offset)'
    <3>1. PICK l, l1 : l = proc[x].fetched /\ l1 = proc'[x].fetched
      OBVIOUS
    <3>2. PICK o \in Nat : o = proc[x].offset
      BY <1>1 DEF TypeOK, Locals
    <3>3. Sofar(l, o) /\ o = proc'[x].offset /\ After(l, l1, o, f, s)
      BY <1>1, <1>3, <2>2, <3>1, <3>2 DEF Gapless, After
    <3>4. Sofar(l1, o)'
      BY <1>1, <3>3, StaysSofar
    <3> QED
      BY <3>1, <3>2, <3>3, <3>4 DEF Sofar
  <2>3. ASSUME NEW x \in Procs, proc'[x].pc = "list_set" PROVE Whole(proc'[x].fetched)
    BY <1>1, <1>3, <2>3 DEF Gapless
  <2> QED
    BY <2>1, <2>2, <2>3 DEF Gapless, Whole
<1> QED
  BY <1>4, <1>5, <1>7, <1>8 DEF IInv

-----------------------------------------------------------------------------
(***************************************************************************)
(* The invariant, and what it shows.                                       *)
(***************************************************************************)

\* Nothing is cached, under way or invalidated at first.
LEMMA InitInv == Init => IInv
<1> SUFFICES ASSUME Init PROVE IInv
  OBVIOUS
<1>1. ASSUME NEW f \in Flags PROVE log[f] \in Seq(States) \ {<<>>} /\ Len(log[f]) = 1
  <2>1. PICK s \in Initial : log[f] = <<s>>
    BY DEF Init
  <2>2. <<s>> \in Seq(States) /\ Len(<<s>>) = 1 /\ <<s>> # <<>>
    BY InitialAssumption
  <2> QED
    BY <2>1, <2>2
<1>2. Idle \in Locals /\ Idle.pc = "idle" /\ \A f \in Flags : Idle.base[f] = 0
  <2>1. PICK pc \in Points : pc = "idle"
    BY DEF Points
  <2>2. PICK kind \in {"eval", "flag", "list", "sync"} : kind = "list"
    OBVIOUS
  <2>3. PICK g \in Flags \cup {NoFlag}, def \in BOOLEAN : g = NoFlag /\ def = FALSE
    OBVIOUS
  <2>4. /\ At(pc, kind, g, def) \in Locals /\ At(pc, kind, g, def).pc = pc
        /\ \A h \in Flags : At(pc, kind, g, def).base[h] = 0
    BY AtLocals
  <2> QED
    BY <2>1, <2>2, <2>3, <2>4 DEF Idle
<1>3. TypeOK
  <2>1. log = [f \in Flags |-> log[f]]
    BY DEF Init
  <2>2. log \in [Flags -> Seq(States) \ {<<>>}]
    BY <1>1, <2>1
  <2>3. faults \in 0..MaxFaults
    BY BoundsAssumption DEF Init
  <2> QED
    BY <1>2, <2>2, <2>3 DEF Init, TypeOK
<1>4. PICK q : q = Idle
  OBVIOUS
<1>5. q.pc = "idle" /\ \A f \in Flags : q.base[f] <= Len(log[f])
  BY <1>1, <1>2, <1>4
<1>6. \A p \in Procs : proc[p] = q
  BY <1>4 DEF Init
<1>7. Coherent
  <2>1. CoherentAt(q)
    BY <1>5 DEF CoherentAt
  <2>2. \A f \in Flags : floor[f] <= Len(log[f])
    BY <1>1 DEF Init
  <2> QED
    BY <1>6, <2>1, <2>2 DEF Coherent
<1>8. Marked
  BY <1>5, <1>6 DEF Init, Marked, MetaMarked, EvalMarked, HeldMarked
<1>9. Gapless
  BY <1>5, <1>6 DEF Init, Gapless
<1> QED
  BY <1>3, <1>7, <1>8, <1>9 DEF IInv

\* Every step preserves the invariant.
LEMMA NextInv == IInv /\ [Next]_vars => IInv'
<1> SUFFICES ASSUME IInv, [Next]_vars PROVE IInv'
  OBVIOUS
<1>1. Asked \subseteq Flags /\ Defaults \subseteq BOOLEAN /\ \A p \in Handlers \cup Syncers : p \in Procs
  BY AskedAssumption DEF Procs
<1>2. ASSUME NEW f \in Flags, NEW s \in States, Change(f, s) PROVE IInv'
  BY <1>2, ChangeInv
<1>3. ASSUME NEW p \in Handlers, Request(p) PROVE IInv'
  <2>1. CASE \E f \in Asked, def \in Defaults : StartEval(p, f, def)
    BY <1>1, <2>1, StartsInv
  <2>2. CASE \E f \in Asked : StartFlag(p, f)
    BY <1>1, <2>2, StartsInv
  <2>3. CASE StartList(p)
    BY <1>1, <2>3, StartsInv
  <2>4. CASE StartSync(p)
    BY <1>1, <2>4, StartSyncInv
  <2> QED
    BY <1>3, <2>1, <2>2, <2>3, <2>4 DEF Request
<1>4. ASSUME NEW p \in Syncers, StartSync(p) PROVE IInv'
  BY <1>1, <1>4, StartSyncInv
<1>5. ASSUME NEW p \in Procs, Step(p) PROVE IInv'
  <2>1. CASE EvalGet(p)
    BY <2>1, EvalGetInv
  <2>2. CASE MetaGet(p)
    BY <2>2, MetaGetInv
  <2>3. CASE Fetch(p)
    BY <2>3, FetchInv
  <2>4. CASE MetaSet(p)
    BY <2>4, MetaSetInv
  <2>5. CASE EvalSet(p)
    BY <2>5, EvalSetInv
  <2>6. CASE ListGet(p)
    BY <2>6, ListGetInv
  <2>7. CASE FetchPage(p)
    BY <2>7, FetchPageInv
  <2>8. CASE ListSet(p)
    BY <2>8, ListSetInv
  <2>9. CASE DropList(p)
    BY <2>9, DropListInv
  <2>10. ASSUME NEW f \in Flags, DropEval(p, f) PROVE IInv'
    BY <2>10, DropEvalInv
  <2>11. ASSUME NEW f \in Flags, DropMeta(p, f) PROVE IInv'
    BY <2>11, DropMetaInv
  <2> QED
    BY <1>5, <2>1, <2>2, <2>3, <2>4, <2>5, <2>6, <2>7, <2>8, <2>9, <2>10, <2>11 DEF Step
<1>6. ASSUME NEW p \in Procs, Fault(p) PROVE IInv'
  BY <1>6, LookupFailsInv, PageFailsInv, FailsInv DEF Fault
<1>7. TypeOK
  BY DEF IInv
<1>8. ASSUME NEW f \in Asked, ExpireEval(f) PROVE IInv'
  <2>1. /\ evals' \in [Flags -> Evals \cup {None}]
        /\ \A g \in Flags : evals'[g] \in {evals[g], None}
    BY <1>1, <1>7, <1>8 DEF ExpireEval, TypeOK
  <2> QED
    BY <1>7, <1>8, <2>1, ExpireInv DEF ExpireEval, TypeOK
<1>9. ASSUME NEW f \in Asked, ExpireMeta(f) PROVE IInv'
  <2>1. /\ meta' \in [Flags -> Metas \cup {None}]
        /\ \A g \in Flags : meta'[g] \in {meta[g], None}
    BY <1>1, <1>7, <1>9 DEF ExpireMeta, TypeOK
  <2> QED
    BY <1>7, <1>9, <2>1, ExpireInv DEF ExpireMeta, TypeOK
<1>10. CASE ExpireList
  BY <1>7, <1>10, ExpireInv DEF ExpireList, TypeOK
<1>11. CASE UNCHANGED vars
  BY <1>7, <1>11, ExpireInv DEF vars, TypeOK
<1> QED
  BY <1>2, <1>3, <1>4, <1>5, <1>6, <1>8, <1>9, <1>10, <1>11 DEF Next

\* The invariant holds in every reachable state.
LEMMA Invariance == Spec => []IInv
BY InitInv, NextInv, PTL DEF Spec

\* What the service keeps and what its coroutines hold has the form they expect,
\* whatever Unleash, the clients and the failures do.
THEOREM TypeCorrect == Spec => []TypeOK
<1>1. IInv => TypeOK
  BY DEF IInv
<1> QED
  BY <1>1, Invariance, PTL

\* sync_flags_from_unleash: what is older than the last complete invalidation is
\* the work of a fill that had read Unleash before its key was deleted, or of an
\* evaluation from metadata that was deleted after the evaluations.
THEOREM StaleIsRaced == Spec => []StaleExplained
<1>1. IInv => StaleExplained
  <2> SUFFICES ASSUME IInv PROVE StaleExplained
    OBVIOUS
  <2>1. Marked
    BY DEF IInv
  <2>2. ASSUME NEW f \in Flags
        PROVE  /\ meta[f] # None /\ meta[f].ver < floor[f] => meta[f].raced
               /\ evals[f] # None /\ evals[f].ver # 0 /\ evals[f].ver < floor[f] => evals[f].raced
    BY <2>1 DEF Marked, MetaMarked, EvalMarked, OldMeta, OldEval
  <2>3. list # None => \A f \in Flags : list.got[f] # 0 /\ list.got[f] < floor[f] => list.raced
    BY <2>1 DEF Marked, ListMarked, OldEntry
  <2> QED
    BY <2>2, <2>3 DEF StaleExplained
<1> QED
  BY <1>1, Invariance, PTL

\* get_feature_flags: a cached list lacks a flag that was there all the time only
\* if a page failed or a flag that the offset had passed was removed.
THEOREM GapsAreExplained == Spec => []ListGapsExplained
<1>1. IInv => ListGapsExplained
  BY DEF IInv, Gapless, Whole, ListGapsExplained
<1> QED
  BY <1>1, Invariance, PTL
=============================================================================
