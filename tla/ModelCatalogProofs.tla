-------------------------- MODULE ModelCatalogProofs --------------------------
(***************************************************************************)
(* Theorems about ModelCatalog for any models, services, requests and      *)
(* failures.  The argument has two halves.  One is about handlers: what    *)
(* a request that nobody has overtaken knows of the tables (InStep), for   *)
(* any change of a row overtakes those who would be wrong about it.  The   *)
(* other is about items: a copy that differs from its row is suspect, or   *)
(* some request that has changed this very row, and is behind in the       *)
(* field that differs, has still to write it (Explained).                  *)
(***************************************************************************)
EXTENDS ModelCatalog, TLAPS

\* What a handler is about fits where it is.
CoherentAt(q) ==
  /\ q.pc # "idle" => q.item \in Items /\ q.sent \in Sends(q.kind, q.item)
  /\ q.pc \in {"exists", "insert", "refresh", "save"} => q.kind = "create"
  /\ q.pc \in {"select", "write", "patch", "reread", "fill"} => q.kind = "update"
  /\ q.pc = "check" => q.kind \in {"create", "update"} /\ q.item \in Services
  /\ q.pc \in {"drop", "delete"} => q.kind = "delete"
  /\ q.pc = "publish" => q.kind \in {"publish", "unpublish"}
  /\ q.kind \in {"publish", "unpublish"} => q.item \in Models
  /\ q.pc \in {"reread", "fill"} => q.item \in Models
  /\ q.pc \in {"write", "fill", "delete"} => q.read # None /\ q.read.ref \in Refs(q.item)
  /\ q.pc = "drop" => q.read # None /\ q.read.ref \in Refs(q.item)
  /\ q.pc = "find" => q.kind \in {"delete", "publish", "unpublish"}
  /\ q.pc = "check" /\ q.kind = "update" => q.read # None /\ q.read.ref \in Refs(q.item)
  /\ q.pc \in {"exists", "check", "insert", "select", "write"} => q.wrote = 0
  /\ q.pc \in {"refresh", "save"} => q.wrote # 0

Coherent == \A p \in Handlers : CoherentAt(proc[p])

TypeInv == TypeOK /\ Coherent

Behind == {"refresh", "save", "patch", "reread", "fill"}

\* What a request that has not been overtaken knows: the row it has changed is as
\* it left it, or there was no row to change and still is none; the row it has read
\* is as it was; the copy it has dropped is gone.
Wrote(q) ==
  q.pc \in Behind /\ ~ q.raced /\ q.wrote # 0 =>
    /\ rows[q.item] # None
    /\ rows[q.item].id = q.wrote
    /\ q.sent.name # Keep => rows[q.item].name = q.sent.name
    /\ q.sent.ref # Keep => rows[q.item].ref = q.sent.ref

WroteNone(q) ==
  q.pc \in Behind /\ ~ q.raced /\ q.wrote = 0 => rows[q.item] = None /\ q.pc # "fill"

HasRead(q) ==
  (q.pc = "fill" \/ (q.pc = "write" /\ q.item \in Models)) /\ ~ q.raced =>
    /\ rows[q.item] # None
    /\ rows[q.item].id = q.read.id
    /\ rows[q.item].name = q.read.name
    /\ rows[q.item].ref = q.read.ref

Dropped(q) ==
  q.pc = "delete" /\ ~ q.raced /\ q.item \in Models => copies[q.item] = None

InStepAt(p) == /\ Wrote(proc[p]) /\ WroteNone(proc[p])
               /\ HasRead(proc[p]) /\ Dropped(proc[p])

InStep == \A p \in Handlers : InStepAt(p)

\* The request p has changed the row x has, and owes its copy.
Owing(p, x) ==
  Owes(p, x) /\ rows[x] # None /\ proc[p].wrote = rows[x].id

NameExplained(x) ==
  \/ copies[x].name = rows[x].name
  \/ \E p \in Handlers : Owing(p, x) /\ (proc[p].raced \/ proc[p].sent.name # Keep)

RefExplained(x) ==
  \/ copies[x].ref = rows[x].ref
  \/ x \in kept
  \/ \E p \in Handlers : Owing(p, x) /\ (proc[p].raced \/ proc[p].sent.ref # Keep)

ModelExplained(x) ==
  copies[x] # None /\ x \notin suspect =>
    rows[x] # None /\ NameExplained(x) /\ RefExplained(x)

ServiceExplained(x) ==
  copies[x] # None /\ rows[x] # None /\ x \notin suspect =>
    \/ copies[x].name = rows[x].name /\ copies[x].ref = rows[x].ref
    \/ \E p \in Handlers : Owing(p, x)

ItemExplained(x) == /\ x \in Models => ModelExplained(x)
                    /\ x \in Services => ServiceExplained(x)

Explained == \A x \in Items : ItemExplained(x)

IInv == TypeInv /\ ServicesHaveModels /\ NoUpdateLost /\ InStep /\ Explained

-----------------------------------------------------------------------------
\* What a step of p does to the locals of the others.
Others(p) ==
  \A r \in Handlers \ {p} :
    /\ proc'[r].pc = proc[r].pc /\ proc'[r].kind = proc[r].kind
    /\ proc'[r].item = proc[r].item /\ proc'[r].sent = proc[r].sent
    /\ proc'[r].read = proc[r].read /\ proc'[r].wrote = proc[r].wrote
    /\ proc[r].raced => proc'[r].raced

Overtaken(p, x) ==
  \A r \in Handlers \ {p} :
    proc[r].item = x /\ proc[r].pc \in Behind \cup {"write"} => proc'[r].raced

Uncovered(p, x) ==
  \A r \in Handlers \ {p} : proc[r].item = x /\ proc[r].pc = "delete" => proc'[r].raced

SameRow(x) ==
  \/ rows[x] = None /\ rows'[x] = None
  \/ /\ rows[x] # None /\ rows'[x] # None
     /\ rows'[x].id = rows[x].id /\ rows'[x].name = rows[x].name
     /\ rows'[x].ref = rows[x].ref

\* The others learn of every row that changes and of every copy that is written.
Shape(p) ==
  /\ Others(p)
  /\ \A x \in Items : SameRow(x) \/ Overtaken(p, x)
  /\ \A x \in Items : copies'[x] \in {copies[x], None} \/ Uncovered(p, x)

\* The record of p after a step that keeps what it is about.
Onward(p, pc) ==
  /\ proc'[p].pc = pc /\ proc'[p].kind = proc[p].kind /\ proc'[p].item = proc[p].item
  /\ proc'[p].sent = proc[p].sent /\ proc'[p].raced = proc[p].raced

LEMMA IdleTyped == Idle \in Locals /\ Idle.pc = "idle" /\ ~ Idle.raced
                   /\ Idle.wrote = 0 /\ Idle.kind = "create"
BY ItemsAssumption DEF Idle, Request, NothingSent, Locals, Sent, Kinds, Points

LEMMA GoEffect ==
  ASSUME TypeOK, NEW p \in Handlers, NEW pc \in Points, Go(p, pc)
  PROVE  /\ proc' \in [Handlers -> Locals] /\ Others(p) /\ Onward(p, pc)
         /\ proc'[p].read = proc[p].read /\ proc'[p].wrote = proc[p].wrote
BY DEF TypeOK, Locals, Go, Others, Onward

LEMMA ReturnEffect ==
  ASSUME TypeOK, NEW p \in Handlers, Return(p)
  PROVE  proc' \in [Handlers -> Locals] /\ Others(p) /\ proc'[p] = Idle
BY IdleTyped DEF TypeOK, Return, Others

LEMMA ReadEffect ==
  ASSUME TypeOK, NEW p \in Handlers, NEW pc \in Points, NEW row \in Rows \cup {None},
         proc' = [proc EXCEPT ![p] = [@ EXCEPT !.pc = pc, !.read = row]]
  PROVE  /\ proc' \in [Handlers -> Locals] /\ Others(p) /\ Onward(p, pc)
         /\ proc'[p].read = row /\ proc'[p].wrote = proc[p].wrote
BY DEF TypeOK, Locals, Others, Onward

LEMMA OvertakeEffect ==
  ASSUME TypeOK, NEW p \in Handlers, NEW X, NEW q \in Locals, Overtake(X, p, q)
  PROVE  /\ proc' \in [Handlers -> Locals] /\ Others(p) /\ proc'[p] = q
         /\ \A x \in X : Overtaken(p, x)
BY DEF TypeOK, Locals, Overtake, Others, Overtaken, Behind

LEMMA StoredEffect ==
  ASSUME TypeOK, NEW p \in Handlers, NEW x \in Items, NEW copy, Stored(p, x, copy)
  PROVE  /\ proc' \in [Handlers -> Locals] /\ Others(p) /\ proc'[p] = Idle
         /\ Uncovered(p, x)
         /\ copies'[x] = copy /\ \A y \in Items \ {x} : copies'[y] = copies[y]
BY IdleTyped DEF TypeOK, Locals, Stored, Others, Uncovered

\* A step that changes neither table nor copies has this shape.
LEMMA LocalShape ==
  ASSUME TypeOK, NEW p \in Handlers, Others(p), rows' = rows, copies' = copies
  PROVE  Shape(p)
BY DEF Shape, SameRow

-----------------------------------------------------------------------------
\* Types.

LEMMA RefsFacts ==
  ASSUME NEW x \in Items
  PROVE  /\ Refs(x) \subseteq AnyRef /\ Keep \notin Refs(x) /\ Keep \notin Names
         /\ x \in Services => Refs(x) = Models
         /\ x \in Models => Refs(x) = Tasks /\ x \notin Services
BY ItemsAssumption, KeepAssumption DEF Refs, AnyRef, Items

LEMMA SentFacts ==
  ASSUME NEW x \in Items, NEW kind \in Kinds, NEW sent \in Sends(kind, x)
  PROVE  /\ sent \in Sent
         /\ kind = "create" => sent.name \in Names /\ sent.ref \in Refs(x)
         /\ kind = "update" => /\ sent.name \in Names \cup {Keep}
                               /\ sent.ref \in Refs(x) \cup {Keep}
         /\ kind = "update" /\ x \in Services => sent.name \in Names /\ sent.ref \in Refs(x)
<1>1. Refs(x) \subseteq AnyRef
  BY RefsFacts
<1>2. CASE kind = "create" \/ (kind = "update" /\ x \in Services)
  BY <1>1, <1>2 DEF Sends, Sent
<1>3. CASE kind = "update" /\ x \notin Services
  BY <1>1, <1>3 DEF Sends, Sent
<1>4. CASE kind \notin {"create", "update"}
  BY <1>4 DEF Sends, NothingSent, Sent, Kinds
<1> QED
  BY <1>2, <1>3, <1>4

\* What is known of a request in progress.
LEMMA Typed ==
  ASSUME TypeInv, NEW p \in Handlers
  PROVE  /\ proc[p] \in Locals /\ CoherentAt(proc[p])
         /\ proc[p].pc # "idle" => proc[p].item \in Items
         /\ proc[p].pc # "idle" /\ proc[p].kind = "create"
              => proc[p].sent.name \in Names /\ proc[p].sent.ref \in Refs(proc[p].item)
         /\ proc[p].pc # "idle" /\ proc[p].kind = "update"
              => /\ proc[p].sent.name \in Names \cup {Keep}
                 /\ proc[p].sent.ref \in Refs(proc[p].item) \cup {Keep}
         /\ proc[p].pc # "idle" /\ proc[p].kind = "update" /\ proc[p].item \in Services
              => proc[p].sent.name \in Names /\ proc[p].sent.ref \in Refs(proc[p].item)
<1>1. proc[p] \in Locals /\ CoherentAt(proc[p])
  BY DEF TypeInv, TypeOK, Coherent
<1>2. proc[p].kind \in Kinds
  BY <1>1 DEF Locals
<1>3. CASE proc[p].pc = "idle"
  BY <1>1, <1>3
<1>4. CASE proc[p].pc # "idle"
  <2>1. proc[p].item \in Items /\ proc[p].sent \in Sends(proc[p].kind, proc[p].item)
    BY <1>1, <1>4 DEF CoherentAt
  <2> QED
    BY <2>1, <1>1, <1>2, SentFacts
<1> QED
  BY <1>3, <1>4

\* A merged record has the fields of either.
LEMMA MergeRow ==
  ASSUME NEW x \in Items, NEW old \in Rows, old.ref \in Refs(x),
         NEW sent \in Sent, sent.ref \in Refs(x) \cup {Keep}
  PROVE  /\ Merge(old, sent) \in Rows /\ Merge(old, sent).ref \in Refs(x)
         /\ Merge(old, sent).id = old.id /\ Merge(old, sent).pub = old.pub
         /\ sent.name # Keep => Merge(old, sent).name = sent.name
         /\ sent.name = Keep => Merge(old, sent).name = old.name
         /\ sent.ref # Keep => Merge(old, sent).ref = sent.ref
         /\ sent.ref = Keep => Merge(old, sent).ref = old.ref
BY RefsFacts DEF Merge, Rows, Sent

LEMMA MergeCopy ==
  ASSUME NEW x \in Items, NEW old \in Copies, old.ref \in Refs(x),
         NEW sent \in Sent, sent.ref \in Refs(x) \cup {Keep}
  PROVE  /\ Merge(old, sent) \in Copies /\ Merge(old, sent).ref \in Refs(x)
         /\ sent.name # Keep => Merge(old, sent).name = sent.name
         /\ sent.name = Keep => Merge(old, sent).name = old.name
         /\ sent.ref # Keep => Merge(old, sent).ref = sent.ref
         /\ sent.ref = Keep => Merge(old, sent).ref = old.ref
BY RefsFacts DEF Merge, Copies, Sent

LEMMA MergeDue ==
  ASSUME NEW old \in Dues, NEW sent \in Sent
  PROVE  /\ Merge(old, sent) \in Dues
         /\ Merge(old, sent).pub = old.pub /\ Merge(old, sent).same = old.same
         /\ sent.name # Keep => Merge(old, sent).name = sent.name
         /\ sent.name = Keep => Merge(old, sent).name = old.name
         /\ sent.ref # Keep => Merge(old, sent).ref = sent.ref
         /\ sent.ref = Keep => Merge(old, sent).ref = old.ref
BY DEF Merge, Dues, Sent

LEMMA AskedFacts ==
  ASSUME NEW old \in Dues, NEW read \in Rows, NEW sent \in Sent
  PROVE  /\ Asked(old, read, sent) \in Dues
         /\ Asked(old, read, sent).pub = old.pub
         /\ Asked(old, read, sent).same =
              IF sent.name = Keep THEN old.same ELSE sent.name = read.name
         /\ sent.name # Keep => Asked(old, read, sent).name = sent.name
         /\ sent.name = Keep => Asked(old, read, sent).name = old.name
         /\ sent.ref # Keep => Asked(old, read, sent).ref = sent.ref
         /\ sent.ref = Keep => Asked(old, read, sent).ref = old.ref
<1> DEFINE m == Merge(old, sent)
<1>1. m \in Dues
  BY MergeDue
<1>2. Asked(old, read, sent) =
        [m EXCEPT !.same = IF sent.name = Keep THEN m.same ELSE sent.name = read.name]
  BY DEF Asked
<1>3. m.pub = old.pub /\ m.same = old.same
  BY MergeDue
<1>4. /\ sent.name # Keep => m.name = sent.name
      /\ sent.name = Keep => m.name = old.name
      /\ sent.ref # Keep => m.ref = sent.ref
      /\ sent.ref = Keep => m.ref = old.ref
  BY MergeDue
<1> HIDE DEF m
<1> QED
  BY <1>1, <1>2, <1>3, <1>4 DEF Dues

LEMMA OthersCoherent ==
  ASSUME TypeInv, NEW p \in Handlers, Others(p), CoherentAt(proc'[p])
  PROVE  Coherent'
<1>1. SUFFICES ASSUME NEW r \in Handlers PROVE CoherentAt(proc'[r])
  BY DEF Coherent, CoherentAt
<1>2. CASE r = p
  BY <1>2
<1>3. CASE r # p
  BY <1>3, CoherentAt(proc[r]) DEF Others, CoherentAt, TypeInv, Coherent
<1> QED
  BY <1>2, <1>3

\* A step that changes nothing that is shared.
LEMMA LocalStep ==
  ASSUME TypeInv, NEW p \in Handlers, proc' \in [Handlers -> Locals], Others(p),
         CoherentAt(proc'[p]),
         UNCHANGED <<rows, copies, made, due, kept>>,
         suspect' \subseteq Items, requests' \in 0..MaxRequests, faults' \in 0..MaxFaults
  PROVE  TypeInv' /\ Shape(p)
<1>1. Coherent'
  BY OthersCoherent
<1>2. TypeOK'
  BY DEF TypeInv, TypeOK
<1>3. Shape(p)
  BY LocalShape DEF TypeInv
<1> QED
  BY <1>1, <1>2, <1>3 DEF TypeInv

LEMMA StartStep ==
  ASSUME TypeInv, NEW p \in Handlers, NEW kind \in Kinds, NEW x \in Items,
         NEW sent \in Sends(kind, x), Start(p, kind, x, sent)
  PROVE  TypeInv' /\ Shape(p)
<1>1. sent \in Sent
  BY SentFacts
<1> DEFINE q == Request(First(kind), kind, x, sent)
<1>2. /\ q = [pc |-> First(kind), kind |-> kind, item |-> x, sent |-> sent,
              read |-> None, wrote |-> 0, raced |-> FALSE]
  BY DEF Request
<1>3. First(kind) \in Points
  BY DEF First, Kinds, Points
<1>a. proc' = [proc EXCEPT ![p] = q]
  BY DEF Start
<1> HIDE DEF q
<1>4. q \in Locals
  BY <1>1, <1>2, <1>3 DEF Locals
<1>5. CoherentAt(q)
  BY <1>2 DEF CoherentAt, First, Kinds, Start
<1>7. proc' \in [Handlers -> Locals] /\ Others(p) /\ proc'[p] = q
  BY <1>4, <1>a DEF TypeInv, TypeOK, Others
<1>8. requests' \in 0..MaxRequests
  BY BoundsAssumption DEF Start, TypeInv, TypeOK
<1> QED
  BY <1>5, <1>7, <1>8, LocalStep DEF Start, TypeInv, TypeOK

\* A request that ends, or goes on with what it has, leaves the types alone.
LEMMA QuietStep ==
  ASSUME TypeInv, NEW p \in Handlers, Quiet,
         \/ Return(p)
         \/ \E pc \in Points : Go(p, pc) /\ CoherentAt(proc'[p])
         \/ \E pc \in Points, row \in Rows \cup {None} :
              /\ proc' = [proc EXCEPT ![p] = [@ EXCEPT !.pc = pc, !.read = row]]
              /\ CoherentAt(proc'[p])
  PROVE  TypeInv' /\ Shape(p)
<1>1. proc' \in [Handlers -> Locals] /\ Others(p) /\ CoherentAt(proc'[p])
  <2>1. CASE Return(p)
    BY <2>1, ReturnEffect, IdleTyped DEF TypeInv, CoherentAt
  <2>2. CASE \E pc \in Points : Go(p, pc) /\ CoherentAt(proc'[p])
    BY <2>2, GoEffect DEF TypeInv
  <2>3. CASE \E pc \in Points, row \in Rows \cup {None} :
               /\ proc' = [proc EXCEPT ![p] = [@ EXCEPT !.pc = pc, !.read = row]]
               /\ CoherentAt(proc'[p])
    BY <2>3, ReadEffect DEF TypeInv
  <2> QED
    BY <2>1, <2>2, <2>3
<1> QED
  BY <1>1, LocalStep DEF Quiet, TypeInv, TypeOK

LEMMA ExistsStep ==
  ASSUME TypeInv, NEW p \in Handlers, Exists(p)
  PROVE  TypeInv' /\ Shape(p)
<1> DEFINE pc == IF proc[p].item \in Models THEN "insert" ELSE "check"
<1>1. CASE Return(p)
  BY <1>1, QuietStep DEF Exists
<1>2. CASE Go(p, pc)
  <2>1. pc \in Points
    BY DEF Points
  <2>2. CoherentAt(proc'[p])
    BY <1>2, <2>1, Typed, GoEffect DEF TypeInv, Onward, CoherentAt, Exists, Items
  <2> QED
    BY <1>2, <2>1, <2>2, QuietStep DEF Exists
<1> QED
  BY <1>1, <1>2 DEF Exists

LEMMA CheckStep ==
  ASSUME TypeInv, NEW p \in Handlers, Check(p)
  PROVE  TypeInv' /\ Shape(p)
<1> DEFINE pc == IF proc[p].kind = "create" THEN "insert" ELSE "write"
<1>1. CASE Return(p)
  BY <1>1, QuietStep DEF Check
<1>2. CASE Go(p, pc)
  <2>1. pc \in Points
    BY DEF Points
  <2>2. CoherentAt(proc'[p])
    BY <1>2, <2>1, Typed, GoEffect DEF TypeInv, Onward, CoherentAt, Check
  <2> QED
    BY <1>2, <2>1, <2>2, QuietStep DEF Check
<1> QED
  BY <1>1, <1>2 DEF Check

LEMMA RefreshStep ==
  ASSUME TypeInv, NEW p \in Handlers, Refresh(p)
  PROVE  TypeInv' /\ Shape(p)
<1>1. CASE Return(p)
  BY <1>1, QuietStep DEF Refresh
<1>2. CASE Go(p, "save")
  <2>1. "save" \in Points
    BY DEF Points
  <2>2. CoherentAt(proc'[p])
    BY <1>2, <2>1, Typed, GoEffect DEF TypeInv, Onward, CoherentAt, Refresh
  <2> QED
    BY <1>2, <2>1, <2>2, QuietStep DEF Refresh
<1> QED
  BY <1>1, <1>2 DEF Refresh

LEMMA RowTyped ==
  ASSUME TypeInv, NEW x \in Items, rows[x] # None
  PROVE  rows[x] \in Rows /\ rows[x].ref \in Refs(x) /\ rows[x].id \in Nat \ {0}
BY DEF TypeInv, TypeOK, Rows

LEMMA SelectStep ==
  ASSUME TypeInv, NEW p \in Handlers, Select(p)
  PROVE  TypeInv' /\ Shape(p)
<1> DEFINE x == proc[p].item
           pc == IF x \in Models THEN "write" ELSE "check"
<1>0. x \in Items /\ proc[p].kind = "update" /\ proc[p].wrote = 0
  BY Typed DEF Select, CoherentAt
<1>1. CASE Return(p)
  BY <1>1, QuietStep DEF Select
<1>2. CASE Go(p, "patch") /\ x \in Models
  <2>1. "patch" \in Points
    BY DEF Points
  <2>2. CoherentAt(proc'[p])
    BY <1>2, <2>1, Typed, GoEffect DEF TypeInv, Onward, CoherentAt, Select
  <2> QED
    BY <1>2, <2>1, <2>2, QuietStep DEF Select
<1>3. CASE /\ rows[x] # None
           /\ proc' = [proc EXCEPT ![p] = [@ EXCEPT !.pc = pc, !.read = rows[x]]]
  <2>1. pc \in Points
    BY DEF Points
  <2>2. rows[x] \in Rows /\ rows[x].ref \in Refs(x)
    BY <1>0, <1>3, RowTyped
  <2>3. /\ Onward(p, pc) /\ proc'[p].read = rows[x] /\ proc'[p].wrote = proc[p].wrote
    BY <1>3, <2>1, <2>2, ReadEffect DEF TypeInv
  <2>4. CoherentAt(proc'[p])
    BY <1>0, <1>3, <2>2, <2>3, Typed DEF Onward, CoherentAt, Select, Items
  <2> QED
    BY <1>3, <2>1, <2>2, <2>4, QuietStep DEF Select
<1> QED
  BY <1>1, <1>2, <1>3 DEF Select

LEMMA RereadStep ==
  ASSUME TypeInv, NEW p \in Handlers, Reread(p)
  PROVE  TypeInv' /\ Shape(p)
<1> DEFINE x == proc[p].item
<1>0. x \in Items /\ x \in Models /\ proc[p].kind = "update"
  BY Typed DEF Reread, CoherentAt
<1>1. CASE Return(p)
  BY <1>1, QuietStep DEF Reread
<1>2. CASE /\ rows[x] # None
           /\ proc' = [proc EXCEPT ![p] = [@ EXCEPT !.pc = "fill", !.read = rows[x]]]
  <2>1. "fill" \in Points
    BY DEF Points
  <2>2. rows[x] \in Rows /\ rows[x].ref \in Refs(x)
    BY <1>0, <1>2, RowTyped
  <2>3. /\ Onward(p, "fill") /\ proc'[p].read = rows[x] /\ proc'[p].wrote = proc[p].wrote
    BY <1>2, <2>1, <2>2, ReadEffect DEF TypeInv
  <2>4. CoherentAt(proc'[p])
    BY <1>0, <1>2, <2>2, <2>3, Typed DEF Onward, CoherentAt, Reread
  <2> QED
    BY <1>2, <2>1, <2>2, <2>4, QuietStep DEF Reread
<1> QED
  BY <1>1, <1>2 DEF Reread

LEMMA FindStep ==
  ASSUME TypeInv, NEW p \in Handlers, Find(p)
  PROVE  TypeInv' /\ Shape(p)
<1> DEFINE x == proc[p].item
           pc == IF proc[p].kind = "delete" THEN "drop" ELSE "publish"
<1>0. x \in Items
  BY Typed DEF Find, CoherentAt
<1>1. CASE Return(p)
  BY <1>1, QuietStep DEF Find
<1>2. CASE /\ rows[x] # None
           /\ proc' = [proc EXCEPT ![p] = [@ EXCEPT !.pc = pc, !.read = rows[x]]]
  <2>1. pc \in Points
    BY DEF Points
  <2>2. rows[x] \in Rows /\ rows[x].ref \in Refs(x)
    BY <1>0, <1>2, RowTyped
  <2>3. /\ Onward(p, pc) /\ proc'[p].read = rows[x] /\ proc'[p].wrote = proc[p].wrote
    BY <1>2, <2>1, <2>2, ReadEffect DEF TypeInv
  <2>4. CoherentAt(proc'[p])
    BY <1>0, <1>2, <2>2, <2>3, Typed DEF Onward, CoherentAt, Find
  <2> QED
    BY <1>2, <2>1, <2>2, <2>4, QuietStep DEF Find
<1> QED
  BY <1>1, <1>2 DEF Find

LEMMA FailStep ==
  ASSUME TypeInv, NEW p \in Handlers, Fail(p)
  PROVE  TypeInv' /\ Shape(p)
<1>1. proc' \in [Handlers -> Locals] /\ Others(p) /\ CoherentAt(proc'[p])
  BY ReturnEffect, IdleTyped DEF Fail, TypeInv, CoherentAt
<1>2. suspect' \subseteq Items
  BY Typed DEF Fail, TypeInv, TypeOK, CoherentAt
<1>3. faults' \in 0..MaxFaults
  BY BoundsAssumption DEF Fail, TypeInv, TypeOK
<1> QED
  BY <1>1, <1>2, <1>3, LocalStep DEF Fail, TypeInv, TypeOK

LEMMA CopyFailsStep ==
  ASSUME TypeInv, NEW p \in Handlers, CopyFails(p)
  PROVE  TypeInv' /\ Shape(p)
<1>1. proc' \in [Handlers -> Locals] /\ Others(p) /\ CoherentAt(proc'[p])
  <2>1. CASE proc[p].pc = "patch" /\ Go(p, "reread")
    <3>1. "reread" \in Points
      BY DEF Points
    <3> QED
      BY <2>1, <3>1, Typed, GoEffect DEF TypeInv, Onward, CoherentAt, CopyFails
  <2>2. CASE /\ proc[p].pc = "drop"
             /\ proc' = [proc EXCEPT ![p] = [@ EXCEPT !.pc = "delete", !.raced = TRUE]]
    <3>1. "delete" \in Points
      BY DEF Points
    <3>2. proc[p] \in Locals
      BY Typed
    <3>3. proc' \in [Handlers -> Locals] /\ Others(p)
      BY <2>2, <3>1, <3>2 DEF TypeInv, TypeOK, Locals, Others
    <3>4. /\ proc'[p].pc = "delete" /\ proc'[p].kind = proc[p].kind
          /\ proc'[p].item = proc[p].item /\ proc'[p].sent = proc[p].sent
          /\ proc'[p].read = proc[p].read /\ proc'[p].wrote = proc[p].wrote
      BY <2>2, <3>2 DEF TypeInv, TypeOK, Locals
    <3>5. proc[p].read \in Rows /\ proc[p].read.ref \in Refs(proc[p].item)
      BY <2>2, <3>2, Typed DEF CoherentAt, Locals
    <3> QED
      BY <2>2, <3>3, <3>4, <3>5, Typed DEF CoherentAt
  <2> QED
    BY <2>1, <2>2 DEF CopyFails
<1>2. faults' \in 0..MaxFaults
  BY BoundsAssumption DEF CopyFails, TypeInv, TypeOK
<1> QED
  BY <1>1, <1>2, LocalStep DEF CopyFails, TypeInv, TypeOK

\* The steps that write rows or copies.

LEMMA InsertStep ==
  ASSUME TypeInv, NEW p \in Handlers, Insert(p)
  PROVE  TypeInv' /\ Shape(p)
<1> DEFINE x == proc[p].item
           row == Inserted(p)
           q == [proc[p] EXCEPT !.pc = "refresh", !.wrote = row.id]
<1>0. x \in Items /\ proc[p].kind = "create" /\ proc[p] \in Locals
      /\ proc[p].sent.name \in Names /\ proc[p].sent.ref \in Refs(x)
  BY Typed DEF Insert, CoherentAt
<1>1. CASE Return(p) /\ UNCHANGED <<rows, made, due>>
  BY <1>1, QuietStep DEF Insert, Quiet
<1>2. CASE rows[x] = None /\ Insertion(p, x, row)
  <2>1. /\ row \in Rows /\ row.id = made + 1 /\ row.name = proc[p].sent.name
        /\ row.ref = proc[p].sent.ref /\ row.pub = FALSE
    BY <1>0, RefsFacts DEF Inserted, Rows, TypeInv, TypeOK
  <2>2. row.id \in Nat \ {0}
    BY <2>1 DEF TypeInv, TypeOK
  <2> DEFINE d == [name |-> row.name, ref |-> row.ref, pub |-> FALSE, same |-> FALSE]
  <2>3. d \in Dues
    BY <1>0, <2>1, RefsFacts DEF Dues
  <2>q. q \in Locals /\ q.pc = "refresh" /\ q.kind = proc[p].kind /\ q.item = x
        /\ q.sent = proc[p].sent /\ q.read = proc[p].read /\ q.wrote = row.id
    BY <1>0, <2>2 DEF Locals, Points
  <2>4. /\ rows' = [rows EXCEPT ![x] = row] /\ made' = row.id
        /\ due' = [due EXCEPT ![x] = d] /\ Overtake({x}, p, q)
    BY <1>2 DEF Insertion
  <2> HIDE DEF q, d, row
  <2>5. proc' \in [Handlers -> Locals] /\ Others(p) /\ proc'[p] = q /\ Overtaken(p, x)
    BY <2>q, <2>4, OvertakeEffect DEF TypeInv
  <2>6. CoherentAt(q)
    BY <1>0, <2>2, <2>q, Typed DEF CoherentAt, Insert
  <2>7. Coherent'
    BY <2>5, <2>6, OthersCoherent
  <2>8. rows' \in [Items -> Rows \cup {None}] /\ \A y \in Items : rows'[y] # None => rows'[y].ref \in Refs(y)
    BY <1>0, <2>1, <2>4 DEF TypeInv, TypeOK
  <2>9. TypeOK'
    BY <1>0, <2>2, <2>3, <2>4, <2>5, <2>8 DEF TypeInv, TypeOK, Insert
  <2>10. Shape(p)
    BY <1>0, <2>4, <2>5 DEF Shape, SameRow, TypeInv, TypeOK, Insert
  <2> QED
    BY <2>7, <2>9, <2>10 DEF TypeInv
<1> QED
  BY <1>1, <1>2 DEF Insert

\* A copy that is written, of the right type, is one the others learn of.
LEMMA StoredStep ==
  ASSUME TypeInv, NEW p \in Handlers, NEW x \in Items, NEW copy \in Copies,
         copy.ref \in Refs(x), NEW whole \in BOOLEAN,
         Stored(p, x, copy), Judge(p, x, whole), kept' \subseteq Models,
         UNCHANGED <<rows, made, due, requests, faults>>
  PROVE  TypeInv' /\ Shape(p)
<1>1. /\ proc' \in [Handlers -> Locals] /\ Others(p) /\ proc'[p] = Idle /\ Uncovered(p, x)
      /\ copies' = [copies EXCEPT ![x] = copy]
  BY StoredEffect DEF TypeInv, Stored
<1>2. Coherent'
  BY <1>1, IdleTyped, OthersCoherent DEF CoherentAt
<1>3. suspect' \subseteq Items
  BY DEF Judge, TypeInv, TypeOK
<1>4. /\ copies' \in [Items -> Copies \cup {None}]
      /\ \A y \in Items : copies'[y] # None => copies'[y].ref \in Refs(y)
  BY <1>1 DEF TypeInv, TypeOK
<1>5. TypeOK'
  BY <1>1, <1>3, <1>4 DEF TypeInv, TypeOK
<1>6. Shape(p)
  BY <1>1 DEF Shape, SameRow, TypeInv, TypeOK
<1> QED
  BY <1>2, <1>5, <1>6 DEF TypeInv

LEMMA SaveStep ==
  ASSUME TypeInv, NEW p \in Handlers, Save(p)
  PROVE  TypeInv' /\ Shape(p)
<1> DEFINE x == proc[p].item
           copy == [name |-> proc[p].sent.name, ref |-> proc[p].sent.ref]
<1>1. x \in Items /\ proc[p].sent.name \in Names /\ proc[p].sent.ref \in Refs(x)
  BY Typed DEF Save, CoherentAt
<1>2. copy \in Copies /\ copy.ref \in Refs(x)
  BY <1>1, RefsFacts DEF Copies
<1>3. Stored(p, x, copy) /\ Judge(p, x, TRUE) /\ kept' \subseteq Models
  BY DEF Save, TypeInv, TypeOK
<1> QED
  BY <1>1, <1>2, <1>3, StoredStep DEF Save

LEMMA FillStep ==
  ASSUME TypeInv, NEW p \in Handlers, Fill(p)
  PROVE  TypeInv' /\ Shape(p)
<1> DEFINE x == proc[p].item
           row == Merge(proc[p].read, proc[p].sent)
           copy == [name |-> row.name, ref |-> row.ref]
<1>1. /\ x \in Items /\ proc[p].read \in Rows /\ proc[p].read.ref \in Refs(x)
      /\ proc[p].sent \in Sent /\ proc[p].sent.ref \in Refs(x) \cup {Keep}
  BY Typed DEF Fill, CoherentAt, Locals
<1>2. row \in Rows /\ row.ref \in Refs(x)
  BY <1>1, MergeRow
<1>3. copy \in Copies /\ copy.ref \in Refs(x)
  BY <1>1, <1>2, RefsFacts DEF Copies, Rows
<1>4. Stored(p, x, copy) /\ Judge(p, x, TRUE) /\ kept' \subseteq Models
  BY DEF Fill, TypeInv, TypeOK
<1> QED
  BY <1>1, <1>3, <1>4, StoredStep DEF Fill

LEMMA PatchStep ==
  ASSUME TypeInv, NEW p \in Handlers, Patch(p)
  PROVE  TypeInv' /\ Shape(p)
<1> DEFINE x == proc[p].item
           sent == Patched(x, proc[p].sent)
           copy == Merge(copies[x], sent)
<1>1. /\ x \in Items /\ proc[p].kind = "update"
      /\ proc[p].sent \in Sent /\ proc[p].sent.ref \in Refs(x) \cup {Keep}
  BY Typed DEF Patch, CoherentAt, Locals
<1>2. CASE copies[x] # None
  <2>1. copies[x] \in Copies /\ copies[x].ref \in Refs(x)
    BY <1>1, <1>2 DEF TypeInv, TypeOK
  <2>2. sent \in Sent /\ sent.ref \in Refs(x) \cup {Keep}
    BY <1>1 DEF Patched, Sent
  <2>3. copy \in Copies /\ copy.ref \in Refs(x)
    BY <1>1, <2>1, <2>2, MergeCopy
  <2>4. Stored(p, x, copy) /\ Judge(p, x, x \in Services) /\ kept' \subseteq Models
    BY <1>1, <1>2 DEF Patch, TypeInv, TypeOK
  <2>5. (x \in Services) \in BOOLEAN
    OBVIOUS
  <2> QED
    BY <1>1, <2>3, <2>4, <2>5, StoredStep DEF Patch
<1>3. CASE copies[x] = None /\ Return(p)
  BY <1>3, QuietStep DEF Patch, Quiet
<1>4. CASE copies[x] = None /\ x \in Models /\ Go(p, "reread")
  <2>1. "reread" \in Points
    BY DEF Points
  <2>2. CoherentAt(proc'[p])
    BY <1>1, <1>4, <2>1, Typed, GoEffect DEF TypeInv, Onward, CoherentAt, Patch
  <2> QED
    BY <1>4, <2>1, <2>2, QuietStep DEF Patch, Quiet
<1> QED
  BY <1>2, <1>3, <1>4 DEF Patch

\* What the update of a model writes: what is sent, but for a name that it has read.
LEMMA WrittenFacts ==
  ASSUME NEW x \in Items, NEW now \in Rows, now.ref \in Refs(x), NEW read \in Rows,
         NEW sent \in Sent, sent.ref \in Refs(x) \cup {Keep}
  PROVE  /\ Written(now, read, sent) \in Rows /\ Written(now, read, sent).ref \in Refs(x)
         /\ Written(now, read, sent).id = now.id /\ Written(now, read, sent).pub = now.pub
         /\ sent.name # Keep /\ sent.name # read.name
              => Written(now, read, sent).name = sent.name
         /\ sent.name = Keep \/ sent.name = read.name
              => Written(now, read, sent).name = now.name
         /\ sent.ref # Keep => Written(now, read, sent).ref = sent.ref
         /\ sent.ref = Keep => Written(now, read, sent).ref = now.ref
<1> DEFINE s == [sent EXCEPT !.name = IF @ = read.name THEN Keep ELSE @]
<1>1. s \in Sent /\ s.ref = sent.ref
      /\ s.name = IF sent.name = read.name THEN Keep ELSE sent.name
  BY DEF Sent
<1>2. Written(now, read, sent) = Merge(now, s)
  BY DEF Written
<1> HIDE DEF s
<1> QED
  BY <1>1, <1>2, MergeRow

LEMMA WrittenFields ==
  ASSUME NEW now \in Rows, NEW read, NEW sent \in Sent
  PROVE  /\ Written(now, read, sent) \in Rows /\ Written(now, read, sent).id = now.id
         /\ sent.name = Keep => Written(now, read, sent).name = now.name
         /\ sent.name = read.name => Written(now, read, sent).name = now.name
         /\ sent.name # read.name /\ sent.name # Keep
              => Written(now, read, sent).name = sent.name
         /\ sent.ref = Keep => Written(now, read, sent).ref = now.ref
         /\ sent.ref # Keep => Written(now, read, sent).ref = sent.ref
<1> DEFINE s == [sent EXCEPT !.name = IF @ = read.name THEN Keep ELSE @]
<1>1. /\ s \in Sent /\ s.ref = sent.ref
      /\ s.name = IF sent.name = read.name THEN Keep ELSE sent.name
  BY DEF Sent
<1>2. Written(now, read, sent) = Merge(now, s)
  BY DEF Written
<1> HIDE DEF s
<1>3. /\ Merge(now, s).id = now.id
      /\ s.name = Keep => Merge(now, s).name = now.name
      /\ s.name # Keep => Merge(now, s).name = s.name
      /\ s.ref = Keep => Merge(now, s).ref = now.ref
      /\ s.ref # Keep => Merge(now, s).ref = s.ref
  BY DEF Merge, Rows
<1>4. Merge(now, s) \in Rows
  BY <1>1 DEF Merge, Rows, Sent
<1> QED
  BY <1>1, <1>2, <1>3, <1>4

\* A row that is changed, of the right type, with those who know it overtaken.
LEMMA WriteStep ==
  ASSUME TypeInv, NEW p \in Handlers, NEW x \in Items, NEW row \in Rows, row.ref \in Refs(x),
         rows' = [rows EXCEPT ![x] = row], due' \in [Items -> Dues],
         NEW q \in Locals, CoherentAt(q), Overtake({x}, p, q),
         UNCHANGED <<copies, made, suspect, kept, requests, faults>>
  PROVE  TypeInv' /\ Shape(p)
<1>1. proc' \in [Handlers -> Locals] /\ Others(p) /\ proc'[p] = q /\ Overtaken(p, x)
  BY OvertakeEffect DEF TypeInv
<1>2. Coherent'
  BY <1>1, OthersCoherent
<1>3. rows' \in [Items -> Rows \cup {None}] /\ \A y \in Items : rows'[y] # None => rows'[y].ref \in Refs(y)
  BY DEF TypeInv, TypeOK
<1>4. TypeOK'
  BY <1>1, <1>3 DEF TypeInv, TypeOK
<1>5. Shape(p)
  BY <1>1 DEF Shape, SameRow, TypeInv, TypeOK
<1> QED
  BY <1>2, <1>4, <1>5 DEF TypeInv

\* The record of an update that has written its row.
ToPatch(q, id) == [q EXCEPT !.pc = "patch", !.wrote = id]

LEMMA PatchNext ==
  ASSUME TypeInv, NEW p \in Handlers, proc[p].pc = "write", NEW id \in Nat
  PROVE  /\ ToPatch(proc[p], id) \in Locals /\ CoherentAt(ToPatch(proc[p], id))
         /\ ToPatch(proc[p], id).pc = "patch" /\ ToPatch(proc[p], id).wrote = id
         /\ ToPatch(proc[p], id).item = proc[p].item
         /\ ToPatch(proc[p], id).sent = proc[p].sent
         /\ ToPatch(proc[p], id).raced = proc[p].raced
<1> DEFINE q == ToPatch(proc[p], id)
<1>1. proc[p] \in Locals /\ CoherentAt(proc[p])
  BY Typed
<1>2. /\ q \in Locals
      /\ q.pc = "patch" /\ q.wrote = id /\ q.item = proc[p].item /\ q.kind = proc[p].kind
      /\ q.sent = proc[p].sent /\ q.read = proc[p].read /\ q.raced = proc[p].raced
  BY <1>1 DEF ToPatch, Locals, Points
<1> HIDE DEF q
<1>3. CoherentAt(q)
  BY <1>1, <1>2 DEF CoherentAt
<1> QED
  BY <1>2, <1>3 DEF q

LEMMA WriteModelStep ==
  ASSUME TypeInv, NEW p \in Handlers, WriteModel(p)
  PROVE  TypeInv' /\ Shape(p)
<1> DEFINE x == proc[p].item
           q == proc[p]
           row == Written(rows[x], q.read, q.sent)
           d == Asked(due[x], q.read, q.sent)
           next == ToPatch(q, q.read.id)
<1>0. /\ x \in Items /\ x \in Models /\ q.read \in Rows
      /\ q.sent \in Sent /\ q.sent.ref \in Refs(x) \cup {Keep}
  BY Typed DEF WriteModel, CoherentAt, Locals
<1>1. CASE Return(p) /\ UNCHANGED <<rows, due>>
  BY <1>1, QuietStep DEF WriteModel, Quiet
<1>2. CASE /\ rows[x] # None /\ rows' = [rows EXCEPT ![x] = row]
           /\ due' = [due EXCEPT ![x] = d] /\ Overtake({x}, p, next)
  <2>1. rows[x] \in Rows /\ rows[x].ref \in Refs(x)
    BY <1>0, <1>2, RowTyped
  <2>2. row \in Rows /\ row.ref \in Refs(x)
    BY <1>0, <2>1, WrittenFacts
  <2>4. d \in Dues
    BY <1>0, AskedFacts DEF TypeInv, TypeOK
  <2>5. due' \in [Items -> Dues]
    BY <1>0, <1>2, <2>4 DEF TypeInv, TypeOK
  <2>6. q.read.id \in Nat
    BY <1>0 DEF Rows
  <2>7. next \in Locals /\ CoherentAt(next)
    BY <2>6, PatchNext DEF WriteModel
  <2> HIDE DEF row, next, d
  <2> QED
    BY <1>0, <1>2, <2>2, <2>5, <2>7, WriteStep DEF WriteModel
<1>3. (Return(p) /\ UNCHANGED <<rows, due>>)
      \/ (/\ rows[x] # None /\ rows' = [rows EXCEPT ![x] = row]
          /\ due' = [due EXCEPT ![x] = d] /\ Overtake({x}, p, next))
  BY DEF WriteModel, ToPatch
<1> QED
  BY <1>1, <1>2, <1>3

LEMMA WriteServiceStep ==
  ASSUME TypeInv, NEW p \in Handlers, WriteService(p)
  PROVE  TypeInv' /\ Shape(p)
<1> DEFINE x == proc[p].item
           q == proc[p]
           row == Merge(rows[x], q.sent)
           d == Merge(due[x], q.sent)
           next == ToPatch(q, rows[x].id)
<1>0. /\ x \in Items /\ x \in Services /\ q.kind = "update" /\ q.wrote = 0
      /\ q.sent \in Sent /\ q.sent.ref \in Refs(x) \cup {Keep}
  BY Typed DEF WriteService, CoherentAt, Locals
<1>1. CASE Return(p) /\ UNCHANGED <<rows, due>>
  BY <1>1, QuietStep DEF WriteService, Quiet
<1>2. CASE Go(p, "patch") /\ UNCHANGED <<rows, due>>
  <2>1. "patch" \in Points
    BY DEF Points
  <2>2. CoherentAt(proc'[p])
    BY <1>0, <1>2, <2>1, Typed, GoEffect DEF TypeInv, Onward, CoherentAt, WriteService
  <2> QED
    BY <1>2, <2>1, <2>2, QuietStep DEF WriteService, Quiet
<1>3. CASE /\ rows[x] # None /\ rows' = [rows EXCEPT ![x] = row]
           /\ due' = [due EXCEPT ![x] = d] /\ Overtake({x}, p, next)
  <2>1. rows[x] \in Rows /\ rows[x].ref \in Refs(x) /\ rows[x].id \in Nat
    BY <1>0, <1>3, RowTyped
  <2>2. row \in Rows /\ row.ref \in Refs(x)
    BY <1>0, <2>1, MergeRow
  <2>3. d \in Dues
    BY <1>0, MergeDue DEF TypeInv, TypeOK
  <2>5. due' \in [Items -> Dues]
    BY <1>0, <1>3, <2>3 DEF TypeInv, TypeOK
  <2>7. next \in Locals /\ CoherentAt(next)
    BY <2>1, PatchNext DEF WriteService
  <2> HIDE DEF row, next, d
  <2> QED
    BY <1>0, <1>3, <2>2, <2>5, <2>7, WriteStep DEF WriteService
<1>4. \/ Return(p) /\ UNCHANGED <<rows, due>>
      \/ Go(p, "patch") /\ UNCHANGED <<rows, due>>
      \/ /\ rows[x] # None /\ rows' = [rows EXCEPT ![x] = row]
         /\ due' = [due EXCEPT ![x] = d] /\ Overtake({x}, p, next)
  BY DEF WriteService, ToPatch
<1> QED
  BY <1>1, <1>2, <1>3, <1>4

LEMMA DropStep ==
  ASSUME TypeInv, NEW p \in Handlers, Drop(p)
  PROVE  TypeInv' /\ Shape(p)
<1>1. "delete" \in Points
  BY DEF Points
<1>2. proc' \in [Handlers -> Locals] /\ Others(p) /\ Onward(p, "delete")
      /\ proc'[p].read = proc[p].read /\ proc'[p].wrote = proc[p].wrote
  BY <1>1, GoEffect DEF Drop, TypeInv
<1>3. CoherentAt(proc'[p])
  BY <1>2, Typed DEF Onward, CoherentAt, Drop
<1>4. Coherent'
  BY <1>2, <1>3, OthersCoherent
<1>5. /\ \A y \in Items : copies'[y] \in {copies[y], None}
      /\ copies' \in [Items -> Copies \cup {None}]
      /\ \A y \in Items : copies'[y] # None => copies'[y].ref \in Refs(y)
  BY Typed DEF Drop, TypeInv, TypeOK
<1>6. TypeOK'
  BY <1>2, <1>5 DEF Drop, TypeInv, TypeOK
<1>7. Shape(p)
  BY <1>2, <1>5 DEF Shape, SameRow, Drop
<1> QED
  BY <1>4, <1>6, <1>7 DEF TypeInv

LEMMA DeleteStep ==
  ASSUME TypeInv, NEW p \in Handlers, Delete(p)
  PROVE  TypeInv' /\ Shape(p)
<1> DEFINE x == proc[p].item
<1>0. x \in Items
  BY Typed DEF Delete
<1>1. CASE Return(p) /\ UNCHANGED <<rows, suspect>>
  BY <1>1, QuietStep DEF Delete, Quiet
<1>2. CASE /\ rows' = [y \in Items |-> IF y \in WithServices(x) THEN None ELSE rows[y]]
           /\ suspect' = IF proc[p].raced /\ x \in Models THEN suspect \cup {x} ELSE suspect
           /\ Overtake(WithServices(x), p, Idle)
  <2>1. /\ proc' \in [Handlers -> Locals] /\ Others(p) /\ proc'[p] = Idle
        /\ \A y \in WithServices(x) : Overtaken(p, y)
    BY <1>2, IdleTyped, OvertakeEffect DEF TypeInv
  <2>2. Coherent'
    BY <2>1, IdleTyped, OthersCoherent DEF CoherentAt
  <2>3. /\ rows' \in [Items -> Rows \cup {None}]
        /\ \A y \in Items : rows'[y] # None => rows'[y].ref \in Refs(y)
    BY <1>2 DEF TypeInv, TypeOK
  <2>4. suspect' \subseteq Items
    BY <1>0, <1>2 DEF TypeInv, TypeOK
  <2>5. TypeOK'
    BY <2>1, <2>3, <2>4 DEF Delete, TypeInv, TypeOK
  <2>6. Shape(p)
    BY <1>2, <2>1 DEF Shape, SameRow, Delete
  <2> QED
    BY <2>2, <2>5, <2>6 DEF TypeInv
<1> QED
  BY <1>1, <1>2 DEF Delete

LEMMA PublishStep ==
  ASSUME TypeInv, NEW p \in Handlers, Publish(p)
  PROVE  TypeInv' /\ Shape(p)
<1> DEFINE x == proc[p].item
<1>0. x \in Items /\ x \in Models
  BY Typed DEF Publish, CoherentAt
<1>1. proc' \in [Handlers -> Locals] /\ Others(p) /\ proc'[p] = Idle
  BY ReturnEffect DEF Publish, TypeInv
<1>2. Coherent'
  BY <1>1, IdleTyped, OthersCoherent DEF CoherentAt
<1>3. CASE UNCHANGED <<rows, due>>
  BY <1>3, QuietStep DEF Publish, Quiet
<1>4. CASE /\ rows[x] # None
           /\ rows' = [rows EXCEPT ![x].pub = (proc[p].kind = "publish")]
           /\ due' = [due EXCEPT ![x].pub = (proc[p].kind = "publish")]
  <2>1. rows[x] \in Rows /\ rows[x].ref \in Refs(x)
    BY <1>0, <1>4, RowTyped
  <2>2. /\ rows'[x] \in Rows /\ rows'[x].id = rows[x].id
        /\ rows'[x].name = rows[x].name /\ rows'[x].ref = rows[x].ref
    BY <1>0, <1>4, <2>1 DEF Rows, TypeInv, TypeOK
  <2>3. /\ rows' \in [Items -> Rows \cup {None}]
        /\ \A y \in Items \ {x} : rows'[y] = rows[y]
    BY <1>0, <1>4, <2>2 DEF TypeInv, TypeOK
  <2>a. due[x] \in Dues /\ due \in [Items -> Dues]
    BY <1>0 DEF TypeInv, TypeOK
  <2>b. [due[x] EXCEPT !.pub = (proc[p].kind = "publish")] \in Dues
    BY <2>a DEF Dues
  <2>4. due' \in [Items -> Dues]
    BY <1>0, <1>4, <2>a, <2>b
  <2>5. \A y \in Items : rows'[y] # None => rows'[y].ref \in Refs(y)
    BY <2>1, <2>2, <2>3 DEF TypeInv, TypeOK
  <2>6. TypeOK'
    BY <1>1, <2>3, <2>4, <2>5 DEF Publish, TypeInv, TypeOK
  <2>7. \A y \in Items : SameRow(y)
    BY <1>4, <2>1, <2>2, <2>3, NoneAssumption DEF SameRow
  <2>8. Shape(p)
    BY <1>1, <2>7 DEF Shape, Publish
  <2> QED
    BY <1>2, <2>6, <2>8 DEF TypeInv
<1> QED
  BY <1>3, <1>4 DEF Publish

LEMMA TypesStep ==
  ASSUME TypeInv, NEW p \in Handlers,
         \/ \E kind \in Kinds, x \in Items : \E sent \in Sends(kind, x) : Start(p, kind, x, sent)
         \/ Step(p)
  PROVE  TypeInv' /\ Shape(p)
BY StartStep, ExistsStep, CheckStep, InsertStep, RefreshStep, SaveStep, SelectStep,
   WriteModelStep, WriteServiceStep, PatchStep, RereadStep, FillStep, FindStep, DropStep,
   DeleteStep, PublishStep, FailStep, CopyFailsStep DEF Step

-----------------------------------------------------------------------------
\* Requests that nobody has overtaken.

\* The others either learn of what a step changes or do not depend on it.
LEMMA OthersInStep ==
  ASSUME TypeInv, InStep, NEW p \in Handlers, Shape(p), NEW r \in Handlers \ {p}
  PROVE  InStepAt(r)'
<1> DEFINE x == proc[r].item
<1>0. /\ proc'[r].pc = proc[r].pc /\ proc'[r].item = x /\ proc'[r].sent = proc[r].sent
      /\ proc'[r].read = proc[r].read /\ proc'[r].wrote = proc[r].wrote
      /\ proc[r].raced => proc'[r].raced
  BY DEF Shape, Others
<1>1. proc[r].pc # "idle" => x \in Items
  BY Typed
<1>2. x \in Items => SameRow(x) \/ Overtaken(p, x)
  BY DEF Shape
<1>3. InStepAt(r)
  BY DEF InStep
<1>4. Wrote(proc[r])'
  BY <1>0, <1>1, <1>2, <1>3 DEF InStepAt, Wrote, SameRow, Overtaken, Behind
<1>5. WroteNone(proc[r])'
  BY <1>0, <1>1, <1>2, <1>3 DEF InStepAt, WroteNone, SameRow, Overtaken, Behind
<1>6. HasRead(proc[r])'
  BY <1>0, <1>1, <1>2, <1>3 DEF InStepAt, HasRead, SameRow, Overtaken, Behind
<1>7. Dropped(proc[r])'
  BY <1>0, <1>1, <1>3 DEF InStepAt, Dropped, Shape, Uncovered
<1> QED
  BY <1>4, <1>5, <1>6, <1>7 DEF InStepAt

\* A handler outside the points the invariant is about.
LEMMA ElsewhereInStep ==
  ASSUME NEW p \in Handlers,
         \/ proc'[p].pc \notin Behind \cup {"write", "delete"}
         \/ proc'[p].pc = "write" /\ proc'[p].item \notin Models
         \/ proc'[p].pc = "delete" /\ (proc'[p].item \notin Models \/ proc'[p].raced)
  PROVE  InStepAt(p)'
BY DEF InStepAt, Wrote, WroteNone, HasRead, Dropped, Behind

LEMMA RefreshInStep ==
  ASSUME TypeInv, InStep, NEW p \in Handlers, Refresh(p)
  PROVE  InStepAt(p)'
<1>1. CASE Return(p)
  BY <1>1, ReturnEffect, IdleTyped, ElsewhereInStep DEF TypeInv, Behind
<1>2. CASE Go(p, "save")
  <2>1. "save" \in Points /\ rows' = rows
    BY DEF Points, Refresh, Quiet
  <2>2. Onward(p, "save") /\ proc'[p].wrote = proc[p].wrote
    BY <1>2, <2>1, GoEffect DEF TypeInv
  <2>3. InStepAt(p) /\ proc[p].pc = "refresh" /\ proc[p].wrote # 0
    BY Typed DEF InStep, Refresh, CoherentAt
  <2> QED
    BY <2>1, <2>2, <2>3 DEF InStepAt, Onward, Wrote, WroteNone, HasRead, Dropped, Behind
<1> QED
  BY <1>1, <1>2 DEF Refresh

LEMMA SelectInStep ==
  ASSUME TypeInv, InStep, NEW p \in Handlers, Select(p)
  PROVE  InStepAt(p)'
<1> DEFINE x == proc[p].item
           pc == IF x \in Models THEN "write" ELSE "check"
<1>0. rows' = rows /\ proc[p].wrote = 0 /\ x \in Items
  BY Typed DEF Select, Quiet, CoherentAt
<1>1. CASE Return(p)
  BY <1>1, ReturnEffect, IdleTyped, ElsewhereInStep DEF TypeInv, Behind
<1>2. CASE rows[x] = None /\ Go(p, "patch")
  <2>1. "patch" \in Points
    BY DEF Points
  <2>2. Onward(p, "patch") /\ proc'[p].wrote = proc[p].wrote
    BY <1>2, <2>1, GoEffect DEF TypeInv
  <2> QED
    BY <1>0, <1>2, <2>2 DEF InStepAt, Onward, Wrote, WroteNone, HasRead, Dropped, Behind
<1>3. CASE /\ rows[x] # None
           /\ proc' = [proc EXCEPT ![p] = [@ EXCEPT !.pc = pc, !.read = rows[x]]]
  <2>1. pc \in Points
    BY DEF Points
  <2>2. rows[x] \in Rows
    BY <1>0, <1>3, RowTyped
  <2>3. Onward(p, pc) /\ proc'[p].read = rows[x]
    BY <1>3, <2>1, <2>2, ReadEffect DEF TypeInv
  <2> QED
    BY <1>0, <1>3, <2>3 DEF InStepAt, Onward, Wrote, WroteNone, HasRead, Dropped, Behind
<1> QED
  BY <1>1, <1>2, <1>3 DEF Select

LEMMA InsertInStep ==
  ASSUME TypeInv, InStep, NEW p \in Handlers, Insert(p)
  PROVE  InStepAt(p)'
<1> DEFINE x == proc[p].item
           row == Inserted(p)
           q == [proc[p] EXCEPT !.pc = "refresh", !.wrote = row.id]
<1>0. x \in Items /\ proc[p] \in Locals
  BY Typed DEF Insert
<1>1. CASE Return(p)
  BY <1>1, ReturnEffect, IdleTyped, ElsewhereInStep DEF TypeInv, Behind
<1>2. CASE Insertion(p, x, row)
  <2>1. /\ row.id = made + 1 /\ row.name = proc[p].sent.name /\ row.ref = proc[p].sent.ref
        /\ row # None /\ row.id # 0 /\ row.id \in Nat
    <3>1. /\ proc[p].sent.name \in Names /\ proc[p].sent.ref \in Refs(x)
      BY Typed DEF Insert, CoherentAt
    <3>2. made \in Nat
      BY DEF TypeInv, TypeOK
    <3>3. row \in Rows
      BY <1>0, <3>1, <3>2, RefsFacts DEF Inserted, Rows
    <3>4. row.id = made + 1 /\ row.name = proc[p].sent.name /\ row.ref = proc[p].sent.ref
      BY DEF Inserted
    <3> QED
      BY <3>2, <3>3, <3>4, NoneAssumption
  <2>2. q \in Locals /\ q.pc = "refresh" /\ q.item = x /\ q.sent = proc[p].sent /\ q.wrote = row.id
    BY <1>0, <2>1 DEF Locals, Points
  <2>3. rows' = [rows EXCEPT ![x] = row] /\ Overtake({x}, p, q)
    BY <1>2 DEF Insertion
  <2> HIDE DEF q, row
  <2>4. proc'[p] = q /\ rows'[x] = row
    BY <1>0, <2>2, <2>3, OvertakeEffect DEF TypeInv, TypeOK
  <2> QED
    BY <2>1, <2>2, <2>4 DEF InStepAt, Wrote, WroteNone, HasRead, Dropped, Behind
<1> QED
  BY <1>1, <1>2 DEF Insert

LEMMA WriteModelInStep ==
  ASSUME TypeInv, InStep, NEW p \in Handlers, WriteModel(p)
  PROVE  InStepAt(p)'
<1> DEFINE x == proc[p].item
           q == proc[p]
           row == Written(rows[x], q.read, q.sent)
           next == ToPatch(q, q.read.id)
<1>0. /\ x \in Items /\ x \in Models /\ q.read \in Rows
      /\ q.sent \in Sent /\ q.sent.ref \in Refs(x) \cup {Keep}
  BY Typed DEF WriteModel, CoherentAt, Locals
<1>1. CASE Return(p)
  BY <1>1, ReturnEffect, IdleTyped, ElsewhereInStep DEF TypeInv, Behind
<1>2. CASE /\ rows[x] # None /\ rows[x].id = q.read.id /\ rows' = [rows EXCEPT ![x] = row]
           /\ Overtake({x}, p, next)
  <2>1. rows[x] \in Rows /\ rows[x].ref \in Refs(x) /\ q.read.id \in Nat /\ q.read.id # 0
    BY <1>0, <1>2, RowTyped DEF Rows
  <2>2. /\ row # None /\ row.id = q.read.id
        /\ q.sent.ref # Keep => row.ref = q.sent.ref
        /\ ~ q.raced /\ q.sent.name # Keep => row.name = q.sent.name
    <3>1. InStepAt(p)
      BY DEF InStep
    <3>2. ~ q.raced => rows[x].name = q.read.name
      BY <1>0, <3>1 DEF InStepAt, HasRead, WriteModel
    <3>3. row \in Rows /\ row.id = rows[x].id
      BY <1>0, <2>1, WrittenFields
    <3>4. q.sent.ref # Keep => row.ref = q.sent.ref
      BY <1>0, <2>1, WrittenFields
    <3>5. ~ q.raced /\ q.sent.name # Keep => row.name = q.sent.name
      BY <1>0, <2>1, <3>2, WrittenFields
    <3> QED
      BY <1>2, <3>3, <3>4, <3>5, NoneAssumption
  <2>w. proc[p].pc = "write"
    BY DEF WriteModel
  <2> HIDE DEF row, next
  <2>3. next \in Locals /\ next.pc = "patch" /\ next.item = x /\ next.sent = q.sent
        /\ next.wrote = q.read.id /\ next.raced = q.raced
    BY <2>1, <2>w, PatchNext DEF next
  <2>4. proc'[p] = next /\ rows'[x] = row
    BY <1>0, <1>2, <2>3, OvertakeEffect DEF TypeInv, TypeOK
  <2> QED
    BY <2>1, <2>2, <2>3, <2>4 DEF InStepAt, Wrote, WroteNone, HasRead, Dropped, Behind
<1> QED
  BY <1>1, <1>2 DEF WriteModel, ToPatch

LEMMA WriteServiceInStep ==
  ASSUME TypeInv, InStep, NEW p \in Handlers, WriteService(p)
  PROVE  InStepAt(p)'
<1> DEFINE x == proc[p].item
           q == proc[p]
           row == Merge(rows[x], q.sent)
           next == ToPatch(q, rows[x].id)
<1>0. /\ x \in Items /\ x \notin Models /\ q.wrote = 0 /\ q.pc = "write"
      /\ q.sent \in Sent /\ q.sent.ref \in Refs(x) \cup {Keep}
  BY Typed, ItemsAssumption DEF WriteService, CoherentAt, Locals
<1>1. CASE Return(p)
  BY <1>1, ReturnEffect, IdleTyped, ElsewhereInStep DEF TypeInv, Behind
<1>2. CASE rows[x] = None /\ Go(p, "patch") /\ UNCHANGED rows
  <2>1. "patch" \in Points
    BY DEF Points
  <2>2. Onward(p, "patch") /\ proc'[p].wrote = 0
    BY <1>0, <1>2, <2>1, GoEffect DEF TypeInv
  <2> QED
    BY <1>0, <1>2, <2>2 DEF InStepAt, Onward, Wrote, WroteNone, HasRead, Dropped, Behind
<1>3. CASE /\ rows[x] # None /\ rows' = [rows EXCEPT ![x] = row]
           /\ Overtake({x}, p, next)
  <2>1. rows[x] \in Rows /\ rows[x].ref \in Refs(x) /\ rows[x].id \in Nat \ {0}
    BY <1>0, <1>3, RowTyped
  <2>2. row \in Rows /\ row.id = rows[x].id
    BY <1>0, <2>1, MergeRow
  <2>3. /\ q.sent.ref # Keep => row.ref = q.sent.ref
        /\ q.sent.name # Keep => row.name = q.sent.name
    BY <1>0, <2>1, MergeRow
  <2>4. next \in Locals /\ next.pc = "patch" /\ next.item = x /\ next.sent = q.sent
        /\ next.wrote = rows[x].id
    BY <1>0, <2>1, PatchNext
  <2> HIDE DEF row, next
  <2>5. proc'[p] = next /\ rows'[x] = row
    BY <1>0, <1>3, <2>4, OvertakeEffect DEF TypeInv, TypeOK
  <2> QED
    BY <2>1, <2>2, <2>3, <2>4, <2>5, NoneAssumption
       DEF InStepAt, Wrote, WroteNone, HasRead, Dropped, Behind
<1> QED
  BY <1>1, <1>2, <1>3 DEF WriteService, ToPatch

LEMMA PatchInStep ==
  ASSUME TypeInv, InStep, NEW p \in Handlers, rows' = rows, proc[p].pc = "patch", Go(p, "reread")
  PROVE  InStepAt(p)'
<1>1. "reread" \in Points
  BY DEF Points
<1>2. Onward(p, "reread") /\ proc'[p].wrote = proc[p].wrote
  BY <1>1, GoEffect DEF TypeInv
<1>3. InStepAt(p)
  BY DEF InStep
<1> QED
  BY <1>2, <1>3 DEF InStepAt, Onward, Wrote, WroteNone, HasRead, Dropped, Behind

LEMMA RereadInStep ==
  ASSUME TypeInv, InStep, NEW p \in Handlers, Reread(p)
  PROVE  InStepAt(p)'
<1> DEFINE x == proc[p].item
<1>0. rows' = rows /\ x \in Items /\ InStepAt(p) /\ proc[p].pc = "reread"
  BY Typed DEF Reread, Quiet, CoherentAt, InStep
<1>1. CASE Return(p)
  BY <1>1, ReturnEffect, IdleTyped, ElsewhereInStep DEF TypeInv, Behind
<1>2. CASE /\ rows[x] # None
           /\ proc' = [proc EXCEPT ![p] = [@ EXCEPT !.pc = "fill", !.read = rows[x]]]
  <2>1. "fill" \in Points
    BY DEF Points
  <2>2. rows[x] \in Rows
    BY <1>0, <1>2, RowTyped
  <2>3. Onward(p, "fill") /\ proc'[p].read = rows[x] /\ proc'[p].wrote = proc[p].wrote
    BY <1>2, <2>1, <2>2, ReadEffect DEF TypeInv
  <2> QED
    BY <1>0, <1>2, <2>3 DEF InStepAt, Onward, Wrote, WroteNone, HasRead, Dropped, Behind
<1> QED
  BY <1>1, <1>2 DEF Reread

LEMMA DropInStep ==
  ASSUME TypeInv, InStep, NEW p \in Handlers, Drop(p)
  PROVE  InStepAt(p)'
<1>1. "delete" \in Points /\ proc[p].item \in Items
  BY Typed DEF Points, Drop
<1>2. Onward(p, "delete")
  BY <1>1, GoEffect DEF Drop, TypeInv
<1>3. proc[p].item \in Models => copies'[proc[p].item] = None
  BY <1>1 DEF Drop, TypeInv, TypeOK
<1> QED
  BY <1>2, <1>3 DEF InStepAt, Onward, Wrote, WroteNone, HasRead, Dropped, Behind

LEMMA CopyFailsInStep ==
  ASSUME TypeInv, InStep, NEW p \in Handlers, CopyFails(p)
  PROVE  InStepAt(p)'
<1>1. CASE proc[p].pc = "patch" /\ Go(p, "reread")
  BY <1>1, PatchInStep DEF CopyFails
<1>2. CASE proc' = [proc EXCEPT ![p] = [@ EXCEPT !.pc = "delete", !.raced = TRUE]]
  <2>1. proc[p] \in Locals
    BY Typed
  <2>2. proc'[p].pc = "delete" /\ proc'[p].raced
    BY <1>2, <2>1 DEF TypeInv, TypeOK, Locals
  <2> QED
    BY <2>2, ElsewhereInStep
<1> QED
  BY <1>1, <1>2 DEF CopyFails

LEMMA StartInStep ==
  ASSUME TypeInv, NEW p \in Handlers, NEW kind \in Kinds, NEW x \in Items,
         NEW sent \in Sends(kind, x), Start(p, kind, x, sent)
  PROVE  InStepAt(p)'
<1> DEFINE q == Request(First(kind), kind, x, sent)
<1>1. q.pc \in {"exists", "select", "find"}
  BY DEF Request, First, Kinds
<1>2. proc' = [proc EXCEPT ![p] = q]
  BY DEF Start
<1> HIDE DEF q
<1>3. proc'[p] = q
  BY <1>2 DEF TypeInv, TypeOK
<1> QED
  BY <1>1, <1>3, ElsewhereInStep DEF Behind

LEMMA PointInStep ==
  ASSUME TypeInv, NEW p \in Handlers, NEW pc \in Points,
         pc \notin Behind \cup {"write", "delete"},
         \/ Go(p, pc)
         \/ \E row \in Rows : proc' = [proc EXCEPT ![p] = [@ EXCEPT !.pc = pc, !.read = row]]
  PROVE  InStepAt(p)'
<1>1. proc'[p].pc = pc
  BY GoEffect, ReadEffect DEF TypeInv, Onward
<1> QED
  BY <1>1, ElsewhereInStep

LEMMA OwnInStep ==
  ASSUME TypeInv, InStep, NEW p \in Handlers,
         \/ \E kind \in Kinds, x \in Items : \E sent \in Sends(kind, x) : Start(p, kind, x, sent)
         \/ Step(p)
  PROVE  InStepAt(p)'
<1>0. Idle.pc \notin Behind \cup {"write", "delete"}
  BY IdleTyped DEF Behind
<1>a. Return(p) => InStepAt(p)'
  BY <1>0, ReturnEffect, ElsewhereInStep DEF TypeInv
<1>b. ASSUME NEW x \in Items, NEW copy, Stored(p, x, copy) PROVE InStepAt(p)'
  BY <1>0, <1>b, StoredEffect, ElsewhereInStep DEF TypeInv
<1>c. proc[p].pc # "idle" => proc[p].item \in Items
  BY Typed
<1>1. ASSUME NEW kind \in Kinds, NEW x \in Items, NEW sent \in Sends(kind, x),
             Start(p, kind, x, sent)
      PROVE  InStepAt(p)'
  BY <1>1, StartInStep
<1>2. CASE Exists(p)
  <2>1. {"insert", "check"} \subseteq Points \ (Behind \cup {"write", "delete"})
    BY DEF Points, Behind
  <2> QED
    BY <1>2, <1>a, <2>1, PointInStep DEF Exists
<1>3. CASE Check(p)
  <2>1. "insert" \in Points \ (Behind \cup {"write", "delete"}) /\ "write" \in Points
    BY DEF Points, Behind
  <2>2. CASE Go(p, "write")
    <3>1. proc'[p].pc = "write" /\ proc'[p].item = proc[p].item
      BY <2>1, <2>2, GoEffect DEF TypeInv, Onward
    <3>2. proc[p].item \notin Models
      BY <1>3, Typed, ItemsAssumption DEF Check, CoherentAt
    <3> QED
      BY <3>1, <3>2, ElsewhereInStep
  <2> QED
    BY <1>3, <1>a, <2>1, <2>2, PointInStep DEF Check
<1>4. CASE Save(p)
  BY <1>4, <1>b, <1>c DEF Save
<1>5. CASE Fill(p)
  BY <1>5, <1>b, <1>c DEF Fill
<1>6. CASE Patch(p)
  <2>1. rows' = rows /\ proc[p].pc = "patch"
    BY <1>6 DEF Patch
  <2>2. Return(p) \/ Go(p, "reread") \/ \E copy : Stored(p, proc[p].item, copy)
    BY <1>6 DEF Patch
  <2> QED
    BY <1>a, <1>b, <1>c, <2>1, <2>2, PatchInStep
<1>7. CASE Find(p)
  <2>1. {"drop", "publish"} \subseteq Points \ (Behind \cup {"write", "delete"})
    BY DEF Points, Behind
  <2>2. rows[proc[p].item] # None => rows[proc[p].item] \in Rows
    BY <1>7, <1>c, RowTyped DEF Find
  <2> QED
    BY <1>7, <1>a, <2>1, <2>2, PointInStep DEF Find
<1>8. CASE Delete(p)
  <2>1. Overtake(WithServices(proc[p].item), p, Idle) => proc'[p] = Idle
    BY IdleTyped, OvertakeEffect DEF TypeInv
  <2> QED
    BY <1>8, <1>0, <1>a, <2>1, ElsewhereInStep DEF Delete
<1>9. CASE Publish(p)
  BY <1>9, <1>a DEF Publish
<1>10. CASE Fail(p)
  BY <1>10, <1>a DEF Fail
<1> QED
  BY <1>1, <1>2, <1>3, <1>4, <1>5, <1>6, <1>7, <1>8, <1>9, <1>10, InsertInStep, RefreshInStep,
     SelectInStep, WriteModelInStep, WriteServiceInStep, RereadInStep, DropInStep,
     CopyFailsInStep DEF Step

LEMMA InStepStep ==
  ASSUME TypeInv, InStep, NEW p \in Handlers,
         \/ \E kind \in Kinds, x \in Items : \E sent \in Sends(kind, x) : Start(p, kind, x, sent)
         \/ Step(p)
  PROVE  InStep'
<1>1. Shape(p)
  BY TypesStep
<1>2. InStepAt(p)'
  BY OwnInStep
<1>3. \A r \in Handlers \ {p} : InStepAt(r)'
  BY <1>1, OthersInStep
<1> QED
  BY <1>2, <1>3 DEF InStep

-----------------------------------------------------------------------------
\* What the tables hold.

LEMMA PutServices ==
  ASSUME TypeInv, ServicesHaveModels, NEW x \in Items, NEW row \in Rows, row.ref \in Refs(x),
         rows' = [rows EXCEPT ![x] = row], x \in Services => rows[row.ref] # None
  PROVE  ServicesHaveModels'
<1> SUFFICES ASSUME NEW s \in Services, rows'[s] # None PROVE rows'[rows'[s].ref] # None
  BY DEF ServicesHaveModels
<1>1. row # None /\ s \in Items /\ rows \in [Items -> Rows \cup {None}]
  BY NoneAssumption DEF Items, TypeInv, TypeOK
<1>2. CASE s = x
  <2>1. rows'[s] = row /\ row.ref \in Models
    BY <1>1, <1>2, RefsFacts
  <2>2. row.ref \in Items /\ row.ref # x /\ rows[row.ref] # None
    BY <1>2, <2>1, ItemsAssumption DEF Items
  <2> QED
    BY <1>1, <2>1, <2>2
<1>3. CASE s # x
  <2>1. rows'[s] = rows[s] /\ rows[s].ref \in Refs(s)
    BY <1>1, <1>3, RowTyped
  <2>2. rows[s].ref \in Items /\ rows[rows[s].ref] # None
    BY <1>1, <2>1, RefsFacts DEF ServicesHaveModels, Items
  <2> QED
    BY <1>1, <2>1, <2>2
<1> QED
  BY <1>2, <1>3

\* A model as the last requests have asked for it.
Asks(row, d) == /\ row.pub = d.pub /\ row.ref = d.ref
                /\ row.name = d.name \/ d.same

LEMMA TablesInsert ==
  ASSUME TypeInv, ServicesHaveModels, NoUpdateLost, NEW p \in Handlers, Insert(p)
  PROVE  ServicesHaveModels' /\ NoUpdateLost'
<1> DEFINE x == proc[p].item
           row == Inserted(p)
           d == [name |-> row.name, ref |-> row.ref, pub |-> FALSE, same |-> FALSE]
<1>1. CASE UNCHANGED <<rows, due>>
  BY <1>1 DEF ServicesHaveModels, NoUpdateLost
<1>2. CASE /\ HasModel(x, proc[p].sent.ref)
           /\ rows' = [rows EXCEPT ![x] = row] /\ due' = [due EXCEPT ![x] = d]
  <2>0. x \in Items /\ proc[p].sent.name \in Names /\ proc[p].sent.ref \in Refs(x) /\ made \in Nat
    BY Typed DEF Insert, CoherentAt, TypeInv, TypeOK
  <2>1. row \in Rows /\ row.ref = proc[p].sent.ref /\ row.pub = FALSE
    BY <2>0, RefsFacts DEF Inserted, Rows
  <2>2. Asks(row, d)
    BY <2>1 DEF Asks
  <2> HIDE DEF row, d
  <2>3. ServicesHaveModels'
    BY <1>2, <2>0, <2>1, PutServices DEF HasModel
  <2>4. NoUpdateLost'
    BY <1>2, <2>0, <2>2 DEF NoUpdateLost, Asks, TypeInv, TypeOK, Items
  <2> QED
    BY <2>3, <2>4
<1> QED
  BY <1>1, <1>2 DEF Insert, Insertion

LEMMA AsksWritten ==
  ASSUME NEW x \in Items, NEW now \in Rows, now.ref \in Refs(x), NEW read \in Rows,
         NEW sent \in Sent, sent.ref \in Refs(x) \cup {Keep},
         NEW d \in Dues, Asks(now, d)
  PROVE  Asks(Written(now, read, sent), Asked(d, read, sent))
<1> DEFINE row == Written(now, read, sent)
           asked == Asked(d, read, sent)
<1>1. /\ row.pub = now.pub
      /\ sent.ref # Keep => row.ref = sent.ref
      /\ sent.ref = Keep => row.ref = now.ref
      /\ sent.name # Keep /\ sent.name # read.name => row.name = sent.name
      /\ sent.name = Keep \/ sent.name = read.name => row.name = now.name
  BY WrittenFacts
<1>2. /\ asked.pub = d.pub
      /\ asked.same = IF sent.name = Keep THEN d.same ELSE sent.name = read.name
      /\ sent.name # Keep => asked.name = sent.name
      /\ sent.name = Keep => asked.name = d.name
      /\ sent.ref # Keep => asked.ref = sent.ref
      /\ sent.ref = Keep => asked.ref = d.ref
  BY AskedFacts
<1> HIDE DEF row, asked
<1>3. Asks(row, asked)
  BY <1>1, <1>2 DEF Asks
<1> QED
  BY <1>3 DEF row, asked

LEMMA TablesWriteModel ==
  ASSUME TypeInv, ServicesHaveModels, NoUpdateLost, NEW p \in Handlers, WriteModel(p)
  PROVE  ServicesHaveModels' /\ NoUpdateLost'
<1> DEFINE x == proc[p].item
           q == proc[p]
           row == Written(rows[x], q.read, q.sent)
           d == Asked(due[x], q.read, q.sent)
<1>1. CASE UNCHANGED <<rows, due>>
  BY <1>1 DEF ServicesHaveModels, NoUpdateLost
<1>2. CASE /\ rows[x] # None /\ rows' = [rows EXCEPT ![x] = row]
           /\ due' = [due EXCEPT ![x] = d]
  <2>0. /\ x \in Items /\ x \in Models /\ q.read \in Rows
        /\ q.sent \in Sent /\ q.sent.ref \in Refs(x) \cup {Keep}
    BY Typed DEF WriteModel, CoherentAt, Locals
  <2>1. rows[x] \in Rows /\ rows[x].ref \in Refs(x) /\ due[x] \in Dues /\ Asks(rows[x], due[x])
    BY <1>2, <2>0, RowTyped DEF TypeInv, TypeOK, NoUpdateLost, Asks
  <2>2. row \in Rows /\ row.ref \in Refs(x)
    BY <2>0, <2>1, WrittenFacts
  <2>4. Asks(row, d)
    BY <2>0, <2>1, AsksWritten
  <2> HIDE DEF row, d
  <2>5. ServicesHaveModels'
    BY <1>2, <2>0, <2>2, PutServices, ItemsAssumption
  <2>6. NoUpdateLost'
    BY <1>2, <2>0, <2>4 DEF NoUpdateLost, Asks, TypeInv, TypeOK, Items
  <2> QED
    BY <2>5, <2>6
<1> QED
  BY <1>1, <1>2 DEF WriteModel

LEMMA TablesWriteService ==
  ASSUME TypeInv, ServicesHaveModels, NoUpdateLost, NEW p \in Handlers, WriteService(p)
  PROVE  ServicesHaveModels' /\ NoUpdateLost'
<1> DEFINE x == proc[p].item
           q == proc[p]
           row == Merge(rows[x], q.sent)
           d == Merge(due[x], q.sent)
<1>1. CASE UNCHANGED <<rows, due>>
  BY <1>1 DEF ServicesHaveModels, NoUpdateLost
<1>2. CASE /\ rows[x] # None /\ HasModel(x, q.sent.ref)
           /\ rows' = [rows EXCEPT ![x] = row] /\ due' = [due EXCEPT ![x] = d]
  <2>0. /\ x \in Items /\ x \in Services /\ x \notin Models
        /\ q.sent \in Sent /\ q.sent.ref \in Refs(x)
    BY Typed, ItemsAssumption DEF WriteService, CoherentAt, Locals
  <2>1. rows[x] \in Rows /\ rows[x].ref \in Refs(x)
    BY <1>2, <2>0, RowTyped
  <2>2. row \in Rows /\ row.ref = q.sent.ref
    BY <2>0, <2>1, RefsFacts, MergeRow
  <2> HIDE DEF row, d
  <2>3. ServicesHaveModels'
    BY <1>2, <2>0, <2>2, PutServices DEF HasModel
  <2>4. \A y \in Models : rows'[y] = rows[y] /\ due'[y] = due[y]
    BY <1>2, <2>0 DEF TypeInv, TypeOK, Items
  <2> QED
    BY <2>3, <2>4 DEF NoUpdateLost
<1> QED
  BY <1>1, <1>2 DEF WriteService

LEMMA TablesDelete ==
  ASSUME TypeInv, ServicesHaveModels, NoUpdateLost, NEW p \in Handlers, Delete(p)
  PROVE  ServicesHaveModels' /\ NoUpdateLost'
<1> DEFINE x == proc[p].item
<1>0. x \in Items /\ due' = due
  BY Typed DEF Delete
<1>1. CASE UNCHANGED rows
  BY <1>0, <1>1 DEF ServicesHaveModels, NoUpdateLost
<1>2. CASE rows' = [y \in Items |-> IF y \in WithServices(x) THEN None ELSE rows[y]]
  <2>1. NoUpdateLost'
    BY <1>0, <1>2 DEF NoUpdateLost, Items
  <2>2. ASSUME NEW s \in Services, rows'[s] # None PROVE rows'[rows'[s].ref] # None
    <3>1. s \in Items /\ rows'[s] = rows[s] /\ s \notin WithServices(x) /\ rows[s] # None
      BY <1>2, <2>2 DEF Items
    <3>2. rows[s].ref \in Models /\ rows[s].ref # x
      BY <2>2, <3>1, RowTyped, RefsFacts DEF WithServices
    <3>3. rows[s].ref \in Items /\ rows[s].ref \notin WithServices(x)
      BY <3>2, ItemsAssumption DEF WithServices, Items
    <3> QED
      BY <1>2, <2>2, <3>1, <3>3 DEF ServicesHaveModels
  <2> QED
    BY <2>1, <2>2 DEF ServicesHaveModels
<1> QED
  BY <1>1, <1>2 DEF Delete

LEMMA TablesPublish ==
  ASSUME TypeInv, ServicesHaveModels, NoUpdateLost, NEW p \in Handlers, Publish(p)
  PROVE  ServicesHaveModels' /\ NoUpdateLost'
<1> DEFINE x == proc[p].item
           pub == (proc[p].kind = "publish")
<1>0. x \in Items /\ x \in Models
  BY Typed DEF Publish, CoherentAt
<1>1. CASE UNCHANGED <<rows, due>>
  BY <1>1 DEF ServicesHaveModels, NoUpdateLost
<1>2. CASE /\ rows[x] # None
           /\ rows' = [rows EXCEPT ![x].pub = pub] /\ due' = [due EXCEPT ![x].pub = pub]
  <2>1. rows[x] \in Rows /\ rows[x].ref \in Refs(x) /\ due[x] \in Dues /\ Asks(rows[x], due[x])
    BY <1>0, <1>2, RowTyped DEF TypeInv, TypeOK, NoUpdateLost, Asks
  <2> DEFINE row == [rows[x] EXCEPT !.pub = pub]
             d == [due[x] EXCEPT !.pub = pub]
  <2>2. /\ row \in Rows /\ row.ref = rows[x].ref /\ row.name = rows[x].name /\ row.pub = pub
    BY <2>1 DEF Rows
  <2>3. d.ref = due[x].ref /\ d.name = due[x].name /\ d.pub = pub /\ d.same = due[x].same
    BY <2>1 DEF Dues
  <2>4. rows' = [rows EXCEPT ![x] = row] /\ due' = [due EXCEPT ![x] = d]
    BY <1>2
  <2> HIDE DEF row, d, pub
  <2>5. ServicesHaveModels'
    BY <1>0, <2>1, <2>2, <2>4, PutServices, ItemsAssumption
  <2>6. NoUpdateLost'
    BY <1>0, <2>1, <2>2, <2>3, <2>4 DEF NoUpdateLost, Asks, TypeInv, TypeOK, Items
  <2> QED
    BY <2>5, <2>6
<1> QED
  BY <1>1, <1>2 DEF Publish

LEMMA TablesStep ==
  ASSUME TypeInv, ServicesHaveModels, NoUpdateLost, NEW p \in Handlers,
         \/ \E kind \in Kinds, x \in Items : \E sent \in Sends(kind, x) : Start(p, kind, x, sent)
         \/ Step(p)
  PROVE  ServicesHaveModels' /\ NoUpdateLost'
<1>1. CASE UNCHANGED <<rows, due>>
  BY <1>1 DEF ServicesHaveModels, NoUpdateLost
<1>2. CASE Insert(p) \/ WriteModel(p) \/ WriteService(p) \/ Delete(p) \/ Publish(p)
  BY <1>2, TablesInsert, TablesWriteModel, TablesWriteService, TablesDelete, TablesPublish
<1> QED
  BY <1>1, <1>2 DEF Step, Start, Exists, Check, Refresh, Save, Select, Patch, Reread, Fill,
     Find, Drop, Fail, CopyFails, Quiet

-----------------------------------------------------------------------------
\* Copies.

\* Who owes a copy goes on owing it while others take steps and the row stays.
LEMMA StillOwing ==
  ASSUME NEW p \in Handlers, Others(p), NEW r \in Handlers \ {p}, NEW x \in Items,
         Owing(r, x), rows'[x] # None, rows'[x].id = rows[x].id
  PROVE  /\ Owing(r, x)' /\ proc'[r].sent = proc[r].sent
         /\ proc[r].raced => proc'[r].raced
BY DEF Others, Owing, Owes

\* An item whose row and copy a step leaves alone.
LEMMA Still ==
  ASSUME Explained, NEW p \in Handlers, Others(p), NEW x \in Items,
         SameRow(x), copies'[x] = copies[x],
         x \in suspect => x \in suspect', x \in kept => x \in kept',
         Owing(p, x) /\ x \notin suspect' =>
           Owing(p, x)' /\ proc'[p].sent = proc[p].sent /\ (proc[p].raced => proc'[p].raced)
  PROVE  ItemExplained(x)'
<1>1. ASSUME NEW r \in Handlers, Owing(r, x), x \notin suspect'
      PROVE  /\ Owing(r, x)' /\ proc'[r].sent = proc[r].sent
             /\ proc[r].raced => proc'[r].raced
  <2>1. CASE r = p
    BY <1>1, <2>1
  <2>2. CASE r # p
    BY <1>1, <2>2, StillOwing DEF Owing, SameRow
  <2> QED
    BY <2>1, <2>2
<1>2. ItemExplained(x)
  BY DEF Explained
<1>3. ASSUME x \in Models PROVE ModelExplained(x)'
  <2>1. SUFFICES ASSUME copies'[x] # None, x \notin suspect'
                 PROVE  rows'[x] # None /\ NameExplained(x)' /\ RefExplained(x)'
    BY DEF ModelExplained
  <2>2. rows[x] # None /\ NameExplained(x) /\ RefExplained(x)
    BY <1>2, <1>3, <2>1 DEF ItemExplained, ModelExplained
  <2>3. rows'[x] # None /\ rows'[x].name = rows[x].name /\ rows'[x].ref = rows[x].ref
    BY <2>2 DEF SameRow
  <2>4. NameExplained(x)'
    BY <1>1, <2>1, <2>2, <2>3 DEF NameExplained
  <2>5. RefExplained(x)'
    BY <1>1, <2>1, <2>2, <2>3 DEF RefExplained
  <2> QED
    BY <2>3, <2>4, <2>5
<1>4. ASSUME x \in Services PROVE ServiceExplained(x)'
  BY <1>1, <1>2, <1>4 DEF ItemExplained, ServiceExplained, SameRow
<1> QED
  BY <1>3, <1>4 DEF ItemExplained

\* A handler owes at most the copy of what it is about, at the points behind a write.
LEMMA OwesWhere ==
  ASSUME NEW p \in Handlers, NEW x, Owing(p, x)
  PROVE  /\ proc[p].pc \in Behind /\ proc[p].item = x /\ proc[p].wrote # 0
         /\ rows[x] # None /\ rows[x].id = proc[p].wrote
BY DEF Owing, Owes, Behind

\* A step that changes no row and no copy, of a handler that owes nothing any more or
\* goes on owing what it did.
LEMMA NothingChanged ==
  ASSUME TypeInv, Explained, NEW p \in Handlers, Others(p),
         UNCHANGED <<rows, copies, kept>>, suspect \subseteq suspect',
         \/ proc[p].pc \notin Behind
         \/ rows[proc[p].item] = None \/ rows[proc[p].item].id # proc[p].wrote
         \/ copies[proc[p].item] = None \/ proc[p].item \in suspect'
         \/ /\ proc'[p].pc \in Behind
            /\ proc'[p].item = proc[p].item /\ proc'[p].wrote = proc[p].wrote
            /\ proc'[p].sent = proc[p].sent /\ proc'[p].raced = proc[p].raced
  PROVE  Explained'
<1> SUFFICES ASSUME NEW x \in Items PROVE ItemExplained(x)'
  BY DEF Explained
<1>1. SameRow(x)
  BY DEF SameRow
<1>2. CASE copies[x] = None
  BY <1>2 DEF ItemExplained, ModelExplained, ServiceExplained
<1>3. CASE copies[x] # None
  <2>1. ASSUME Owing(p, x), x \notin suspect'
        PROVE  Owing(p, x)' /\ proc'[p].sent = proc[p].sent /\ (proc[p].raced => proc'[p].raced)
    <3>1. proc[p].pc \in Behind /\ proc[p].item = x /\ proc[p].wrote # 0
          /\ rows[x] # None /\ rows[x].id = proc[p].wrote
      BY <2>1, OwesWhere
    <3>2. /\ proc'[p].pc \in Behind
          /\ proc'[p].item = proc[p].item /\ proc'[p].wrote = proc[p].wrote
          /\ proc'[p].sent = proc[p].sent /\ proc'[p].raced = proc[p].raced
      BY <1>3, <2>1, <3>1
    <3> QED
      BY <3>1, <3>2 DEF Owing, Owes, Behind
  <2> QED
    BY <1>1, <2>1, Still
<1> QED
  BY <1>2, <1>3

\* The other items, when a step writes the row or the copy of x only and its handler is
\* about x.
LEMMA OtherItems ==
  ASSUME Explained, NEW p \in Handlers, Others(p), NEW x, proc[p].item = x,
         NEW y \in Items, y # x, rows'[y] = rows[y], copies'[y] = copies[y],
         y \in suspect => y \in suspect', y \in kept => y \in kept'
  PROVE  ItemExplained(y)'
<1>1. ~ Owing(p, y)
  BY OwesWhere
<1> QED
  BY <1>1, Still DEF SameRow

\* After a write of a row the writer owes its copy in all fields it has sent, and in the
\* others nothing has changed.
LEMMA WriterOwes ==
  ASSUME TypeInv, Explained, NEW p \in Handlers, NEW x \in Items, proc[p].item = x,
         NEW row \in Rows, rows' = [rows EXCEPT ![x] = row],
         NEW q, proc'[p] = q, Others(p),
         q.pc \in Behind, q.item = x, q.wrote = row.id,
         \/ q.sent.name # Keep
         \/ rows[x] # None /\ row.id = rows[x].id /\ row.name = rows[x].name,
         \/ q.sent.ref # Keep
         \/ rows[x] # None /\ row.id = rows[x].id /\ row.ref = rows[x].ref,
         proc[p].pc \notin Behind,
         UNCHANGED <<copies, suspect, kept>>
  PROVE  Explained'
<1> SUFFICES ASSUME NEW y \in Items PROVE ItemExplained(y)'
  BY DEF Explained
<1>0. row # None /\ row.id # 0 /\ rows'[x] = row /\ \A z \in Items \ {x} : rows'[z] = rows[z]
  BY NoneAssumption DEF Rows, TypeInv, TypeOK
<1>1. CASE y # x
  BY <1>0, <1>1, OtherItems
<1>2. CASE y = x
  <2>1. Owing(p, x)' /\ proc'[p].sent = q.sent
    BY <1>0 DEF Owing, Owes, Behind
  <2>2. ItemExplained(x) /\ ~ Owing(p, x)
    BY OwesWhere DEF Explained
  <2>3. ServiceExplained(x)'
    BY <2>1 DEF ServiceExplained
  <2>4. ASSUME rows[x] # None, row.id = rows[x].id, NEW r \in Handlers, Owing(r, x)
        PROVE  /\ Owing(r, x)' /\ proc'[r].sent = proc[r].sent
               /\ proc[r].raced => proc'[r].raced
    BY <1>0, <2>2, <2>4, StillOwing
  <2>5. ASSUME x \in Models, copies[x] # None, x \notin suspect
        PROVE  NameExplained(x)' /\ RefExplained(x)'
    <3>1. NameExplained(x) /\ RefExplained(x)
      BY <2>2, <2>5 DEF ItemExplained, ModelExplained
    <3>2. NameExplained(x)'
      <4>1. CASE q.sent.name # Keep
        BY <2>1, <4>1 DEF NameExplained
      <4>2. CASE rows[x] # None /\ row.id = rows[x].id /\ row.name = rows[x].name
        BY <1>0, <2>4, <3>1, <4>2 DEF NameExplained
      <4> QED
        BY <4>1, <4>2
    <3>3. RefExplained(x)'
      <4>1. CASE q.sent.ref # Keep
        BY <2>1, <4>1 DEF RefExplained
      <4>2. CASE rows[x] # None /\ row.id = rows[x].id /\ row.ref = rows[x].ref
        BY <1>0, <2>4, <3>1, <4>2 DEF RefExplained
      <4> QED
        BY <4>1, <4>2
    <3> QED
      BY <3>2, <3>3
  <2>6. x \in Models => ModelExplained(x)'
    BY <1>0, <2>5 DEF ModelExplained
  <2> QED
    BY <1>2, <2>3, <2>6 DEF ItemExplained
<1> QED
  BY <1>1, <1>2

LEMMA InsertExplained ==
  ASSUME TypeInv, Explained, NEW p \in Handlers, Insert(p)
  PROVE  Explained'
<1> DEFINE x == proc[p].item
           row == Inserted(p)
           q == [proc[p] EXCEPT !.pc = "refresh", !.wrote = row.id]
<1>0. Others(p) /\ proc[p].pc \notin Behind
  BY InsertStep DEF Shape, Insert, Behind
<1>1. CASE UNCHANGED rows
  BY <1>0, <1>1, NothingChanged DEF Insert
<1>2. CASE Insertion(p, x, row)
  <2>0. x \in Items /\ proc[p] \in Locals /\ made \in Nat
        /\ proc[p].sent.name \in Names /\ proc[p].sent.ref \in Refs(x)
    BY Typed DEF Insert, CoherentAt, TypeInv, TypeOK
  <2>1. row \in Rows /\ row.id \in Nat
    BY <2>0, RefsFacts DEF Inserted, Rows
  <2>2. q \in Locals /\ q.pc = "refresh" /\ q.item = x /\ q.sent = proc[p].sent /\ q.wrote = row.id
    BY <2>0, <2>1 DEF Locals, Points
  <2>3. rows' = [rows EXCEPT ![x] = row] /\ Overtake({x}, p, q)
    BY <1>2 DEF Insertion
  <2> HIDE DEF q, row
  <2>4. proc'[p] = q
    BY <2>2, <2>3, OvertakeEffect DEF TypeInv
  <2>5. q.sent.name # Keep /\ q.sent.ref # Keep /\ q.pc \in Behind
    BY <2>0, <2>2, RefsFacts DEF Behind
  <2> QED
    BY <1>0, <2>0, <2>1, <2>2, <2>3, <2>4, <2>5, WriterOwes DEF Insert
<1> QED
  BY <1>1, <1>2 DEF Insert

LEMMA WriteModelExplained ==
  ASSUME TypeInv, Explained, NEW p \in Handlers, WriteModel(p)
  PROVE  Explained'
<1> DEFINE x == proc[p].item
           q == proc[p]
           row == Written(rows[x], q.read, q.sent)
           next == ToPatch(q, q.read.id)
<1>0. Others(p) /\ proc[p].pc = "write" /\ proc[p].pc \notin Behind
  BY WriteModelStep DEF Shape, WriteModel, Behind
<1>1. CASE UNCHANGED rows
  BY <1>0, <1>1, NothingChanged DEF WriteModel
<1>2. CASE /\ rows[x] # None /\ rows[x].id = q.read.id /\ rows' = [rows EXCEPT ![x] = row]
           /\ Overtake({x}, p, next)
  <2>0. /\ x \in Items /\ q.read \in Rows
        /\ q.sent \in Sent /\ q.sent.ref \in Refs(x) \cup {Keep}
    BY Typed DEF WriteModel, CoherentAt, Locals
  <2>1. rows[x] \in Rows /\ rows[x].ref \in Refs(x) /\ q.read.id \in Nat
    BY <1>2, <2>0, RowTyped DEF Rows
  <2>2. row \in Rows
    BY <2>0, <2>1, WrittenFacts
  <2>4. /\ row.id = rows[x].id
        /\ q.sent.name # Keep \/ row.name = rows[x].name
        /\ q.sent.ref # Keep \/ row.ref = rows[x].ref
    BY <2>0, <2>1, WrittenFields
  <2>6. next \in Locals /\ next.pc = "patch" /\ next.item = x /\ next.sent = q.sent
        /\ next.wrote = q.read.id
    BY <1>0, <2>1, PatchNext
  <2> HIDE DEF row, next
  <2>7. proc'[p] = next
    BY <1>2, <2>6, OvertakeEffect DEF TypeInv
  <2>8. next.pc \in Behind
    BY <2>6 DEF Behind
  <2>9. UNCHANGED <<copies, suspect, kept>>
    BY DEF WriteModel
  <2> QED
    BY <1>0, <1>2, <2>0, <2>2, <2>4, <2>6, <2>7, <2>8, <2>9, WriterOwes
<1> QED
  BY <1>1, <1>2 DEF WriteModel, ToPatch

LEMMA WriteServiceExplained ==
  ASSUME TypeInv, Explained, NEW p \in Handlers, WriteService(p)
  PROVE  Explained'
<1> DEFINE x == proc[p].item
           q == proc[p]
           row == Merge(rows[x], q.sent)
           next == ToPatch(q, rows[x].id)
<1>0. Others(p) /\ proc[p].pc = "write" /\ proc[p].pc \notin Behind
  BY WriteServiceStep DEF Shape, WriteService, Behind
<1>1. CASE UNCHANGED rows
  BY <1>0, <1>1, NothingChanged DEF WriteService
<1>2. CASE /\ rows[x] # None /\ rows' = [rows EXCEPT ![x] = row]
           /\ Overtake({x}, p, next)
  <2>0. /\ x \in Items /\ q.sent \in Sent
        /\ q.sent.name \in Names /\ q.sent.ref \in Refs(x)
    BY Typed DEF WriteService, CoherentAt, Locals
  <2>1. rows[x] \in Rows /\ rows[x].ref \in Refs(x) /\ rows[x].id \in Nat
    BY <1>2, <2>0, RowTyped
  <2>2. row \in Rows /\ row.id = rows[x].id
    BY <2>0, <2>1, MergeRow
  <2>4. q.sent.name # Keep /\ q.sent.ref # Keep
    BY <2>0, RefsFacts
  <2>6. next \in Locals /\ next.pc = "patch" /\ next.item = x /\ next.sent = q.sent
        /\ next.wrote = rows[x].id
    BY <1>0, <2>1, PatchNext
  <2> HIDE DEF row, next
  <2>7. proc'[p] = next
    BY <1>2, <2>6, OvertakeEffect DEF TypeInv
  <2>8. next.pc \in Behind
    BY <2>6 DEF Behind
  <2>9. UNCHANGED <<copies, suspect, kept>>
    BY DEF WriteService
  <2> QED
    BY <1>0, <1>2, <2>0, <2>2, <2>4, <2>6, <2>7, <2>8, <2>9, WriterOwes
<1> QED
  BY <1>1, <1>2, SMTT(30) DEF WriteService, ToPatch

\* A copy that is written is suspect, or it is made of fields of the row by a handler
\* that nobody has overtaken.
LEMMA CopyWritten ==
  ASSUME TypeInv, Explained, NEW p \in Handlers, NEW x \in Items, proc[p].item = x,
         NEW copy, Stored(p, x, copy), rows' = rows,
         \A y \in Items \ {x} : (y \in suspect => y \in suspect') /\ (y \in kept => y \in kept'),
         x \notin suspect' /\ x \in Models => ModelExplained(x)',
         x \notin suspect' /\ x \in Services => ServiceExplained(x)'
  PROVE  Explained'
<1> SUFFICES ASSUME NEW y \in Items PROVE ItemExplained(y)'
  BY DEF Explained
<1>0. Others(p) /\ \A z \in Items \ {x} : copies'[z] = copies[z]
  BY StoredEffect DEF TypeInv
<1>1. CASE y # x
  BY <1>0, <1>1, OtherItems
<1>2. CASE y = x
  BY <1>2 DEF ItemExplained, ModelExplained, ServiceExplained
<1> QED
  BY <1>1, <1>2

LEMMA SaveExplained ==
  ASSUME TypeInv, InStep, Explained, NEW p \in Handlers, Save(p)
  PROVE  Explained'
<1>x. PICK x \in Items : x = proc[p].item
  BY Typed DEF Save
<1> DEFINE copy == [name |-> proc[p].sent.name, ref |-> proc[p].sent.ref]
<1>1. proc[p].wrote # 0 /\ proc[p].pc = "save"
      /\ proc[p].sent.name \in Names /\ proc[p].sent.ref \in Refs(x) /\ InStepAt(p)
  BY <1>x, Typed DEF Save, CoherentAt, InStep
<1>2. Stored(p, x, copy) /\ Judge(p, x, TRUE) /\ kept' = kept \ {x} /\ rows' = rows
  BY <1>x DEF Save
<1>3. copy.name = proc[p].sent.name /\ copy.ref = proc[p].sent.ref
  OBVIOUS
<1> HIDE DEF copy
<1>4. copies'[x] = copy
  BY <1>1, <1>2, StoredEffect DEF TypeInv
<1>5. x \notin suspect' => rows[x] # None /\ copies'[x].name = rows[x].name
                          /\ copies'[x].ref = rows[x].ref
  BY <1>x, <1>1, <1>2, <1>3, <1>4, RefsFacts DEF Judge, InStepAt, Wrote, Behind
<1>6. x \notin suspect' => ModelExplained(x)' /\ ServiceExplained(x)'
  BY <1>2, <1>5 DEF ModelExplained, ServiceExplained, NameExplained, RefExplained
<1>7. \A y \in Items \ {x} : (y \in suspect => y \in suspect') /\ (y \in kept => y \in kept')
  BY <1>2 DEF Judge
<1> QED
  BY <1>x, <1>2, <1>6, <1>7, CopyWritten

LEMMA FillExplained ==
  ASSUME TypeInv, InStep, Explained, NEW p \in Handlers, Fill(p)
  PROVE  Explained'
<1>x. PICK x \in Items : x = proc[p].item
  BY Typed DEF Fill
<1> DEFINE row == Merge(proc[p].read, proc[p].sent)
           copy == [name |-> row.name, ref |-> row.ref]
<1>1. /\ proc[p].pc = "fill" /\ InStepAt(p)
      /\ proc[p].read \in Rows /\ proc[p].read.ref \in Refs(x)
      /\ proc[p].sent \in Sent /\ proc[p].sent.ref \in Refs(x) \cup {Keep}
  BY <1>x, Typed DEF Fill, CoherentAt, Locals, InStep
<1>2. Stored(p, x, copy) /\ Judge(p, x, TRUE) /\ kept' = kept \ {x} /\ rows' = rows
  BY <1>x DEF Fill
<1>3. /\ copy.name = IF proc[p].sent.name = Keep THEN proc[p].read.name ELSE proc[p].sent.name
      /\ copy.ref = IF proc[p].sent.ref = Keep THEN proc[p].read.ref ELSE proc[p].sent.ref
  BY <1>1, MergeRow
<1> HIDE DEF copy
<1>4. copies'[x] = copy
  BY <1>1, <1>2, StoredEffect DEF TypeInv
<1>5. ~ proc[p].raced =>
        /\ rows[x] # None /\ rows[x].name = proc[p].read.name /\ rows[x].ref = proc[p].read.ref
        /\ proc[p].sent.name # Keep => rows[x].name = proc[p].sent.name
        /\ proc[p].sent.ref # Keep => rows[x].ref = proc[p].sent.ref
  BY <1>x, <1>1 DEF InStepAt, Wrote, WroteNone, HasRead, Behind
<1>6. x \notin suspect' => rows[x] # None /\ copies'[x].name = rows[x].name
                          /\ copies'[x].ref = rows[x].ref
  BY <1>2, <1>3, <1>4, <1>5 DEF Judge
<1>7. x \notin suspect' => ModelExplained(x)' /\ ServiceExplained(x)'
  BY <1>2, <1>6 DEF ModelExplained, ServiceExplained, NameExplained, RefExplained
<1>8. \A y \in Items \ {x} : (y \in suspect => y \in suspect') /\ (y \in kept => y \in kept')
  BY <1>2 DEF Judge
<1> QED
  BY <1>x, <1>2, <1>7, <1>8, CopyWritten

\* The copy of a model is patched: the fields sent are those of the row, the others are
\* as they were, and the task is never among those sent.
LEMMA PatchModelExplained ==
  ASSUME TypeInv, InStep, Explained, NEW p \in Handlers, Patch(p),
         proc[p].item \in Models, copies[proc[p].item] # None
  PROVE  Explained'
<1>x. PICK x \in Items : x = proc[p].item
  BY Typed DEF Patch
<1> DEFINE sent == Patched(x, proc[p].sent)
           copy == Merge(copies[x], sent)
<1>1. /\ x \in Models /\ x \notin Services /\ proc[p].pc = "patch" /\ InStepAt(p) /\ ItemExplained(x)
      /\ proc[p].sent \in Sent /\ copies[x] \in Copies /\ copies[x] # None
  BY <1>x, Typed, ItemsAssumption DEF Patch, Locals, InStep, Explained, TypeInv, TypeOK
<1>2. /\ Stored(p, x, copy) /\ rows' = rows
      /\ suspect' = IF proc[p].raced THEN suspect \cup {x} ELSE suspect
      /\ kept' = IF proc[p].sent.ref # Keep THEN kept \cup {x} ELSE kept
  <2>1. Stored(p, x, copy) /\ Judge(p, x, x \in Services) /\ rows' = rows
    BY <1>x, <1>1 DEF Patch
  <2>2. kept' = IF proc[p].sent.ref # Keep THEN kept \cup {x} ELSE kept
    BY <1>x, <1>1 DEF Patch
  <2> QED
    BY <1>1, <2>1, <2>2 DEF Judge
<1>3. sent \in Sent /\ sent.name = proc[p].sent.name /\ sent.ref = Keep
  BY <1>1 DEF Patched, Sent
<1>4. copy.name = (IF proc[p].sent.name = Keep THEN copies[x].name ELSE proc[p].sent.name)
      /\ copy.ref = copies[x].ref
  <2> HIDE DEF sent
  <2> QED
    BY <1>1, <1>3 DEF Merge, Copies
<1> HIDE DEF copy, sent
<1>5. copies'[x] = copy /\ Others(p)
  BY <1>1, <1>2, StoredEffect DEF TypeInv
<1>6. SUFFICES ASSUME x \notin suspect' PROVE ModelExplained(x)'
  <2>1. \A y \in Items \ {x} : (y \in suspect => y \in suspect') /\ (y \in kept => y \in kept')
    BY <1>2
  <2> QED
    BY <1>x, <1>1, <1>2, <2>1, CopyWritten
<1>7. ~ proc[p].raced /\ x \notin suspect
  BY <1>2, <1>6
<1>8. rows[x] # None /\ NameExplained(x) /\ RefExplained(x)
  BY <1>1, <1>7 DEF ItemExplained, ModelExplained
<1>9. proc[p].sent.name # Keep => rows[x].name = proc[p].sent.name
  BY <1>x, <1>1, <1>7, <1>8 DEF InStepAt, Wrote, WroteNone, Behind
<1>10. ASSUME NEW r \in Handlers \ {p}, Owing(r, x)
       PROVE  /\ Owing(r, x)' /\ proc'[r].sent = proc[r].sent
              /\ proc[r].raced => proc'[r].raced
  BY <1>1, <1>2, <1>5, <1>8, <1>10, StillOwing
<1>11. NameExplained(x)'
  <2>1. CASE proc[p].sent.name # Keep
    BY <1>2, <1>4, <1>5, <1>9, <2>1 DEF NameExplained
  <2>2. CASE proc[p].sent.name = Keep
    <3>1. \/ copies[x].name = rows[x].name
          \/ \E r \in Handlers \ {p} : Owing(r, x) /\ (proc[r].raced \/ proc[r].sent.name # Keep)
      BY <1>7, <1>8, <2>2 DEF NameExplained
    <3> QED
      BY <1>2, <1>4, <1>5, <1>10, <2>2, <3>1 DEF NameExplained
  <2> QED
    BY <2>1, <2>2
<1>12. RefExplained(x)'
  <2>1. CASE proc[p].sent.ref # Keep
    BY <1>2, <2>1 DEF RefExplained
  <2>2. CASE proc[p].sent.ref = Keep
    <3>1. \/ copies[x].ref = rows[x].ref
          \/ x \in kept
          \/ \E r \in Handlers \ {p} : Owing(r, x) /\ (proc[r].raced \/ proc[r].sent.ref # Keep)
      BY <1>7, <1>8, <2>2 DEF RefExplained
    <3> QED
      BY <1>2, <1>4, <1>5, <1>10, <2>2, <3>1 DEF RefExplained
  <2> QED
    BY <2>1, <2>2
<1> QED
  BY <1>2, <1>8, <1>11, <1>12 DEF ModelExplained

\* That of a service takes all fields of a row, or there is none.
LEMMA PatchServiceExplained ==
  ASSUME TypeInv, InStep, Explained, NEW p \in Handlers, Patch(p),
         proc[p].item \in Services, copies[proc[p].item] # None
  PROVE  Explained'
<1>x. PICK x \in Items : x = proc[p].item
  BY Typed DEF Patch
<1> DEFINE sent == Patched(x, proc[p].sent)
           copy == Merge(copies[x], sent)
<1>1. /\ x \in Services /\ x \notin Models /\ proc[p].pc = "patch" /\ InStepAt(p)
      /\ proc[p].sent \in Sent /\ copies[x] \in Copies /\ copies[x] # None
      /\ proc[p].sent.name # Keep /\ proc[p].sent.ref # Keep
  BY <1>x, Typed, ItemsAssumption, RefsFacts
     DEF Patch, Locals, InStep, CoherentAt, TypeInv, TypeOK
<1>2. /\ Stored(p, x, copy) /\ rows' = rows /\ kept' = kept
      /\ suspect' = IF proc[p].raced THEN suspect \cup {x} ELSE suspect \ {x}
  <2>1. Stored(p, x, copy) /\ Judge(p, x, x \in Services) /\ rows' = rows
    BY <1>x, <1>1 DEF Patch
  <2>2. kept' = kept
    BY <1>x, <1>1 DEF Patch
  <2> QED
    BY <1>1, <2>1, <2>2 DEF Judge
<1>3. sent = proc[p].sent
  BY <1>1 DEF Patched
<1>4. copy.name = proc[p].sent.name /\ copy.ref = proc[p].sent.ref
  BY <1>1, <1>3 DEF Merge, Copies
<1> HIDE DEF copy, sent
<1>5. copies'[x] = copy
  BY <1>2, StoredEffect DEF TypeInv
<1>6. x \notin suspect' /\ rows[x] # None =>
        rows[x].name = proc[p].sent.name /\ rows[x].ref = proc[p].sent.ref
  BY <1>x, <1>1, <1>2 DEF InStepAt, Wrote, WroteNone, Behind
<1>7. x \notin suspect' => ServiceExplained(x)'
  BY <1>2, <1>4, <1>5, <1>6 DEF ServiceExplained
<1>8. \A y \in Items \ {x} : (y \in suspect => y \in suspect') /\ (y \in kept => y \in kept')
  BY <1>2
<1> QED
  BY <1>x, <1>1, <1>2, <1>7, <1>8, CopyWritten

LEMMA PatchExplained ==
  ASSUME TypeInv, InStep, Explained, NEW p \in Handlers, Patch(p)
  PROVE  Explained'
<1>0. proc[p].item \in Items
  BY Typed DEF Patch
<1>1. CASE copies[proc[p].item] # None
  BY <1>0, <1>1, PatchModelExplained, PatchServiceExplained DEF Items
<1>2. CASE copies[proc[p].item] = None
  BY <1>2, PatchStep, NothingChanged DEF Patch, Shape
<1> QED
  BY <1>1, <1>2

LEMMA RefreshExplained ==
  ASSUME TypeInv, Explained, NEW p \in Handlers, Refresh(p)
  PROVE  Explained'
<1>0. Others(p) /\ UNCHANGED <<rows, copies, kept, suspect>>
  BY RefreshStep DEF Shape, Refresh, Quiet
<1>1. CASE rows[proc[p].item] = None \/ rows[proc[p].item].id # proc[p].wrote
  BY <1>0, <1>1, NothingChanged
<1>2. CASE Go(p, "save")
  <2>1. "save" \in Points /\ "save" \in Behind
    BY DEF Points, Behind
  <2>2. Onward(p, "save") /\ proc'[p].wrote = proc[p].wrote
    BY <1>2, <2>1, GoEffect DEF TypeInv
  <2> QED
    BY <1>0, <2>1, <2>2, NothingChanged DEF Onward
<1> QED
  BY <1>1, <1>2 DEF Refresh

LEMMA RereadExplained ==
  ASSUME TypeInv, Explained, NEW p \in Handlers, Reread(p)
  PROVE  Explained'
<1>0. Others(p) /\ UNCHANGED <<rows, copies, kept, suspect>> /\ proc[p].item \in Items
  BY RereadStep, Typed DEF Shape, Reread, Quiet
<1>1. CASE rows[proc[p].item] = None
  BY <1>0, <1>1, NothingChanged
<1>2. CASE /\ rows[proc[p].item] # None
           /\ proc' = [proc EXCEPT ![p] = [@ EXCEPT !.pc = "fill", !.read = rows[proc[p].item]]]
  <2>1. "fill" \in Points /\ "fill" \in Behind
    BY DEF Points, Behind
  <2>2. rows[proc[p].item] \in Rows
    BY <1>0, <1>2, RowTyped
  <2>3. Onward(p, "fill") /\ proc'[p].wrote = proc[p].wrote
    BY <1>2, <2>1, <2>2, ReadEffect DEF TypeInv
  <2> QED
    BY <1>0, <2>1, <2>3, NothingChanged DEF Onward
<1> QED
  BY <1>1, <1>2 DEF Reread

LEMMA CopyFailsExplained ==
  ASSUME TypeInv, Explained, NEW p \in Handlers, CopyFails(p)
  PROVE  Explained'
<1>0. Others(p) /\ UNCHANGED <<rows, copies, kept, suspect>>
  BY CopyFailsStep DEF Shape, CopyFails
<1>1. CASE proc[p].pc = "drop"
  BY <1>0, <1>1, NothingChanged DEF Behind
<1>2. CASE Go(p, "reread")
  <2>1. "reread" \in Points /\ "reread" \in Behind
    BY DEF Points, Behind
  <2>2. Onward(p, "reread") /\ proc'[p].wrote = proc[p].wrote
    BY <1>2, <2>1, GoEffect DEF TypeInv
  <2> QED
    BY <1>0, <2>1, <2>2, NothingChanged DEF Onward
<1> QED
  BY <1>1, <1>2 DEF CopyFails

LEMMA FailExplained ==
  ASSUME TypeInv, Explained, NEW p \in Handlers, Fail(p)
  PROVE  Explained'
<1>0. Others(p) /\ UNCHANGED <<rows, copies, kept>> /\ suspect \subseteq suspect'
  BY FailStep DEF Shape, Fail
<1>1. CASE Owes(p, proc[p].item)
  BY <1>0, <1>1, NothingChanged DEF Fail
<1>2. CASE ~ Owes(p, proc[p].item)
  <2> SUFFICES ASSUME NEW x \in Items PROVE ItemExplained(x)'
    BY DEF Explained
  <2>1. ~ Owing(p, x)
    BY <1>2 DEF Owing, Owes
  <2> QED
    BY <1>0, <2>1, Still DEF SameRow
<1> QED
  BY <1>1, <1>2

LEMMA DropExplained ==
  ASSUME TypeInv, Explained, NEW p \in Handlers, Drop(p)
  PROVE  Explained'
<1>0. Others(p) /\ UNCHANGED <<rows, kept, suspect>> /\ proc[p].pc \notin Behind
  BY DropStep DEF Shape, Drop, Behind
<1> SUFFICES ASSUME NEW x \in Items PROVE ItemExplained(x)'
  BY DEF Explained
<1>1. CASE copies'[x] = copies[x]
  <2>1. ~ Owing(p, x)
    BY <1>0, OwesWhere
  <2> QED
    BY <1>0, <1>1, <2>1, Still DEF SameRow
<1>2. CASE copies'[x] = None
  BY <1>2 DEF ItemExplained, ModelExplained, ServiceExplained
<1>3. copies'[x] = copies[x] \/ copies'[x] = None
  BY DEF Drop, TypeInv, TypeOK
<1> QED
  BY <1>1, <1>2, <1>3

LEMMA DeleteExplained ==
  ASSUME TypeInv, InStep, Explained, NEW p \in Handlers, Delete(p)
  PROVE  Explained'
<1>0. /\ Others(p) /\ UNCHANGED <<copies, kept>> /\ proc[p].pc \notin Behind
      /\ suspect \subseteq suspect'
  BY DeleteStep DEF Shape, Delete, Behind
<1>x. PICK x \in Items : x = proc[p].item
  BY Typed DEF Delete
<1>1. CASE UNCHANGED <<rows, suspect>>
  BY <1>0, <1>1, NothingChanged
<1>2. CASE /\ rows' = [y \in Items |-> IF y \in WithServices(x) THEN None ELSE rows[y]]
           /\ suspect' = IF proc[p].raced /\ x \in Models THEN suspect \cup {x} ELSE suspect
  <2> SUFFICES ASSUME NEW y \in Items PROVE ItemExplained(y)'
    BY DEF Explained
  <2>1. CASE y \notin WithServices(x)
    <3>1. SameRow(y)
      BY <1>2, <2>1 DEF SameRow
    <3>2. ~ Owing(p, y)
      BY <1>0, OwesWhere
    <3> QED
      BY <1>0, <3>1, <3>2, Still
  <2>2. CASE y \in WithServices(x) /\ y \in Services
    BY <1>2, <2>2, ItemsAssumption DEF ItemExplained, ServiceExplained
  <2>3. CASE y \in WithServices(x) /\ y \in Models
    <3>1. y = x /\ y \notin Services
      BY <2>3, ItemsAssumption DEF WithServices
    <3>2. InStepAt(p) /\ proc[p].pc = "delete"
      BY DEF InStep, Delete
    <3>3. y \in suspect' \/ copies[y] = None
      BY <1>x, <1>2, <2>3, <3>1, <3>2 DEF InStepAt, Dropped
    <3> QED
      BY <1>0, <3>1, <3>3 DEF ItemExplained, ModelExplained
  <2> QED
    BY <2>1, <2>2, <2>3 DEF Items
<1> QED
  BY <1>x, <1>1, <1>2 DEF Delete

LEMMA PublishExplained ==
  ASSUME TypeInv, Explained, NEW p \in Handlers, Publish(p)
  PROVE  Explained'
<1>0. /\ Others(p) /\ UNCHANGED <<copies, kept, suspect>> /\ proc[p].pc \notin Behind
  BY PublishStep DEF Shape, Publish, Behind
<1> SUFFICES ASSUME NEW y \in Items PROVE ItemExplained(y)'
  BY DEF Explained
<1>1. SameRow(y)
  <2>1. CASE rows' = rows
    BY <2>1 DEF SameRow
  <2>2. CASE /\ rows[proc[p].item] # None
             /\ rows' = [rows EXCEPT ![proc[p].item].pub = (proc[p].kind = "publish")]
    <3>1. proc[p].item \in Items /\ rows[proc[p].item] \in Rows
      BY <2>2, Typed, RowTyped DEF Publish
    <3>2. [rows[proc[p].item] EXCEPT !.pub = (proc[p].kind = "publish")] \in Rows
      BY <3>1 DEF Rows
    <3> QED
      BY <2>2, <3>1, <3>2, NoneAssumption DEF SameRow, Rows, TypeInv, TypeOK
  <2> QED
    BY <2>1, <2>2 DEF Publish
<1>2. ~ Owing(p, y)
  BY <1>0, OwesWhere
<1> QED
  BY <1>0, <1>1, <1>2, Still

LEMMA QuietExplained ==
  ASSUME TypeInv, Explained, NEW p \in Handlers, Others(p), proc[p].pc \notin Behind,
         UNCHANGED <<rows, copies, kept, suspect>>
  PROVE  Explained'
BY NothingChanged

LEMMA ExplainedStep ==
  ASSUME TypeInv, InStep, Explained, NEW p \in Handlers,
         \/ \E kind \in Kinds, x \in Items : \E sent \in Sends(kind, x) : Start(p, kind, x, sent)
         \/ Step(p)
  PROVE  Explained'
<1>0. Others(p)
  BY TypesStep DEF Shape
<1>1. CASE \E kind \in Kinds, x \in Items : \E sent \in Sends(kind, x) : Start(p, kind, x, sent)
  <2>1. proc[p].pc \notin Behind /\ UNCHANGED <<rows, copies, kept, suspect>>
    BY <1>1 DEF Start, Behind
  <2> QED
    BY <1>0, <2>1, QuietExplained
<1>2. CASE Exists(p) \/ Check(p) \/ Select(p) \/ Find(p)
  <2>1. proc[p].pc \notin Behind /\ UNCHANGED <<rows, copies, kept, suspect>>
    BY <1>2 DEF Exists, Check, Select, Find, Quiet, Behind
  <2> QED
    BY <1>0, <2>1, QuietExplained
<1> QED
  BY <1>1, <1>2, InsertExplained, RefreshExplained, SaveExplained, WriteModelExplained,
     WriteServiceExplained, PatchExplained, RereadExplained, FillExplained, DropExplained,
     DeleteExplained, PublishExplained, FailExplained, CopyFailsExplained DEF Step

-----------------------------------------------------------------------------
LEMMA InitInv == Init => IInv
<1> SUFFICES ASSUME Init PROVE IInv
  OBVIOUS
<1>1. PICK name \in Names, ref \in Tasks :
        /\ rows = [x \in Items |-> IF x \in Existing
             THEN [id |-> 1, name |-> name, ref |-> ref, pub |-> FALSE] ELSE None]
        /\ copies = [x \in Items |-> IF x \in Existing
             THEN [name |-> name, ref |-> ref] ELSE None]
        /\ due = [x \in Items |->
             [name |-> name, ref |-> ref, pub |-> FALSE, same |-> FALSE]]
  BY DEF Init
<1> DEFINE row == [id |-> 1, name |-> name, ref |-> ref, pub |-> FALSE]
           copy == [name |-> name, ref |-> ref]
<1>2. row \in Rows /\ copy \in Copies /\ row # None /\ copy # None
  <2>1. ref \in AnyRef
    BY DEF AnyRef
  <2>2. row \in Rows
    BY <2>1 DEF Rows
  <2>3. copy \in Copies
    BY <2>1 DEF Copies
  <2> QED
    BY <2>2, <2>3, NoneAssumption
<1>3. \A x \in Existing : x \in Models /\ x \in Items /\ x \notin Services
  BY ItemsAssumption DEF Items
<1>4. \A p \in Handlers : proc[p] = Idle
  BY DEF Init
<1>5. TypeOK
  <2>1. rows \in [Items -> Rows \cup {None}] /\ copies \in [Items -> Copies \cup {None}]
    BY <1>1, <1>2
  <2>2. \A x \in Items : /\ rows[x] # None => rows[x].ref \in Refs(x)
                         /\ copies[x] # None => copies[x].ref \in Refs(x)
    BY <1>1, <1>3 DEF Refs
  <2>3. due \in [Items -> Dues]
    BY <1>1 DEF Dues, AnyRef
  <2>4. proc \in [Handlers -> Locals]
    BY IdleTyped DEF Init
  <2>5. requests \in 0..MaxRequests /\ faults \in 0..MaxFaults
    BY BoundsAssumption DEF Init
  <2> QED
    BY <2>1, <2>2, <2>3, <2>4, <2>5 DEF TypeOK, Init
<1>6. Coherent /\ InStep
  BY <1>4, IdleTyped
     DEF Coherent, CoherentAt, InStep, InStepAt, Wrote, WroteNone, HasRead, Dropped, Behind
<1>7. ServicesHaveModels /\ NoUpdateLost
  BY <1>1, <1>3 DEF ServicesHaveModels, NoUpdateLost, Items
<1>8. Explained
  BY <1>1, <1>2, <1>3
     DEF Explained, ItemExplained, ModelExplained, ServiceExplained, NameExplained, RefExplained
<1> QED
  BY <1>5, <1>6, <1>7, <1>8 DEF IInv, TypeInv

LEMMA NextInv == IInv /\ [Next]_vars => IInv'
<1> SUFFICES ASSUME IInv, [Next]_vars PROVE IInv'
  OBVIOUS
<1>1. CASE Next
  <2>1. PICK p \in Handlers :
          \/ \E kind \in Kinds, x \in Items : \E sent \in Sends(kind, x) : Start(p, kind, x, sent)
          \/ Step(p)
    BY <1>1 DEF Next
  <2> QED
    BY <2>1, TypesStep, TablesStep, InStepStep, ExplainedStep DEF IInv
<1>2. CASE UNCHANGED vars
  BY <1>2 DEF vars, IInv, TypeInv, TypeOK, Coherent, ServicesHaveModels, NoUpdateLost, InStep,
     InStepAt, Wrote, WroteNone, HasRead, Dropped, Explained, ItemExplained, ModelExplained,
     ServiceExplained, NameExplained, RefExplained, Owing, Owes
<1> QED
  BY <1>1, <1>2

THEOREM Invariance == Spec => []IInv
BY InitInv, NextInv, PTL DEF Spec

-----------------------------------------------------------------------------
\* Every variable keeps its type: rows and copies have the fields of models and
\* services, whatever updates merge into them.
THEOREM CatalogTypes == Spec => []TypeOK
<1>1. IInv => TypeOK
  BY DEF IInv, TypeInv
<1> QED
  BY <1>1, Invariance, PTL

\* Every service has its model, though the check for it is a statement of its own.
THEOREM ServicesKeepModels == Spec => []ServicesHaveModels
<1>1. IInv => ServicesHaveModels
  BY DEF IInv
<1> QED
  BY <1>1, Invariance, PTL

\* The fields of a model are those last sent, whichever updates and publications
\* overlap, but for a name that an update had read.
THEOREM UpdatesKept == Spec => []NoUpdateLost
<1>1. IInv => NoUpdateLost
  BY DEF IInv
<1> QED
  BY <1>1, Invariance, PTL

\* The copy of a model differs from its row for the reasons named and no other.
THEOREM ModelCopiesAccounted == Spec => []ModelCopiesExplained
<1>1. IInv => ModelCopiesExplained
  BY DEF IInv, Explained, ItemExplained, ModelExplained, NameExplained, RefExplained, Owing,
     ModelCopiesExplained, Items
<1> QED
  BY <1>1, Invariance, PTL

\* So does the copy of a service that exists.
THEOREM ServiceCopiesAccounted == Spec => []ServiceCopiesExplained
<1>1. IInv => ServiceCopiesExplained
  <2> SUFFICES ASSUME IInv, NEW x \in Services, copies[x] # None, rows[x] # None,
                      x \notin suspect, ~ \E p \in Handlers : Owes(p, x)
               PROVE  copies[x] = [name |-> rows[x].name, ref |-> rows[x].ref]
    BY DEF ServiceCopiesExplained
  <2>1. copies[x] \in Copies
    BY DEF IInv, TypeInv, TypeOK, Items
  <2>2. copies[x].name = rows[x].name /\ copies[x].ref = rows[x].ref
    BY DEF IInv, Explained, ItemExplained, ServiceExplained, Owing, Items
  <2> QED
    BY <2>1, <2>2 DEF Copies
<1> QED
  BY <1>1, Invariance, PTL
=============================================================================
