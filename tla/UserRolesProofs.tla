--------------------------- MODULE UserRolesProofs ---------------------------
(***************************************************************************)
(* Proofs about UserRoles for any users, roles, requests in flight and      *)
(* bounds: its types, that a user has two roles only if the assignments     *)
(* that wrote them overlapped, and that requests never deadlock.            *)
(***************************************************************************)
EXTENDS UserRoles, WellFoundedInduction, TLAPS

-----------------------------------------------------------------------------
\* The inductive invariant, in parts.

\* A request that replaces the rows of its target.
Writing(q) ==
  q.kind = "assign" /\ q.stage = 2 /\ q.pc \in {"insert", "delete"}

\* What the locals of a request say of each other.
Coherent(q) ==
  /\ q.pc # "delete" => q.held = {} /\ q.gone = {} /\ q.added = NoRole
  /\ q.gone \subseteq q.held
  /\ q.pc \in {"check", "read", "insert"} => q.stage = 2 /\ q.who = q.on
  /\ q.pc \in {"read", "insert"} => q.kind = "assign"
  /\ q.pc = "roles" => q.stage = 1 \/ q.kind = "view"
  /\ q.pc # "idle" => q.by \in Users /\ q.on \in Users /\ q.who \in Users
  /\ q.pc # "idle" /\ q.kind \in {"assign", "remove"} => q.role \in Roles
  /\ q.added # NoRole => Writing(q)
  /\ Writing(q) => /\ q.who = q.on
                   /\ q.role \notin q.del \cup q.gone
                   /\ q.added \in {q.role, NoRole}
                   /\ q.added # NoRole => q.role \in q.held

\* What a request that replaces rows knows of the table: every row that was
\* there when it read, but for that of its own role, is deleted or to be deleted.
Informed(q) ==
  /\ q.from <= clock
  /\ Writing(q) => \A r \in Has(q.on) \ {q.role} :
       table[q.on][r].to <= q.from => r \in q.del \cup q.gone

\* Rows were committed after they were planned, and by now.
RowsDated == \A u \in Users : \A r \in Has(u) :
  table[u][r].from <= table[u][r].to /\ table[u][r].to <= clock

\* No row is written by two open transactions.
LocksApart == \A p, q \in Handlers :
  p # q /\ req[p].who = req[q].who => req[p].held \cap req[q].held = {}

Inv ==
  /\ TypeOK
  /\ \A p \in Handlers : Coherent(req[p]) /\ Informed(req[p])
  /\ RowsDated
  /\ LocksApart
  /\ DuplicatesOverlap

-----------------------------------------------------------------------------
\* A request that has just opened a transaction is sound, and has written nothing.
Fresh(q) == q \in Requests /\ Coherent(q) /\ ~ Writing(q) /\ q.from = 0 /\ q.held = {}

LEMMA OpenFacts ==
  ASSUME NEW pc \in {"idle", "roles", "check"}, NEW kind \in {"roles", "view", "assign", "remove"},
         NEW by \in Users \cup {NoUser}, NEW on \in Users \cup {NoUser},
         NEW role \in Roles \cup {NoRole}, NEW stage \in 1..3,
         NEW who \in Users \cup {NoUser}, NEW t \in Nat,
         pc # "idle" => by \in Users /\ on \in Users /\ who \in Users,
         pc # "idle" /\ kind \in {"assign", "remove"} => role \in Roles,
         pc = "check" => stage = 2 /\ who = on,
         pc = "roles" => stage = 1 \/ kind = "view"
  PROVE  Fresh(Open(pc, kind, by, on, role, stage, who, t))
  <1> DEFINE new == Open(pc, kind, by, on, role, stage, who, t)
  <1>1. new \in Requests
    BY DEF Open, Requests
  <1>2. /\ new.pc = pc /\ new.kind = kind /\ new.by = by /\ new.on = on
        /\ new.role = role /\ new.stage = stage /\ new.who = who
        /\ new.from = 0 /\ new.held = {} /\ new.gone = {} /\ new.added = NoRole
    BY DEF Open
  <1> HIDE DEF new
  <1>3. Coherent(new) /\ ~ Writing(new)
    BY <1>2 DEF Coherent, Writing
  <1> QED BY <1>1, <1>2, <1>3 DEF new, Fresh

\* An idle request is well formed.
LEMMA IdleFacts == Fresh(Idle)
  <1>1. Idle \in Requests
    BY DEF Idle, Open, Requests
  <1>2. Idle.pc = "idle" /\ Idle.from = 0 /\ Idle.held = {} /\ Idle.gone = {} /\ Idle.added = NoRole
    BY DEF Idle, Open
  <1>3. Coherent(Idle) /\ ~ Writing(Idle)
    BY <1>2 DEF Coherent, Writing
  <1> QED BY <1>1, <1>2, <1>3 DEF Fresh

\* A request that goes on after get_user_roles is well formed and has written
\* nothing of its target yet.
LEMMA ReturnedFacts ==
  ASSUME NEW q \in Requests, Coherent(q), q.pc # "idle", NEW roles, NEW t \in Nat
  PROVE  Fresh(Returned(q, roles, t))
  <1> DEFINE allowed == ADMIN \in roles \/ q.by \in Supers
             go(pc) == Open(pc, q.kind, q.by, q.on, q.role, 2, q.on, t)
  <1>1. /\ q.by \in Users /\ q.on \in Users
        /\ q.kind \in {"roles", "view", "assign", "remove"} /\ q.role \in Roles \cup {NoRole}
        /\ q.kind \in {"assign", "remove"} => q.role \in Roles
    BY DEF Coherent, Requests
  <1>2. CASE q.kind \in {"assign", "remove"} /\ allowed
    <2>1. Returned(q, roles, t) = go("check")
      BY <1>2 DEF Returned
    <2> QED BY <1>1, <1>2, <2>1, OpenFacts
  <1>3. CASE ~ (q.kind \in {"assign", "remove"} /\ allowed)
             /\ q.kind = "view" /\ q.stage = 1 /\ (q.on = q.by \/ allowed)
    <2>1. Returned(q, roles, t) = go("roles")
      BY <1>3 DEF Returned
    <2>2. q.kind = "view"
      BY <1>3
    <2>3. Fresh(go("roles"))
      BY <1>1, <2>2, OpenFacts
    <2> QED BY <2>1, <2>3
  <1>4. CASE ~ (q.kind \in {"assign", "remove"} /\ allowed)
             /\ ~ (q.kind = "view" /\ q.stage = 1 /\ (q.on = q.by \/ allowed))
    BY <1>4, IdleFacts DEF Returned
  <1> QED BY <1>2, <1>3, <1>4

\* A step that leaves the table alone and takes one request to a sound state
\* keeps the invariant.
LEMMA MoveKeeps ==
  ASSUME Inv, NEW p \in Handlers, NEW new \in Requests,
         req' = [req EXCEPT ![p] = new], Coherent(new), Informed(new),
         \A q \in Handlers \ {p} : req[q].who = new.who => req[q].held \cap new.held = {},
         table' = table, clock' \in Nat, clock <= clock',
         assigns' \in 0..MaxAssigns, faults' \in 0..MaxFaults
  PROVE  Inv'
  <1>1. TypeOK'
    BY DEF Inv, TypeOK
  <1>2. req'[p] = new /\ \A q \in Handlers \ {p} : req'[q] = req[q]
    BY DEF Inv, TypeOK
  <1>3. \A u : Has(u)' = Has(u)
    BY DEF Has
  <1>4. \A q \in Requests : Informed(q) => Informed(q)'
    BY <1>3 DEF Inv, TypeOK, Requests, Informed, Writing
  <1>5. \A q \in Handlers : req[q] \in Requests
    BY DEF Inv, TypeOK
  <1>6. \A q \in Handlers : (Coherent(req[q]) /\ Informed(req[q]))'
    BY <1>2, <1>4, <1>5 DEF Inv, Coherent, Writing
  <1>7. RowsDated'
    BY <1>3 DEF Inv, RowsDated, TypeOK, Rows, Has
  <1>8. LocksApart'
    BY <1>2 DEF Inv, LocksApart
  <1>9. DuplicatesOverlap'
    BY <1>3 DEF Inv, DuplicatesOverlap, Overlap, Old
  <1> QED BY <1>1, <1>6, <1>7, <1>8, <1>9 DEF Inv

\* In particular a step to a state that writes nothing yet and holds no lock.
LEMMA ResetKeeps ==
  ASSUME Inv, NEW p \in Handlers, NEW new,
         req' = [req EXCEPT ![p] = new], Fresh(new),
         table' = table, clock' \in Nat, clock <= clock',
         assigns' \in 0..MaxAssigns, faults' \in 0..MaxFaults
  PROVE  Inv'
  <1>1. Informed(new)
    BY DEF Inv, TypeOK, Informed, Fresh
  <1> QED BY <1>1, MoveKeeps DEF Fresh

\* Most steps change nothing but the request.
Quiet == UNCHANGED <<table, clock, assigns, faults>>

LEMMA QuietLockKeeps ==
  ASSUME Inv, NEW p \in Handlers, NEW new \in Requests, Quiet,
         req' = [req EXCEPT ![p] = new], Coherent(new), Informed(new),
         \A q \in Handlers \ {p} : req[q].who = new.who => req[q].held \cap new.held = {}
  PROVE  Inv'
  <1>1. /\ clock' \in Nat /\ clock <= clock' /\ table' = table
        /\ assigns' \in 0..MaxAssigns /\ faults' \in 0..MaxFaults
    BY DEF Quiet, Inv, TypeOK
  <1> QED BY <1>1, MoveKeeps

LEMMA QuietKeeps ==
  ASSUME Inv, NEW p \in Handlers, NEW new \in Requests, Quiet,
         req' = [req EXCEPT ![p] = new], Coherent(new), Informed(new), new.held = {}
  PROVE  Inv'
  <1>1. \A q \in Handlers \ {p} : req[q].who = new.who => req[q].held \cap new.held = {}
    OBVIOUS
  <1> QED BY <1>1, QuietLockKeeps

LEMMA QuietResetKeeps ==
  ASSUME Inv, NEW p \in Handlers, NEW new, Quiet,
         req' = [req EXCEPT ![p] = new], Fresh(new)
  PROVE  Inv'
  <1>1. /\ clock' \in Nat /\ clock <= clock' /\ table' = table
        /\ assigns' \in 0..MaxAssigns /\ faults' \in 0..MaxFaults
    BY DEF Quiet, Inv, TypeOK
  <1> QED BY <1>1, ResetKeeps

-----------------------------------------------------------------------------
\* One lemma per action.

\* A new request reads the roles of its caller first.
LEMMA StartKeeps ==
  ASSUME Inv, NEW p \in Handlers,
         Start(p) \/ \E u \in Users : StartRoles(p, u)
  PROVE  Inv'
  <1>0. clock \in Nat /\ assigns \in 0..MaxAssigns /\ faults \in 0..MaxFaults
    BY DEF Inv, TypeOK
  <1>1. ASSUME NEW u \in Users, StartRoles(p, u) PROVE Inv'
    <2>1. Fresh(Open("roles", "roles", u, u, NoRole, 1, u, 0))
      BY OpenFacts
    <2> QED BY <1>1, <2>1, QuietResetKeeps DEF StartRoles, Quiet
  <1>2. ASSUME NEW by \in Users, NEW on \in Users, StartView(p, by, on) PROVE Inv'
    <2>1. Fresh(Open("roles", "view", by, on, NoRole, 1, by, 0))
      BY OpenFacts
    <2> QED BY <1>2, <2>1, QuietResetKeeps DEF StartView, Quiet
  <1>3. ASSUME NEW by \in Users, NEW on \in Users, NEW role \in Roles,
               StartRemove(p, by, on, role)
        PROVE  Inv'
    <2>1. Fresh(Open("roles", "remove", by, on, role, 1, by, 0))
      BY OpenFacts
    <2> QED BY <1>3, <2>1, QuietResetKeeps DEF StartRemove, Quiet
  <1>4. ASSUME NEW by \in Users, NEW on \in Users, NEW role \in Roles,
               StartAssign(p, by, on, role)
        PROVE  Inv'
    <2>1. Fresh(Open("roles", "assign", by, on, role, 1, by, clock + 1))
      BY <1>0, OpenFacts
    <2>2. assigns' \in 0..MaxAssigns /\ clock' \in Nat /\ clock <= clock'
      BY <1>0, <1>4, BoundsAssumption DEF StartAssign
    <2> QED BY <1>0, <1>4, <2>1, <2>2, ResetKeeps DEF StartAssign
  <1> QED BY <1>1, <1>2, <1>3, <1>4 DEF Start

\* A request that is cut off, or ends without writing, forgets everything.
LEMMA EndKeeps ==
  ASSUME Inv, NEW p \in Handlers, req' = [req EXCEPT ![p] = Idle],
         UNCHANGED <<table, clock, assigns>>, faults' \in 0..MaxFaults
  PROVE  Inv'
  <1>1. /\ clock' \in Nat /\ clock <= clock' /\ table' = table
        /\ assigns' \in 0..MaxAssigns
    BY DEF Inv, TypeOK
  <1> QED BY <1>1, IdleFacts, ResetKeeps

\* get_user_roles answers, or sets out to delete what is surplus.
LEMMA SelectRolesKeeps ==
  ASSUME Inv, NEW p \in Handlers, SelectRoles(p)
  PROVE  Inv'
  <1> DEFINE q == req[p]
             has == Has(q.who)
  <1>1. /\ q \in Requests /\ Coherent(q) /\ q.pc = "roles"
        /\ clock \in Nat /\ assigns \in 0..MaxAssigns /\ faults \in 0..MaxFaults
    BY DEF Inv, TypeOK, SelectRoles
  <1>2. CASE Cardinality(has) <= 1 /\ q.kind = "view" /\ q.stage = 2
    <2> DEFINE new == [q EXCEPT !.stage = 3]
    <2>1. req' = [req EXCEPT ![p] = new]
      BY <1>2 DEF SelectRoles
    <2>2. new \in Requests
      BY <1>1 DEF Requests
    <2>3. Coherent(new) /\ ~ Writing(new) /\ new.held = {}
      BY <1>1, <1>2 DEF Requests, Coherent, Writing
    <2>4. Informed(new)
      BY <1>1, <2>3 DEF Requests, Inv, Informed
    <2> QED BY <2>1, <2>2, <2>3, <2>4, QuietKeeps DEF SelectRoles, Quiet
  <1>3. CASE Cardinality(has) <= 1 /\ ~ (q.kind = "view" /\ q.stage = 2)
    <2>1. req' = [req EXCEPT ![p] = Returned(q, has, q.began)]
      BY <1>3 DEF SelectRoles
    <2>2. Fresh(Returned(q, has, q.began))
      BY <1>1, ReturnedFacts DEF Requests
    <2> QED BY <2>1, <2>2, QuietResetKeeps DEF SelectRoles, Quiet
  <1>4. CASE ~ Cardinality(has) <= 1
    <2>1. PICK r \in Newest(q.who) :
            req' = [req EXCEPT ![p] =
              [q EXCEPT !.pc = "delete", !.del = has \ {r}, !.kept = {r}]]
      BY <1>4 DEF SelectRoles
    <2> DEFINE new == [q EXCEPT !.pc = "delete", !.del = has \ {r}, !.kept = {r}]
    <2>2. r \in Roles /\ has \subseteq Roles
      BY DEF Newest, Has
    <2>3. new \in Requests
      BY <1>1, <2>2 DEF Requests
    <2>4. ~ Writing(new)
      BY <1>1 DEF Writing, Coherent, Requests
    <2>5. Coherent(new) /\ new.held = {}
      BY <1>1, <2>4 DEF Coherent, Writing, Requests
    <2>6. Informed(new)
      BY <2>4, <1>1 DEF Inv, Informed, Requests
    <2> QED BY <2>1, <2>3, <2>5, <2>6, QuietKeeps DEF SelectRoles, Quiet
  <1> QED BY <1>2, <1>3, <1>4

\* The check before an assignment changes the request's place at most.
LEMMA CheckAssignKeeps ==
  ASSUME Inv, NEW p \in Handlers, CheckAssign(p)
  PROVE  Inv'
  <1> DEFINE q == req[p]
             new == [q EXCEPT !.pc = "read"]
  <1>1. /\ q \in Requests /\ Coherent(q) /\ Informed(q) /\ q.pc = "check" /\ q.kind = "assign"
        /\ clock \in Nat /\ assigns \in 0..MaxAssigns /\ faults \in 0..MaxFaults
    BY DEF Inv, TypeOK, CheckAssign
  <1>2. CASE q.role \in Has(q.on)
    BY <1>1, <1>2, EndKeeps DEF CheckAssign
  <1>3. CASE q.role \notin Has(q.on)
    <2>1. new \in Requests /\ Coherent(new) /\ Informed(new) /\ new.held = {}
      BY <1>1 DEF Requests, Coherent, Writing, Informed
    <2>2. req' = [req EXCEPT ![p] = new]
      BY <1>3 DEF CheckAssign
    <2> HIDE DEF new
    <2> QED BY <2>1, <2>2, QuietKeeps DEF CheckAssign, Quiet
  <1> QED BY <1>2, <1>3

\* An assignment reads the rows it is to replace: all there are.
LEMMA ReadExistingKeeps ==
  ASSUME Inv, NEW p \in Handlers, ReadExisting(p)
  PROVE  Inv'
  <1> DEFINE q == req[p]
             point == IF q.role \in Has(q.on) THEN "delete" ELSE "insert"
             new == [q EXCEPT !.pc = point, !.del = Has(q.on) \ {q.role}, !.from = clock]
  <1>1. /\ q \in Requests /\ Coherent(q) /\ q.pc = "read"
        /\ clock \in Nat /\ assigns \in 0..MaxAssigns /\ faults \in 0..MaxFaults
    BY DEF Inv, TypeOK, ReadExisting
  <1>2. req' = [req EXCEPT ![p] = new]
    BY DEF ReadExisting
  <1>3. new \in Requests
    BY <1>1 DEF Requests, Has
  <1>4. /\ new.pc = point /\ new.del = Has(q.on) \ {q.role} /\ new.from = clock
        /\ new.kind = q.kind /\ new.by = q.by /\ new.on = q.on /\ new.role = q.role
        /\ new.stage = q.stage /\ new.who = q.who /\ new.gone = q.gone
        /\ new.added = q.added /\ new.held = q.held
    BY <1>1 DEF Requests
  <1>5. point \in {"insert", "delete"}
    OBVIOUS
  <1> HIDE DEF new, point
  <1>6. Coherent(new) /\ new.held = {}
    BY <1>1, <1>4, <1>5 DEF Coherent, Writing
  <1>7. Informed(new)
    BY <1>1, <1>4, <1>5 DEF Informed
  <1> QED BY <1>2, <1>3, <1>6, <1>7, QuietKeeps DEF ReadExisting, Quiet

\* A removal is to delete the row it found.
LEMMA CheckRemoveKeeps ==
  ASSUME Inv, NEW p \in Handlers, CheckRemove(p)
  PROVE  Inv'
  <1> DEFINE q == req[p]
             new == [q EXCEPT !.pc = "delete", !.del = {q.role}]
  <1>1. /\ q \in Requests /\ Coherent(q) /\ Informed(q) /\ q.pc = "check" /\ q.kind = "remove"
        /\ clock \in Nat /\ assigns \in 0..MaxAssigns /\ faults \in 0..MaxFaults
    BY DEF Inv, TypeOK, CheckRemove
  <1>2. CASE q.role \in Has(q.on)
    <2>1. new \in Requests /\ Coherent(new) /\ Informed(new) /\ new.held = {}
      BY <1>1, <1>2 DEF Requests, Coherent, Writing, Informed, Has
    <2>2. req' = [req EXCEPT ![p] = new]
      BY <1>2 DEF CheckRemove
    <2> HIDE DEF new
    <2> QED BY <2>1, <2>2, QuietKeeps DEF CheckRemove, Quiet
  <1>3. CASE q.role \notin Has(q.on)
    BY <1>1, <1>3, EndKeeps DEF CheckRemove
  <1> QED BY <1>2, <1>3

\* A new row is written only where no other transaction has written.
LEMMA InsertRowKeeps ==
  ASSUME Inv, NEW p \in Handlers, InsertRow(p)
  PROVE  Inv'
  <1> DEFINE q == req[p]
             new == [q EXCEPT !.pc = "delete", !.added = q.role, !.held = {q.role}]
  <1>1. /\ q \in Requests /\ Coherent(q) /\ Informed(q) /\ q.pc = "insert"
        /\ clock \in Nat /\ assigns \in 0..MaxAssigns /\ faults \in 0..MaxFaults
        /\ clock' = clock /\ assigns' = assigns /\ faults' = faults /\ table' = table
    BY DEF Inv, TypeOK, InsertRow
  <1>2. CASE q.role \in Has(q.on)
    BY <1>1, <1>2, EndKeeps DEF InsertRow
  <1>3. CASE q.role \notin Has(q.on)
    <2>1. req' = [req EXCEPT ![p] = new]
      BY <1>3 DEF InsertRow
    <2>2. q.role \in Roles /\ q.who = q.on /\ q.stage = 2 /\ q.kind = "assign"
      BY <1>1 DEF Coherent
    <2>3. new \in Requests
      BY <1>1, <2>2 DEF Requests
    <2>4. Coherent(new)
      BY <1>1, <2>2 DEF Requests, Coherent, Writing
    <2>5. Informed(new)
      BY <1>1, <2>2 DEF Requests, Informed, Writing
    <2>6. \A o \in Handlers \ {p} : req[o].who = new.who => req[o].held \cap new.held = {}
      <3>1. Wanted(p) = {q.role}
        BY <1>1 DEF Wanted
      <3>2. new.held = {q.role} /\ new.who = q.who
        BY <1>1 DEF Requests
      <3> QED BY <3>1, <3>2 DEF InsertRow, MustWait, WaitsFor
    <2> HIDE DEF new
    <2> QED BY <2>1, <2>3, <2>4, <2>5, <2>6, QuietLockKeeps DEF InsertRow, Quiet
  <1> QED BY <1>2, <1>3

\* Nor deleted; a row that is not there any more is not locked either.
LEMMA DeleteRowKeeps ==
  ASSUME Inv, NEW p \in Handlers, DeleteRow(p)
  PROVE  Inv'
  <1> DEFINE q == req[p]
  <1>1. /\ q \in Requests /\ Coherent(q) /\ Informed(q) /\ q.pc = "delete"
        /\ clock \in Nat /\ assigns \in 0..MaxAssigns /\ faults \in 0..MaxFaults
        /\ clock' = clock /\ assigns' = assigns /\ faults' = faults /\ table' = table
    BY DEF Inv, TypeOK, DeleteRow
  <1> DEFINE Hit(r) == {r} \cap Has(q.who)
             New(r) == [q EXCEPT !.del = @ \ {r}, !.gone = @ \cup Hit(r),
                                 !.held = @ \cup Hit(r)]
  <1>2. PICK r \in Least(q.del) : req' = [req EXCEPT ![p] = New(r)]
    BY DEF DeleteRow
  <1> DEFINE hit == Hit(r)
             new == New(r)
  <1>3. r \in q.del /\ r \in Roles /\ hit \subseteq {r} /\ hit \subseteq Roles
    BY <1>1 DEF Requests, Least
  <1>4. new \in Requests
    BY <1>1, <1>3 DEF Requests
  <1>5. /\ new.pc = q.pc /\ new.kind = q.kind /\ new.by = q.by /\ new.on = q.on
        /\ new.role = q.role /\ new.stage = q.stage /\ new.who = q.who /\ new.from = q.from
        /\ new.added = q.added /\ new.del = q.del \ {r}
        /\ new.gone = q.gone \cup hit /\ new.held = q.held \cup hit
    BY <1>1 DEF Requests
  <1>6. req' = [req EXCEPT ![p] = new]
    BY <1>2
  <1> HIDE DEF new
  <1>7. Writing(new) <=> Writing(q)
    BY <1>5 DEF Writing
  <1>8. Coherent(new)
    BY <1>1, <1>3, <1>5, <1>7 DEF Coherent
  <1>9. Informed(new)
    BY <1>1, <1>5, <1>7 DEF Informed, Coherent
  <1>10. \A o \in Handlers \ {p} : req[o].who = new.who => req[o].held \cap new.held = {}
    <2>1. hit \subseteq Wanted(p)
      BY <1>1, <1>2 DEF Wanted
    <2>2. \A o \in Handlers \ {p} : req[o].who = q.who =>
            req[o].held \cap hit = {} /\ req[o].held \cap q.held = {}
      BY <2>1 DEF DeleteRow, MustWait, WaitsFor, Inv, LocksApart
    <2> QED BY <1>5, <2>2
  <1> QED BY <1>4, <1>6, <1>8, <1>9, <1>10, QuietLockKeeps DEF DeleteRow, Quiet

\* A commit takes away rows that it had locked and adds at most one, planned
\* when every row not deleted was yet to be committed.
LEMMA CommitKeeps ==
  ASSUME Inv, NEW p \in Handlers, Commit(p)
  PROVE  Inv'
  <1> DEFINE q == req[p]
             row == [at |-> q.began, from |-> q.from, to |-> clock + 1]
             t == IF q.kind = "assign" THEN clock + 1 ELSE 0
             next == IF Cleanup(q) THEN Returned(q, q.kept, t) ELSE Idle
  <1>1. /\ q \in Requests /\ Coherent(q) /\ Informed(q) /\ q.pc = "delete" /\ q.del = {}
        /\ clock \in Nat /\ assigns' = assigns /\ faults' = faults
    BY DEF Inv, TypeOK, Commit
  <1>2. q.who \in Users /\ q.gone \subseteq Roles /\ q.added \in Roles \cup {NoRole}
    BY <1>1 DEF Coherent, Requests
  <1>3. Fresh(next)
    BY <1>1, ReturnedFacts, IdleFacts
  <1>4. req' = [req EXCEPT ![p] = next]
    BY DEF Commit
  <1>5. req'[p] = next /\ \A o \in Handlers \ {p} : req'[o] = req[o]
    BY <1>4 DEF Inv, TypeOK
  <1> HIDE DEF next
  <1>6. clock' \in Nat /\ clock <= clock' /\ (q.added # NoRole => clock' = clock + 1)
    BY <1>1 DEF Commit, Coherent, Writing
  <1>7. row \in Rows
    BY <1>1 DEF Rows, Requests
  <1>8. /\ table' \in [Users -> [Roles -> Rows \cup {NoRow}]]
        /\ \A u \in Users \ {q.who} : table'[u] = table[u]
        /\ \A r \in Roles : table'[q.who][r] =
             IF r = q.added THEN row ELSE IF r \in q.gone THEN NoRow ELSE table[q.who][r]
    <2> DEFINE rows == [r \in Roles |->
                 IF r = q.added THEN row ELSE IF r \in q.gone THEN NoRow ELSE table[q.who][r]]
    <2>1. table' = [table EXCEPT ![q.who] = rows]
      BY DEF Commit, Written
    <2>2. table \in [Users -> [Roles -> Rows \cup {NoRow}]]
      BY DEF Inv, TypeOK
    <2>3. rows \in [Roles -> Rows \cup {NoRow}]
      BY <1>2, <1>7, <2>2
    <2>4. \A r \in Roles : rows[r] =
            IF r = q.added THEN row ELSE IF r \in q.gone THEN NoRow ELSE table[q.who][r]
      OBVIOUS
    <2> HIDE DEF rows
    <2> QED BY <1>2, <2>1, <2>2, <2>3, <2>4
  <1> HIDE DEF row
  \* What becomes of the rows, one by one.
  <1>9. row # NoRow /\ row.from = q.from /\ row.to = clock + 1
    BY <1>7, RowAssumption DEF row, Rows
  <1>10. ASSUME NEW u \in Users, NEW r \in Has(u)'
         PROVE  /\ r \in Roles
                /\ \/ r \in Has(u) /\ table'[u][r] = table[u][r]
                      /\ (u = q.who => r \notin q.gone)
                   \/ u = q.who /\ r = q.added /\ table'[u][r] = row
    BY <1>8 DEF Has
  <1>11. TypeOK'
    BY <1>1, <1>3, <1>4, <1>6, <1>8 DEF Inv, TypeOK, Fresh
  <1>12. RowsDated'
    <2> SUFFICES ASSUME NEW u \in Users, NEW r \in Has(u)'
                 PROVE  table'[u][r].from <= table'[u][r].to /\ table'[u][r].to <= clock'
      BY DEF RowsDated
    <2>1. CASE r \in Has(u) /\ table'[u][r] = table[u][r]
      <3>1. /\ table[u][r].from <= table[u][r].to /\ table[u][r].to <= clock
            /\ table[u][r].to \in Nat
        BY <2>1 DEF Inv, RowsDated, TypeOK, Rows, Has
      <3> QED BY <1>1, <1>6, <2>1, <3>1
    <2>2. CASE u = q.who /\ r = q.added /\ table'[u][r] = row
      <3>1. r # NoRole
        BY <1>10, RolesAssumption
      <3>2. q.from <= clock /\ q.from \in Nat
        BY <1>1 DEF Informed, Requests
      <3> QED BY <1>1, <1>6, <1>9, <2>2, <3>1, <3>2
    <2> QED BY <1>10, <2>1, <2>2
  <1>13. LocksApart'
    BY <1>3, <1>5 DEF Inv, LocksApart, Fresh
  <1>14. (\A o \in Handlers : Coherent(req[o]) /\ Informed(req[o]))'
    <2>1. Coherent(req[p])' /\ Informed(req[p])'
      <3>1. Coherent(req[p])'
        BY <1>3, <1>5 DEF Fresh, Coherent, Writing
      <3>2. ~ Writing(req[p])' /\ req'[p].from = 0
        BY <1>3, <1>5 DEF Fresh, Writing
      <3> QED BY <1>6, <3>1, <3>2 DEF Informed
    <2>2. ASSUME NEW o \in Handlers \ {p} PROVE Coherent(req[o])' /\ Informed(req[o])'
      <3>1. PICK w \in Requests : w = req[o] /\ req'[o] = w /\ Coherent(w) /\ Informed(w)
        BY <1>5 DEF Inv, TypeOK
      <3>2. Coherent(req[o])'
        BY <3>1 DEF Coherent, Writing
      <3>3. w.from \in Nat /\ w.from <= clock
        BY <3>1 DEF Informed, Requests
      <3>4. ASSUME Writing(w), NEW r \in Has(w.on)' \ {w.role}, table'[w.on][r].to <= w.from
            PROVE  r \in w.del \cup w.gone
        <4>1. w.on \in Users
          BY <3>1, <3>4 DEF Coherent, Writing
        <4>2. CASE r \in Has(w.on) /\ table'[w.on][r] = table[w.on][r]
          BY <3>1, <3>4, <4>2 DEF Informed
        <4>3. CASE table'[w.on][r] = row
          BY <1>1, <1>9, <3>3, <3>4, <4>3
        <4> QED BY <1>10, <4>1, <4>2, <4>3
      <3>5. Informed(req[o])'
        <4>1. w.from <= clock'
          BY <1>1, <1>6, <3>3
        <4> QED BY <3>1, <3>4, <4>1 DEF Informed, Writing
      <3> QED BY <3>2, <3>5
    <2> QED BY <2>1, <2>2
  <1>15. DuplicatesOverlap'
    <2> SUFFICES ASSUME NEW u \in Users, NEW r \in Has(u)', NEW s \in Has(u)', r # s
                 PROVE  \/ Overlap(table'[u][r], table'[u][s])
                        \/ Old(table'[u][r]) /\ Old(table'[u][s])
      BY DEF DuplicatesOverlap, Overlap, Old
    <2> DEFINE Stays(x) == /\ x \in Has(u) /\ table'[u][x] = table[u][x]
                           /\ (u = q.who => x \notin q.gone)
               Comes(x) == u = q.who /\ x = q.added /\ table'[u][x] = row
    <2>1. r \in Roles /\ s \in Roles /\ (Stays(r) \/ Comes(r)) /\ (Stays(s) \/ Comes(s))
      BY <1>10
    <2>2. CASE Stays(r) /\ Stays(s)
      BY <2>2 DEF Inv, DuplicatesOverlap
    <2>3. ASSUME NEW x \in Roles, NEW y \in Roles, x # y, Stays(x), Comes(y)
          PROVE  Overlap(table'[u][x], table'[u][y])
      <3>1. y # NoRole
        BY RolesAssumption
      <3>2. Writing(q) /\ q.role = y /\ q.on = u
        BY <1>1, <2>3, <3>1 DEF Coherent
      <3>3. ~ (table[u][x].to <= q.from)
        BY <1>1, <2>3, <3>2 DEF Informed
      <3>4. /\ table[u][x].to \in Nat /\ table[u][x].from \in Nat
            /\ table[u][x].from <= table[u][x].to /\ table[u][x].to <= clock
        BY <2>3 DEF Inv, RowsDated, TypeOK, Rows, Has
      <3>5. q.from \in Nat
        BY <1>1 DEF Requests
      <3>6. table[u][x].from < clock + 1 /\ q.from < table[u][x].to
        BY <1>1, <3>3, <3>4, <3>5
      <3> QED BY <1>9, <2>3, <3>6 DEF Overlap
    <2> HIDE DEF Stays, Comes
    <2>4. CASE Stays(r) /\ Comes(s)
      BY <2>1, <2>3, <2>4
    <2>5. CASE Comes(r) /\ Stays(s)
      <3>1. Overlap(table'[u][s], table'[u][r])
        BY <2>1, <2>3, <2>5
      <3> QED BY <3>1 DEF Overlap
    <2>6. ~ (Comes(r) /\ Comes(s))
      BY DEF Comes
    <2> QED BY <2>1, <2>2, <2>4, <2>5, <2>6 DEF Stays
  <1> QED BY <1>11, <1>12, <1>13, <1>14, <1>15 DEF Inv

-----------------------------------------------------------------------------
\* The theorems.

\* The invariant holds at the start: every row is old and no request runs.
LEMMA InitHolds == Init => Inv
  <1> SUFFICES ASSUME Init PROVE Inv
    OBVIOUS
  <1> DEFINE old == [at |-> 0, from |-> 0, to |-> 0]
  <1>1. PICK roles \in [Users -> Initial] :
          table = [u \in Users |-> [r \in Roles |-> IF r \in roles[u] THEN old ELSE NoRow]]
    BY DEF Init
  <1>2. old \in Rows /\ old.from = 0 /\ old.to = 0
    BY DEF Rows
  <1> HIDE DEF old
  <1>3. \A u \in Users : \A r \in Has(u) : table[u][r] = old
    BY <1>1 DEF Has
  <1>4. TypeOK
    <2>1. table \in [Users -> [Roles -> Rows \cup {NoRow}]]
      BY <1>1, <1>2
    <2>2. req \in [Handlers -> Requests]
      BY IdleFacts DEF Init, Fresh
    <2> QED BY <2>1, <2>2, BoundsAssumption DEF Init, TypeOK
  <1>5. \A p \in Handlers : Coherent(req[p]) /\ Informed(req[p])
    BY IdleFacts DEF Init, Fresh, Informed
  <1>6. RowsDated /\ DuplicatesOverlap
    <2>1. RowsDated
      <3>1. clock = 0
        BY DEF Init
      <3>2. old.from <= old.to /\ old.to <= clock
        BY <1>2, <3>1
      <3> QED BY <1>3, <3>2 DEF RowsDated
    <2>2. DuplicatesOverlap
      BY <1>2, <1>3 DEF DuplicatesOverlap, Old
    <2> QED BY <2>1, <2>2
  <1>7. LocksApart
    BY IdleFacts DEF Init, LocksApart, Fresh
  <1> QED BY <1>4, <1>5, <1>6, <1>7 DEF Inv

\* Every step keeps the invariant.
LEMMA StepKeeps == Inv /\ [Next]_vars => Inv'
  <1> SUFFICES ASSUME Inv, [Next]_vars PROVE Inv'
    OBVIOUS
  <1>1. CASE UNCHANGED vars
    BY <1>1 DEF vars, Inv, TypeOK, Coherent, Informed, Writing, RowsDated, LocksApart,
                DuplicatesOverlap, Overlap, Old, Has
  <1>2. ASSUME NEW p \in Handlers, Start(p) \/ \E u \in Users : StartRoles(p, u)
        PROVE  Inv'
    BY <1>2, StartKeeps
  <1>3. ASSUME NEW p \in Handlers, Step(p) PROVE Inv'
    BY <1>3, SelectRolesKeeps, CheckAssignKeeps, ReadExistingKeeps, CheckRemoveKeeps,
       InsertRowKeeps, DeleteRowKeeps, CommitKeeps DEF Step
  <1>4. ASSUME NEW p \in Handlers, Abort(p) PROVE Inv'
    <2>1. faults' \in 0..MaxFaults
      BY <1>4, BoundsAssumption DEF Abort, Inv, TypeOK
    <2> QED BY <1>4, <2>1, EndKeeps DEF Abort
  <1> QED BY <1>1, <1>2, <1>3, <1>4 DEF Next

\* The invariant holds in every state of every behaviour.
LEMMA Invariance == Spec => []Inv
  BY InitHolds, StepKeeps, PTL DEF Spec

\* Rows, requests and counters keep their types, for any users and roles.
THEOREM RolesTypes == Spec => []TypeOK
  <1>1. Inv => TypeOK
    BY DEF Inv
  <1> QED BY <1>1, Invariance, PTL

\* Without a lock, assign_role still leaves a user two roles only when the
\* assignments overlapped: each read the rows to replace before the other committed.
THEOREM TwoRolesNeedOverlap == Spec => []DuplicatesOverlap
  <1>1. Inv => DuplicatesOverlap
    BY DEF Inv
  <1> QED BY <1>1, Invariance, PTL


-----------------------------------------------------------------------------
\* Why requests never deadlock: what a transaction has locked lies below what it has
\* still to delete, but for the row that it has inserted.
Ordered(q) ==
  /\ \A r \in q.gone, s \in q.del : r < s
  /\ \A r \in q.held : r \in q.gone \/ r = q.added

\* A row that has been inserted and not committed is one nobody sees.
Hidden(q) == q.added # NoRole => q.added \notin Has(q.on)

Orderly == \A p \in Handlers : Ordered(req[p]) /\ Hidden(req[p])

\* A step of one request that leaves the table alone keeps the order of the others.
Moves(p) == table' = table /\ \A o \in Handlers \ {p} : req'[o] = req[o]

LEMMA MoveKeepsOrder ==
  ASSUME Orderly, NEW p \in Handlers, Moves(p), (Ordered(req[p]) /\ Hidden(req[p]))'
  PROVE  Orderly'
  <1> SUFFICES ASSUME NEW o \in Handlers PROVE (Ordered(req[o]) /\ Hidden(req[o]))'
    BY DEF Orderly
  <1>1. CASE o = p
    BY <1>1
  <1>2. CASE o # p
    <2>1. req'[o] = req[o] /\ Has(req[o].on)' = Has(req[o].on)
      BY <1>2 DEF Moves, Has
    <2> QED BY <2>1 DEF Orderly, Ordered, Hidden, Writing
  <1> QED BY <1>1, <1>2

\* A request that holds no lock has nothing to put in order.
LEMMA EmptyHands ==
  ASSUME NEW q, Coherent(q), q.held = {}
  PROVE  Ordered(q) /\ Hidden(q)
  <1>1. q.gone = {}
    BY DEF Coherent
  <1>2. q.added = NoRole
    BY DEF Coherent, Writing
  <1> QED BY <1>1, <1>2 DEF Ordered, Hidden

\* Steps after which the request holds no lock.
Lockless(p) == Moves(p) /\ req'[p].held = {}

LEMMA LocklessSteps ==
  ASSUME Inv, NEW p \in Handlers,
         \/ Start(p) \/ \E u \in Users : StartRoles(p, u)
         \/ SelectRoles(p) \/ CheckAssign(p) \/ ReadExisting(p) \/ CheckRemove(p)
         \/ Abort(p)
  PROVE  Lockless(p)
  <1> DEFINE q == req[p]
  <1>1. q \in Requests /\ Coherent(q) /\ req \in [Handlers -> Requests]
    BY DEF Inv, TypeOK
  <1>2. ASSUME NEW new, req' = [req EXCEPT ![p] = new], table' = table, new.held = {}
        PROVE  Lockless(p)
    BY <1>1, <1>2 DEF Lockless, Moves
  <1>3. \A pc, kind, by, on, role, stage, who, t :
          Open(pc, kind, by, on, role, stage, who, t).held = {}
    BY DEF Open
  <1>4. Idle.held = {}
    BY <1>3 DEF Idle
  <1>5. \A roles, t : Returned(q, roles, t).held = {}
    BY <1>3, <1>4 DEF Returned
  <1>6. CASE Start(p) \/ \E u \in Users : StartRoles(p, u)
    BY <1>2, <1>3, <1>6 DEF Start, StartRoles, StartView, StartRemove, StartAssign
  <1>7. CASE SelectRoles(p)
    <2>1. q.held = {} /\ table' = table
      BY <1>1, <1>7 DEF SelectRoles, Coherent
    <2>2. \A x, y : [q EXCEPT !.stage = 3].held = {}
                    /\ [q EXCEPT !.pc = "delete", !.del = x, !.kept = y].held = {}
      BY <1>1, <2>1 DEF Requests
    <2>3. PICK new : req' = [req EXCEPT ![p] = new] /\ new.held = {}
      <3>1. CASE Cardinality(Has(q.who)) <= 1
        BY <1>5, <1>7, <2>2, <3>1 DEF SelectRoles
      <3>2. CASE ~ Cardinality(Has(q.who)) <= 1
        BY <1>7, <2>2, <3>2 DEF SelectRoles
      <3> QED BY <3>1, <3>2
    <2> QED BY <1>2, <2>1, <2>3
  <1>8. CASE CheckAssign(p)
    <2>1. [q EXCEPT !.pc = "read"].held = {} /\ table' = table
      BY <1>1, <1>8 DEF CheckAssign, Coherent, Requests
    <2>2. \/ req' = [req EXCEPT ![p] = Idle]
          \/ req' = [req EXCEPT ![p] = [q EXCEPT !.pc = "read"]]
      BY <1>8 DEF CheckAssign
    <2> QED BY <1>2, <1>4, <2>1, <2>2
  <1>9. CASE ReadExisting(p)
    <2>1. \A x, y, z : [q EXCEPT !.pc = x, !.del = y, !.from = z].held = {}
      BY <1>1, <1>9 DEF ReadExisting, Coherent, Requests
    <2> DEFINE new == [q EXCEPT !.pc = IF q.role \in Has(q.on) THEN "delete" ELSE "insert",
                                !.del = Has(q.on) \ {q.role}, !.from = clock]
    <2>2. table' = table /\ req' = [req EXCEPT ![p] = new] /\ new.held = {}
      BY <1>9, <2>1 DEF ReadExisting
    <2> HIDE DEF new
    <2> QED BY <1>2, <2>2
  <1>10. CASE CheckRemove(p)
    <2>1. table' = table
          /\ \A x : [q EXCEPT !.pc = "delete", !.del = x].held = {}
      BY <1>1, <1>10 DEF CheckRemove, Coherent, Requests
    <2>2. \/ req' = [req EXCEPT ![p] = Idle]
          \/ \E x : req' = [req EXCEPT ![p] = [q EXCEPT !.pc = "delete", !.del = x]]
      BY <1>10 DEF CheckRemove
    <2> QED BY <1>2, <1>4, <2>1, <2>2
  <1>11. CASE Abort(p)
    BY <1>2, <1>4, <1>11 DEF Abort
  <1> QED BY <1>6, <1>7, <1>8, <1>9, <1>10, <1>11

\* The first row locked is the one inserted, which nobody sees.
LEMMA InsertRowOrdered ==
  ASSUME Inv, NEW p \in Handlers, InsertRow(p)
  PROVE  Moves(p) /\ (Ordered(req[p]) /\ Hidden(req[p]))'
  <1> DEFINE q == req[p]
             new == [q EXCEPT !.pc = "delete", !.added = q.role, !.held = {q.role}]
  <1>1. /\ q \in Requests /\ Coherent(q) /\ req \in [Handlers -> Requests]
        /\ q.pc = "insert" /\ q.gone = {} /\ table' = table
    BY DEF Inv, TypeOK, InsertRow, Coherent
  <1>2. CASE q.role \in Has(q.on)
    <2>1. req'[p] = Idle /\ Moves(p)
      BY <1>1, <1>2 DEF InsertRow, Moves
    <2> QED BY <2>1, IdleFacts, EmptyHands DEF Fresh, Ordered, Hidden, Idle, Open
  <1>3. CASE q.role \notin Has(q.on)
    <2>1. req'[p] = new /\ Moves(p) /\ Has(q.on)' = Has(q.on)
      BY <1>1, <1>3 DEF InsertRow, Moves, Has
    <2>2. new.gone = {} /\ new.held = {q.role} /\ new.added = q.role /\ new.on = q.on
      BY <1>1 DEF Requests
    <2> HIDE DEF new
    <2> QED BY <1>3, <2>1, <2>2 DEF Ordered, Hidden
  <1> QED BY <1>2, <1>3

\* The next row deleted lies below those that remain.
LEMMA DeleteRowOrdered ==
  ASSUME Inv, Orderly, NEW p \in Handlers, DeleteRow(p)
  PROVE  Moves(p) /\ (Ordered(req[p]) /\ Hidden(req[p]))'
  <1> DEFINE q == req[p]
  <1>1. /\ q \in Requests /\ Ordered(q) /\ Hidden(q) /\ req \in [Handlers -> Requests]
        /\ table' = table
    BY DEF Inv, TypeOK, Orderly, DeleteRow
  <1> DEFINE Hit(r) == {r} \cap Has(q.who)
             New(r) == [q EXCEPT !.del = @ \ {r}, !.gone = @ \cup Hit(r),
                                 !.held = @ \cup Hit(r)]
  <1>2. PICK r \in Least(q.del) : req' = [req EXCEPT ![p] = New(r)]
    BY DEF DeleteRow
  <1> DEFINE hit == Hit(r)
             new == New(r)
  <1>3. /\ new.pc = q.pc /\ new.kind = q.kind /\ new.role = q.role /\ new.stage = q.stage
        /\ new.on = q.on /\ new.added = q.added /\ new.del = q.del \ {r}
        /\ new.gone = q.gone \cup hit /\ new.held = q.held \cup hit
    BY <1>1 DEF Requests
  <1>4. req'[p] = new /\ Moves(p) /\ Has(q.on)' = Has(q.on)
    BY <1>1, <1>2 DEF Moves, Has
  <1>5. hit \subseteq {r} /\ r \in q.del /\ r \in Nat /\ \A s \in q.del : r <= s /\ s \in Nat
    BY <1>1, RolesAssumption DEF Least, Requests
  <1> HIDE DEF new, hit
  <1>6. \A x \in new.gone, s \in new.del : x < s
    <2>1. \A s \in new.del : r < s
      BY <1>3, <1>5
    <2> QED BY <1>1, <1>3, <1>5, <2>1 DEF Ordered
  <1>7. \A x \in new.held : x \in new.gone \/ x = new.added
    BY <1>1, <1>3 DEF Ordered
  <1> QED BY <1>1, <1>3, <1>4, <1>6, <1>7 DEF Ordered, Hidden

\* A commit shows nobody the row that another transaction has inserted.
LEMMA CommitOrdered ==
  ASSUME Inv, Inv', Orderly, NEW p \in Handlers, Commit(p)
  PROVE  Orderly'
  <1> DEFINE q == req[p]
             t == IF q.kind = "assign" THEN clock + 1 ELSE 0
             next == IF Cleanup(q) THEN Returned(q, q.kept, t) ELSE Idle
  <1>1. /\ q \in Requests /\ Coherent(q) /\ q.pc = "delete" /\ req \in [Handlers -> Requests]
        /\ clock \in Nat /\ q.who \in Users /\ table \in [Users -> [Roles -> Rows \cup {NoRow}]]
    BY DEF Inv, TypeOK, Commit, Coherent
  <1>2. /\ \A o \in Handlers \ {p} : req'[o] = req[o]
        /\ req'[p] = next
    BY <1>1 DEF Commit
  <1>3. \A u \in Users : \A r \in Has(u)' : r \in Has(u) \/ (u = q.who /\ r = q.added)
    BY <1>1 DEF Commit, Written, Has
  <1> SUFFICES ASSUME NEW o \in Handlers PROVE (Ordered(req[o]) /\ Hidden(req[o]))'
    BY DEF Orderly
  <1>4. CASE o = p
    <2>1. Fresh(next)
      BY <1>1, ReturnedFacts, IdleFacts
    <2> HIDE DEF next
    <2>2. (Ordered(req[p]) /\ Hidden(req[p]))'
      <3>1. req'[p].held = {} /\ req'[p].gone = {} /\ req'[p].added = NoRole
        BY <1>2, <2>1 DEF Fresh, Coherent, Writing
      <3> QED BY <3>1 DEF Ordered, Hidden
    <2> QED BY <1>4, <2>2
  <1>5. CASE o # p
    <2>1. req'[o] = req[o] /\ Ordered(req[o]) /\ Hidden(req[o]) /\ Coherent(req[o])
      BY <1>2, <1>5 DEF Orderly, Inv
    <2>2. ASSUME req[o].added # NoRole PROVE req[o].added \notin Has(req[o].on)'
      <3>1. /\ req[o].who = req[o].on /\ req[o].added = req[o].role
            /\ req[o].added \in req[o].held /\ req[o].on \in Users
        BY <2>1, <2>2 DEF Coherent, Writing
      <3>2. q.added # NoRole => q.added \in q.held
        BY <1>1 DEF Coherent, Writing
      <3>3. req[o].added \notin Has(req[o].on)
        BY <2>1, <2>2 DEF Hidden
      <3>4. req[o].on = q.who => req[o].held \cap q.held = {}
        BY <1>5, <3>1 DEF Inv, LocksApart
      <3>5. PICK u \in Users : u = req[o].on
        BY <3>1
      <3>6. req[o].added \notin Has(u)'
        BY <1>3, <2>2, <3>1, <3>2, <3>3, <3>4, <3>5
      <3>7. req'[o].on = u
        BY <2>1, <3>5
      <3> QED BY <3>6, <3>7
    <2> QED BY <2>1, <2>2 DEF Ordered, Hidden, Writing
  <1> QED BY <1>4, <1>5

\* The order is kept by every step.
LEMMA OrderKept == Inv /\ Inv' /\ Orderly /\ [Next]_vars => Orderly'
  <1> SUFFICES ASSUME Inv, Inv', Orderly, [Next]_vars PROVE Orderly'
    OBVIOUS
  <1>1. CASE UNCHANGED vars
    BY <1>1 DEF vars, Orderly, Ordered, Hidden, Writing, Has
  <1>2. ASSUME NEW p \in Handlers, Lockless(p) PROVE Orderly'
    <2>1. Moves(p) /\ Coherent(req[p])' /\ req'[p].held = {}
      BY <1>2 DEF Lockless, Inv
    <2>2. Coherent(req'[p])
      BY <2>1 DEF Coherent, Writing
    <2>3. Ordered(req'[p])
      BY <2>1, <2>2, EmptyHands
    <2>4. req'[p].added = NoRole
      BY <2>1, <2>2 DEF Coherent, Writing
    <2>5. (Ordered(req[p]) /\ Hidden(req[p]))'
      BY <2>3, <2>4 DEF Ordered, Hidden, Writing
    <2> QED BY <2>1, <2>5, MoveKeepsOrder
  <1>3. ASSUME NEW p \in Handlers, InsertRow(p) PROVE Orderly'
    BY <1>3, InsertRowOrdered, MoveKeepsOrder
  <1>4. ASSUME NEW p \in Handlers, DeleteRow(p) PROVE Orderly'
    BY <1>4, DeleteRowOrdered, MoveKeepsOrder
  <1>5. ASSUME NEW p \in Handlers, Commit(p) PROVE Orderly'
    BY <1>5, CommitOrdered
  <1> QED BY <1>1, <1>2, <1>3, <1>4, <1>5, LocklessSteps DEF Next, Step

\* A set of natural numbers that is not empty has a least member.
LEMMA LeastNatural ==
  ASSUME NEW S, S \subseteq Nat, S # {}
  PROVE  \E n \in S : \A m \in S : n <= m
  <1>1. PICK n \in S : \A m \in S : <<m, n>> \notin OpToRel(<, Nat)
    BY WFMin, NatLessThanWellFounded, Zenon
  <1>2. \A m \in S : ~ (m < n)
    BY <1>1, Zenon DEF OpToRel
  <1> QED BY <1>2

\* Who waits for a request that deletes waits for a row below the next of that one.
LEMMA WaitsBelow ==
  ASSUME Inv, Orderly, NEW p \in Handlers, NEW x \in Handlers,
         req[p].pc = "delete", WaitsFor(p, x)
  PROVE  \E r \in Least(req[p].del) : \A s \in req[x].del : r < s
  <1>1. Coherent(req[x]) /\ Ordered(req[x]) /\ Hidden(req[x])
    BY DEF Inv, Orderly
  <1>2. PICK r \in Least(req[p].del) \cap Has(req[p].who) : r \in req[x].held
    BY DEF WaitsFor, Wanted
  <1>3. req[x].who = req[p].who /\ r # NoRole
    BY <1>2, RolesAssumption DEF WaitsFor, Has
  <1>4. r # req[x].added
    BY <1>1, <1>2, <1>3 DEF Hidden, Coherent, Writing
  <1> QED BY <1>1, <1>2, <1>4 DEF Ordered

\* In a circle of waiting requests each would wait for a row below the next of the
\* one it waits for: there is no least.
LEMMA NoCircle == Inv /\ Orderly => NoDeadlock
  <1> SUFFICES ASSUME Inv, Orderly, NEW D \in SUBSET Handlers, Deadlock(D)
               PROVE  FALSE
    BY DEF NoDeadlock
  <1>1. \A p \in D : req[p] \in Requests /\ Coherent(req[p])
    BY DEF Inv, TypeOK
  <1>2. \A p \in D : req[p].pc = "delete"
    BY <1>1 DEF Deadlock, WaitsFor, Coherent
  <1> DEFINE S == UNION {Least(req[p].del) : p \in D}
  <1>3. S \subseteq Nat
    BY <1>1, RolesAssumption DEF Least, Requests
  <1>4. S # {}
    <2>1. PICK p \in D : \E x \in D : WaitsFor(p, x)
      BY DEF Deadlock
    <2> QED BY <1>2, <2>1, WaitsBelow
  <1>5. PICK n \in S : \A m \in S : n <= m
    <2> HIDE DEF S
    <2> QED BY <1>3, <1>4, LeastNatural
  <1>6. PICK x \in D : n \in Least(req[x].del)
    BY <1>5
  <1>7. PICK p \in D : WaitsFor(p, x)
    BY DEF Deadlock
  <1>8. PICK r \in Least(req[p].del) : \A s \in req[x].del : r < s
    BY <1>2, <1>7, WaitsBelow
  <1>9. r \in S /\ n \in req[x].del
    BY <1>6, <1>8 DEF Least
  <1> QED BY <1>3, <1>5, <1>8, <1>9

\* Assignments, removals and cleanups of one user never wait for each other in a
\* circle, however many are in flight: PostgreSQL has no deadlock to break.
THEOREM RequestsNeverDeadlock == Spec => []NoDeadlock
  <1>1. Init => Orderly
    <2> SUFFICES ASSUME Init PROVE Orderly
      OBVIOUS
    <2>1. \A p \in Handlers : req[p] = Idle
      BY DEF Init
    <2> QED BY <2>1, IdleFacts, EmptyHands DEF Orderly, Fresh
  <1> QED BY <1>1, Invariance, OrderKept, NoCircle, PTL DEF Spec
=============================================================================
