------------------------------ MODULE UserRoles ------------------------------
(***************************************************************************)
(* The roles of users in auth-service: assign_role, remove_role, the       *)
(* endpoint that shows a user's roles, and get_user_roles, which every      *)
(* authenticated request runs for its caller and which deletes surplus      *)
(* rows.  A request is a coroutine with a database session of its own: its  *)
(* statements are the steps, any other request may run between them, and    *)
(* only PostgreSQL (READ COMMITTED, row locks, the primary key) orders      *)
(* their writes.  Statements that read or write nothing of user_roles       *)
(* (users, role names) are left out; every user and role exists.            *)
(***************************************************************************)
EXTENDS Naturals, FiniteSets

CONSTANTS
  Users,       \* user ids
  Roles,       \* role ids, in primary-key order
  ADMIN,       \* the id of the role ADMIN
  Supers,      \* users with is_superuser
  Handlers,    \* requests that may be in flight at once
  NoRow,       \* no row of user_roles
  NoRole,      \* no role
  NoUser,      \* no user
  Initial,     \* the sets of roles a user may have had before
  MaxAssigns,  \* bound: assignments requested
  MaxFaults    \* bound: requests that are cut off

ASSUME RolesAssumption == Roles \subseteq Nat /\ ADMIN \in Roles /\ NoRole \notin Roles
ASSUME InitialAssumption == Initial \subseteq SUBSET Roles
ASSUME UsersAssumption == Supers \subseteq Users /\ NoUser \notin Users
ASSUME RowAssumption == NoRow \notin [at : Nat, from : Nat, to : Nat]
ASSUME BoundsAssumption == MaxAssigns \in Nat /\ MaxFaults \in Nat

VARIABLES
  table,    \* the rows of user_roles, by user and role
  req,      \* the request each handler runs
  clock,    \* orders the begins and commits of assignments
  assigns,  \* assignments requested so far
  faults    \* requests cut off so far

vars == <<table, req, clock, assigns, faults>>

\* A row: its assigned_at, which defaults to the START of the transaction that
\* inserted it; and, for the properties only, when that transaction read the
\* rows it was to replace and when it committed.
Rows == [at : Nat, from : Nat, to : Nat]

\* A request: the endpoint, its caller and target, the role it names; which of
\* its calls it is in; the user whose rows its open transaction touches, when
\* that transaction began and when it read them; the roles it has still to
\* delete, those it has deleted, the row it has inserted, the row locks it has.
Requests ==
  [pc : {"idle", "roles", "check", "read", "insert", "delete"},
   kind : {"roles", "view", "assign", "remove"},
   by : Users \cup {NoUser}, on : Users \cup {NoUser}, role : Roles \cup {NoRole},
   stage : 1..3, who : Users \cup {NoUser}, began : Nat, from : Nat,
   del : SUBSET Roles, gone : SUBSET Roles, added : Roles \cup {NoRole},
   held : SUBSET Roles, kept : SUBSET Roles]

\* A request that reads the rows of `who` in a transaction begun at time t.
Open(pc, kind, by, on, role, stage, who, t) ==
  [pc |-> pc, kind |-> kind, by |-> by, on |-> on, role |-> role, stage |-> stage,
   who |-> who, began |-> t, from |-> 0, del |-> {}, gone |-> {},
   added |-> NoRole, held |-> {}, kept |-> {}]

Idle == Open("idle", "roles", NoUser, NoUser, NoRole, 1, NoUser, 0)

\* The roles user u has in committed rows.
Has(u) == {r \in Roles : table[u][r] # NoRow}

\* The most recent of u's rows: ORDER BY assigned_at DESC, the first.
Newest(u) == {r \in Has(u) : \A s \in Has(u) : table[u][s].at <= table[u][r].at}

\* The row that p's next statement may have to wait for: an INSERT waits for any
\* other transaction that has written its key, a DELETE only for a row it sees.
Least(del) == {r \in del : \A s \in del : r <= s}

Wanted(p) ==
  LET q == req[p]
  IN CASE q.pc = "insert" -> {q.role}
       [] q.pc = "delete" -> Least(q.del) \cap Has(q.who)
       [] OTHER           -> {}

\* The open transaction of q has written the row p wants.
WaitsFor(p, q) ==
  q # p /\ req[q].who = req[p].who /\ Wanted(p) \cap req[q].held # {}

MustWait(p) == \E q \in Handlers : WaitsFor(p, q)

\* Requests that wait for each other in a circle, or in several.
Deadlock(D) ==
  /\ D # {}
  /\ \A p \in D : (\E q \in D : WaitsFor(p, q)) /\ (\E q \in D : WaitsFor(q, p))

-----------------------------------------------------------------------------
\* Requests arrive.

\* Login, refresh, validate, me and the other endpoints that read the roles of
\* their caller and write no role.
StartRoles(p, u) ==
  /\ req[p].pc = "idle"
  /\ req' = [req EXCEPT ![p] = Open("roles", "roles", u, u, NoRole, 1, u, 0)]
  /\ UNCHANGED <<table, clock, assigns, faults>>

StartView(p, by, on) ==
  /\ req[p].pc = "idle"
  /\ req' = [req EXCEPT ![p] = Open("roles", "view", by, on, NoRole, 1, by, 0)]
  /\ UNCHANGED <<table, clock, assigns, faults>>

StartRemove(p, by, on, role) ==
  /\ req[p].pc = "idle"
  /\ req' = [req EXCEPT ![p] = Open("roles", "remove", by, on, role, 1, by, 0)]
  /\ UNCHANGED <<table, clock, assigns, faults>>

StartAssign(p, by, on, role) ==
  /\ req[p].pc = "idle"
  /\ assigns < MaxAssigns
  /\ assigns' = assigns + 1
  /\ clock' = clock + 1
  /\ req' = [req EXCEPT ![p] = Open("roles", "assign", by, on, role, 1, by, clock + 1)]
  /\ UNCHANGED <<table, faults>>

Start(p) ==
  \E by, on \in Users :
    \/ StartView(p, by, on)
    \/ \E role \in Roles : StartRemove(p, by, on, role) \/ StartAssign(p, by, on, role)

-----------------------------------------------------------------------------
\* get_user_roles and what follows it.

\* The request once get_user_roles has answered `roles`, its transaction
\* begun at time t.
Returned(q, roles, t) ==
  LET allowed == ADMIN \in roles \/ q.by \in Supers
      go(pc) == Open(pc, q.kind, q.by, q.on, q.role, 2, q.on, t)
  IN CASE q.kind \in {"assign", "remove"} /\ allowed -> go("check")
       [] q.kind = "view" /\ q.stage = 1 /\ (q.on = q.by \/ allowed) -> go("roles")
       [] OTHER -> Idle

\* Mutant of SelectRoles: the view endpoint never has enough.
SelectRolesAgain(p) ==
  /\ req[p].pc = "roles"
  /\ LET q == req[p]
     IN req' = [req EXCEPT ![p] =
          IF q.kind = "view" THEN [q EXCEPT !.stage = @ + 1]
          ELSE Returned(q, Newest(q.who), q.began)]
  /\ UNCHANGED <<table, clock, assigns, faults>>

\* Mutant of SelectRoles: the view endpoint repeats its own query.
SelectRolesRepeated(p) ==
  /\ req[p].pc = "roles"
  /\ LET q == req[p]
     IN req' = [req EXCEPT ![p] =
          IF q.kind = "view" /\ q.stage = 2 THEN q
          ELSE Returned(q, Newest(q.who), q.began)]
  /\ UNCHANGED <<table, clock, assigns, faults>>

\* Mutant of SelectRoles: the surplus rows are left alone.
SelectRolesWithoutCleanup(p) ==
  /\ req[p].pc = "roles"
  /\ LET q == req[p]
     IN req' = [req EXCEPT ![p] =
          IF q.kind = "view" /\ q.stage = 2 THEN [q EXCEPT !.stage = 3]
          ELSE Returned(q, Newest(q.who), q.began)]
  /\ UNCHANGED <<table, clock, assigns, faults>>

\* SELECT the rows, most recent first.  At most one: that is the answer (the
\* view endpoint, which selects for itself, now calls get_user_roles).  More:
\* the first is kept and the others are to be deleted.
SelectRoles(p) ==
  /\ req[p].pc = "roles"
  /\ LET q == req[p]
         has == Has(q.who)
     IN IF Cardinality(has) <= 1
        THEN req' = [req EXCEPT ![p] =
               IF q.kind = "view" /\ q.stage = 2 THEN [q EXCEPT !.stage = 3]
               ELSE Returned(q, has, q.began)]
        ELSE \E r \in Newest(q.who) :
               req' = [req EXCEPT ![p] =
                 [q EXCEPT !.pc = "delete", !.del = has \ {r}, !.kept = {r}]]
  /\ UNCHANGED <<table, clock, assigns, faults>>

-----------------------------------------------------------------------------
\* assign_role and remove_role, after the check of the caller.

\* assign_role: the user has exactly this role already?
CheckAssign(p) ==
  /\ req[p].pc = "check" /\ req[p].kind = "assign"
  /\ req' = [req EXCEPT ![p] =
       IF req[p].role \in Has(req[p].on) THEN Idle ELSE [@ EXCEPT !.pc = "read"]]
  /\ UNCHANGED <<table, clock, assigns, faults>>

\* Mutant of ReadExisting: the rows of other roles are not replaced.
ReadExistingReplacingNone(p) ==
  /\ req[p].pc = "read"
  /\ LET q == req[p]
     IN req' = [req EXCEPT ![p] =
          [q EXCEPT !.pc = IF q.role \in Has(q.on) THEN "delete" ELSE "insert",
                    !.from = clock]]
  /\ UNCHANGED <<table, clock, assigns, faults>>

\* assign_role: SELECT the rows to replace.  If the role has turned up since the
\* check, the session holds an object of that key to delete and one to add: a row
\* switch, an UPDATE of what differs but for the key, and the new object sets
\* nothing but the key.  So no statement is about that row, and no lock.
ReadExisting(p) ==
  /\ req[p].pc = "read"
  /\ LET q == req[p]
         existing == Has(q.on)
     IN req' = [req EXCEPT ![p] =
          [q EXCEPT !.pc = IF q.role \in existing THEN "delete" ELSE "insert",
                    !.del = existing \ {q.role},
                    !.from = clock]]
  /\ UNCHANGED <<table, clock, assigns, faults>>

\* remove_role: SELECT the row.
CheckRemove(p) ==
  /\ req[p].pc = "check" /\ req[p].kind = "remove"
  /\ LET q == req[p]
     IN req' = [req EXCEPT ![p] =
          IF q.role \in Has(q.on) THEN [q EXCEPT !.pc = "delete", !.del = {q.role}]
          ELSE Idle]
  /\ UNCHANGED <<table, clock, assigns, faults>>

-----------------------------------------------------------------------------
\* The transaction that writes: SQLAlchemy's flush inserts first, then deletes in
\* primary-key order, each statement by key, and commits.

\* INSERT waits for another transaction that has written this key; a row that
\* is there when it need not wait is an IntegrityError, and the request ends.
InsertRow(p) ==
  /\ req[p].pc = "insert"
  /\ ~ MustWait(p)
  /\ LET q == req[p]
     IN req' = [req EXCEPT ![p] =
          IF q.role \in Has(q.on) THEN Idle
          ELSE [q EXCEPT !.pc = "delete", !.added = q.role, !.held = {q.role}]]
  /\ UNCHANGED <<table, clock, assigns, faults>>

\* Mutant of DeleteRow: the rows are deleted in any order.
DeleteAnyRow(p) ==
  /\ req[p].pc = "delete"
  /\ \E r \in req[p].del :
       LET q == req[p]
           hit == {r} \cap Has(q.who)
       IN /\ \A o \in Handlers \ {p} : req[o].who = q.who => hit \cap req[o].held = {}
          /\ req' = [req EXCEPT ![p] =
               [q EXCEPT !.del = @ \ {r}, !.gone = @ \cup hit, !.held = @ \cup hit]]
  /\ UNCHANGED <<table, clock, assigns, faults>>

\* DELETE of the row with the least key still to go.  It takes whatever row has the
\* key by now; a row that has gone is only worth a warning.
DeleteRow(p) ==
  /\ req[p].pc = "delete"
  /\ ~ MustWait(p)
  /\ \E r \in Least(req[p].del) :
       LET q == req[p]
           hit == {r} \cap Has(q.who)
       IN req' = [req EXCEPT ![p] =
            [q EXCEPT !.del = @ \ {r}, !.gone = @ \cup hit, !.held = @ \cup hit]]
  /\ UNCHANGED <<table, clock, assigns, faults>>

\* get_user_roles has deleted the surplus rows; otherwise the request ends here.
Cleanup(q) == q.kind \in {"roles", "view"} \/ q.stage = 1

\* The table with what the transaction of q has written.
Written(q) ==
  [table EXCEPT ![q.who] = [r \in Roles |->
     IF r = q.added THEN [at |-> q.began, from |-> q.from, to |-> clock + 1]
     ELSE IF r \in q.gone THEN NoRow ELSE @[r]]]

\* COMMIT: locks are released, the writes become visible.
Commit(p) ==
  /\ req[p].pc = "delete" /\ req[p].del = {}
  /\ LET q == req[p]
     IN /\ table' = Written(q)
        /\ clock' = IF q.kind = "assign" THEN clock + 1 ELSE clock
        /\ req' = [req EXCEPT ![p] =
             IF Cleanup(q)
             THEN Returned(q, q.kept, IF q.kind = "assign" THEN clock + 1 ELSE 0)
             ELSE Idle]
  /\ UNCHANGED <<assigns, faults>>

\* The client goes away or the database fails: the session is closed and the
\* transaction rolled back.
Abort(p) ==
  /\ req[p].pc # "idle"
  /\ faults < MaxFaults
  /\ faults' = faults + 1
  /\ req' = [req EXCEPT ![p] = Idle]
  /\ UNCHANGED <<table, clock, assigns>>

-----------------------------------------------------------------------------
\* A user has the role of its registration, none, or what earlier requests left.
Init ==
  /\ \E roles \in [Users -> Initial] :
       table = [u \in Users |-> [r \in Roles |->
         IF r \in roles[u] THEN [at |-> 0, from |-> 0, to |-> 0] ELSE NoRow]]
  /\ req = [p \in Handlers |-> Idle]
  /\ clock = 0 /\ assigns = 0 /\ faults = 0

Step(p) ==
  \/ SelectRoles(p) \/ CheckAssign(p) \/ ReadExisting(p) \/ CheckRemove(p)
  \/ InsertRow(p) \/ DeleteRow(p) \/ Commit(p)

Next == \E p \in Handlers :
  \/ \E u \in Users : StartRoles(p, u)
  \/ Start(p) \/ Step(p) \/ Abort(p)

Spec == Init /\ [][Next]_vars

\* PostgreSQL and the event loop let every request go on, and users keep coming.
Fairness ==
  /\ \A p \in Handlers : WF_vars(Step(p))
  /\ \A u \in Users : SF_vars(\E p \in Handlers : StartRoles(p, u))

LiveSpec == Spec /\ Fairness

-----------------------------------------------------------------------------
TypeOK ==
  /\ table \in [Users -> [Roles -> Rows \cup {NoRow}]]
  /\ req \in [Handlers -> Requests]
  /\ clock \in Nat
  /\ assigns \in 0..MaxAssigns
  /\ faults \in 0..MaxFaults

\* An assignment deletes every row that is there when it reads, so a user has two
\* rows only if the assignments that wrote them overlapped, each committing after
\* the other had read (assign_role's read-delete-add, which takes no lock), or if
\* both rows have been there from the start and nobody has cleaned up.
Overlap(a, b) == a.from < b.to /\ b.from < a.to
Old(a) == a.to = 0

DuplicatesOverlap ==
  \A u \in Users : \A r, s \in Has(u) :
    r # s => \/ Overlap(table[u][r], table[u][s])
             \/ Old(table[u][r]) /\ Old(table[u][s])

\* Assignments, removals and cleanups never wait for each other in a circle: a
\* transaction locks the rows it deletes in key order, and the row it has inserted
\* is one that nobody else can see to delete.
NoDeadlock == \A D \in SUBSET Handlers : ~ Deadlock(D)

\* Every request ends: none waits for ever for the rows of others.
RequestsEnd == \A p \in Handlers : []<>(req[p].pc = "idle")

\* Once assignments stop, the cleanup in get_user_roles leaves every user who
\* keeps using the platform with one role at most, for good.
DuplicatesHeal == <>[](\A u \in Users : Cardinality(Has(u)) <= 1)

\* "Only one role per user allowed" (main.py, assign_role).
OneRolePerUser == \A u \in Users : Cardinality(Has(u)) <= 1

\* get_user_roles deletes surplus roles "keeping only the most recently assigned
\* one" (its docstring): the commit of a cleanup leaves its user a role.
CleanupKeepsOne ==
  [][\A p \in Handlers, u \in Users :
       Commit(p) /\ req[p].kept # {} /\ req[p].who = u => Has(u)' # {}]_vars
=============================================================================
