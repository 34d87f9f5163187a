----------------------------- MODULE ModelCatalog -----------------------------
(***************************************************************************)
(* Model management (model-management-service/db_operations.py): models    *)
(* and the services that run them are rows in PostgreSQL, with a copy of   *)
(* each in Redis that has no time to live.  Redis is called synchronously, *)
(* so a copy is written in the same step as the code after the last await. *)
(* What a transaction writes, up to its commit, is one step: until then    *)
(* other writers of its rows wait for their locks and readers see nothing. *)
(***************************************************************************)
EXTENDS Naturals

CONSTANTS
  Models, Services,  \* model_id and service_id
  Existing,          \* models that are there at first, with their copies
  Names, Tasks,      \* values of a model's fields
  Handlers,          \* requests that may be in progress at once
  None,              \* no row, no copy
  Keep,              \* a field an update does not send
  NoItem,            \* what an idle handler is about
  MaxRequests,       \* bound: requests
  MaxFaults          \* bound: requests cut off and Redis calls that fail

ASSUME ItemsAssumption ==
  /\ Models \cap Services = {} /\ NoItem \notin Models \cup Services
  /\ Existing \subseteq Models
ASSUME KeepAssumption == Keep \notin Names \cup Tasks \cup Models
ASSUME BoundsAssumption == MaxRequests \in Nat /\ MaxFaults \in Nat

VARIABLES
  rows,      \* the tables models and services
  copies,    \* ModelCache and ServiceCache
  made,      \* rows inserted so far; a row's id is its number
  proc,      \* the requests
  due,       \* history variable: what the requests on a model have sent last
  suspect,   \* history variable: items whose copy was written by a request that
             \* another had overtaken, or not written by one that failed
  kept,      \* history variable: models whose task was updated but for the copy
  requests, faults

vars == <<rows, copies, made, proc, due, suspect, kept, requests, faults>>

-----------------------------------------------------------------------------
Items == Models \cup Services

\* ref is the task of a model and the model of a service.
Refs(x) == IF x \in Models THEN Tasks ELSE Models
AnyRef  == Tasks \cup Models
Rows    == [id : Nat \ {0}, name : Names, ref : AnyRef, pub : BOOLEAN]
Copies  == [name : Names, ref : AnyRef]
Dues    == [name : Names, ref : AnyRef, pub : BOOLEAN, same : BOOLEAN]

ASSUME NoneAssumption == None \notin Rows /\ None \notin Copies

Kinds  == {"create", "update", "delete", "publish", "unpublish"}
Points == {"idle", "exists", "check", "insert", "refresh", "save",
           "select", "write", "patch", "reread", "fill",
           "find", "drop", "delete", "publish"}

\* The locals: the request with the fields it sends, the row in hand.  For the
\* properties: the id of the row the request has changed (0: none), and
\* whether another request has come in between.
Sent   == [name : Names \cup {Keep}, ref : AnyRef \cup {Keep}]
Locals == [pc : Points, kind : Kinds, item : Items \cup {NoItem}, sent : Sent,
           read : Rows \cup {None}, wrote : Nat, raced : BOOLEAN]

NothingSent == [name |-> Keep, ref |-> Keep]

Request(pc, kind, x, sent) ==
  [pc |-> pc, kind |-> kind, item |-> x, sent |-> sent,
   read |-> None, wrote |-> 0, raced |-> FALSE]

Idle == Request("idle", "create", NoItem, NothingSent)

Return(p) == proc' = [proc EXCEPT ![p] = Idle]
Go(p, pc) == proc' = [proc EXCEPT ![p].pc = pc]

\* The rows of X have changed: requests that know older ones are overtaken; p
\* goes on as q.
Overtake(X, p, q) ==
  proc' = [r \in Handlers |->
    IF r = p THEN q
    ELSE [proc[r] EXCEPT !.raced = @ \/ /\ proc[r].item \in X
                                        /\ proc[r].pc \in {"write", "refresh", "save",
                                                           "patch", "reread", "fill"}]]

\* A request that has changed a row and owes it a copy.
Owes(p, x) == /\ proc[p].item = x /\ proc[p].wrote # 0
              /\ proc[p].pc \in {"refresh", "save", "patch", "reread", "fill"}

-----------------------------------------------------------------------------
\* save_model_to_db, update_model, delete_model_by_uuid, publish_model,
\* unpublish_model; save_service_to_db, update_service, delete_service_by_uuid.

First(kind) == CASE kind = "create" -> "exists"
                 [] kind = "update" -> "select"
                 [] OTHER           -> "find"

\* A creation sends all fields, and so does the update of a service; the update
\* of a model sends some.
Sends(kind, x) ==
  IF kind = "create" \/ (kind = "update" /\ x \in Services)
  THEN [name : Names, ref : Refs(x)]
  ELSE IF kind = "update" THEN [name : Names \cup {Keep}, ref : Refs(x) \cup {Keep}]
  ELSE {NothingSent}

Start(p, kind, x, sent) ==
  /\ proc[p].pc = "idle"
  /\ kind \in {"publish", "unpublish"} => x \in Models
  /\ requests < MaxRequests /\ requests' = requests + 1
  /\ proc' = [proc EXCEPT ![p] = Request(First(kind), kind, x, sent)]
  /\ UNCHANGED <<rows, copies, made, due, suspect, kept, faults>>

Quiet == UNCHANGED <<rows, copies, made, due, suspect, kept, requests, faults>>

-----------------------------------------------------------------------------
\* Creation.

\* The check for a duplicate.
Exists(p) ==
  /\ proc[p].pc = "exists"
  /\ IF rows[proc[p].item] # None THEN Return(p)
     ELSE Go(p, IF proc[p].item \in Models THEN "insert" ELSE "check")
  /\ Quiet

\* The check for the model of a service.
Check(p) ==
  /\ proc[p].pc = "check"
  /\ IF rows[proc[p].sent.ref] = None THEN Return(p)
     ELSE Go(p, IF proc[p].kind = "create" THEN "insert" ELSE "write")
  /\ Quiet

\* The foreign key of services.
HasModel(x, ref) == x \in Services => rows[ref] # None

Inserted(p) == [id |-> made + 1, name |-> proc[p].sent.name, ref |-> proc[p].sent.ref,
                pub |-> FALSE]

Insertion(p, x, row) ==
  /\ rows' = [rows EXCEPT ![x] = row]
  /\ made' = row.id
  /\ due' = [due EXCEPT ![x] = [name |-> row.name, ref |-> row.ref,
                                pub |-> FALSE, same |-> FALSE]]
  /\ Overtake({x}, p, [proc[p] EXCEPT !.pc = "refresh", !.wrote = row.id])

\* Mutant of Insert: no foreign key, the check before is relied upon.
InsertUnreferenced(p) ==
  LET x == proc[p].item
  IN /\ proc[p].pc = "insert"
     /\ IF rows[x] # None THEN Return(p) /\ UNCHANGED <<rows, made, due>>
        ELSE Insertion(p, x, Inserted(p))
     /\ UNCHANGED <<copies, suspect, kept, requests, faults>>

\* A unique key or the foreign key makes the commit fail, which ends the request.
Insert(p) ==
  LET x == proc[p].item
  IN /\ proc[p].pc = "insert"
     /\ IF rows[x] # None \/ ~ HasModel(x, proc[p].sent.ref)
        THEN Return(p) /\ UNCHANGED <<rows, made, due>>
        ELSE Insertion(p, x, Inserted(p))
     /\ UNCHANGED <<copies, suspect, kept, requests, faults>>

\* db.refresh selects the row again, and raises if it is gone.
Refresh(p) ==
  /\ proc[p].pc = "refresh"
  /\ LET row == rows[proc[p].item]
     IN IF row = None \/ row.id # proc[p].wrote THEN Return(p) ELSE Go(p, "save")
  /\ Quiet

\* A copy of x is written: a deletion that has dropped x's copy is overtaken.
Stored(p, x, copy) ==
  /\ copies' = [copies EXCEPT ![x] = copy]
  /\ proc' = [r \in Handlers |->
       IF r = p THEN Idle
       ELSE [proc[r] EXCEPT !.raced = @ \/ (proc[r].item = x /\ proc[r].pc = "delete")]]

Judge(p, x, whole) ==
  suspect' = IF proc[p].raced THEN suspect \cup {x}
             ELSE IF whole THEN suspect \ {x} ELSE suspect

\* The copy of a new item is made from the request.
Save(p) ==
  LET x == proc[p].item
  IN /\ proc[p].pc = "save"
     /\ Stored(p, x, [name |-> proc[p].sent.name, ref |-> proc[p].sent.ref])
     /\ Judge(p, x, TRUE)
     /\ kept' = kept \ {x}
     /\ UNCHANGED <<rows, made, due, requests, faults>>

-----------------------------------------------------------------------------
\* Update.

\* No row: the update of a model goes on to the copy all the same.
Select(p) ==
  LET x == proc[p].item
  IN /\ proc[p].pc = "select"
     /\ IF rows[x] = None
        THEN IF x \in Models THEN Go(p, "patch") ELSE Return(p)
        ELSE proc' = [proc EXCEPT ![p] =
               [@ EXCEPT !.pc = IF x \in Models THEN "write" ELSE "check",
                         !.read = rows[x]]]
     /\ Quiet

\* Mutant of Merge: fields that are not sent are emptied.
MergeAll(old, sent) == [old EXCEPT !.name = sent.name, !.ref = sent.ref]

Merge(old, sent) == [old EXCEPT !.name = IF sent.name = Keep THEN @ ELSE sent.name,
                                !.ref = IF sent.ref = Keep THEN @ ELSE sent.ref]

\* Mutant of Written: the row that was read is written back.
WrittenBack(now, read, sent) == Merge([read EXCEPT !.id = now.id], sent)

\* SQLAlchemy writes the fields that differ from the row it has read; task is
\* flagged, so it is written in any case.
Written(now, read, sent) ==
  Merge(now, [sent EXCEPT !.name = IF @ = read.name THEN Keep ELSE @])

\* What is due, and whether its name is one the update had read.
Asked(old, read, sent) ==
  [Merge(old, sent) EXCEPT
     !.same = IF sent.name = Keep THEN @ ELSE sent.name = read.name]

\* The row read is gone: the flush matches no row and raises.
WriteModel(p) ==
  LET x == proc[p].item
      q == proc[p]
  IN /\ q.pc = "write" /\ x \in Models
     /\ IF rows[x] = None \/ rows[x].id # q.read.id
        THEN Return(p) /\ UNCHANGED <<rows, due>>
        ELSE /\ rows' = [rows EXCEPT ![x] = Written(@, q.read, q.sent)]
             /\ due' = [due EXCEPT ![x] = Asked(@, q.read, q.sent)]
             /\ Overtake({x}, p, [q EXCEPT !.pc = "patch", !.wrote = q.read.id])
     /\ UNCHANGED <<copies, made, suspect, kept, requests, faults>>

\* UPDATE by service_id: no row is no error, a row needs its model.
WriteService(p) ==
  LET x == proc[p].item
      q == proc[p]
  IN /\ q.pc = "write" /\ x \in Services
     /\ IF rows[x] = None THEN Go(p, "patch") /\ UNCHANGED <<rows, due>>
        ELSE IF ~ HasModel(x, q.sent.ref) THEN Return(p) /\ UNCHANGED <<rows, due>>
        ELSE /\ rows' = [rows EXCEPT ![x] = Merge(@, q.sent)]
             /\ due' = [due EXCEPT ![x] = Merge(@, q.sent)]
             /\ Overtake({x}, p, [q EXCEPT !.pc = "patch", !.wrote = rows[x].id])
     /\ UNCHANGED <<copies, made, suspect, kept, requests, faults>>

\* Mutant of Patched: the copy of a service keeps its model.
PatchedByName(x, sent) == [sent EXCEPT !.ref = Keep]

\* The copy of a model calls its task task_type, so that of an update finds no
\* field to go to.
Patched(x, sent) == IF x \in Models THEN [sent EXCEPT !.ref = Keep] ELSE sent

\* A copy that exists is patched.  If there is none, that of a model is made from
\* the row; for a service an unbound variable ends the attempt.
Patch(p) ==
  LET x == proc[p].item
      sent == proc[p].sent
  IN /\ proc[p].pc = "patch"
     /\ IF copies[x] # None
        THEN /\ Stored(p, x, Merge(copies[x], Patched(x, sent)))
             /\ Judge(p, x, x \in Services)
             /\ kept' = IF x \in Models /\ sent.ref # Keep THEN kept \cup {x} ELSE kept
        ELSE /\ IF x \in Models THEN Go(p, "reread") ELSE Return(p)
             /\ UNCHANGED <<copies, suspect, kept>>
     /\ UNCHANGED <<rows, made, due, requests, faults>>

Reread(p) ==
  LET x == proc[p].item
  IN /\ proc[p].pc = "reread"
     /\ IF rows[x] = None THEN Return(p)
        ELSE proc' = [proc EXCEPT ![p] = [@ EXCEPT !.pc = "fill", !.read = rows[x]]]
     /\ Quiet

\* The row read, with the fields sent.
Fill(p) ==
  LET x == proc[p].item
      row == Merge(proc[p].read, proc[p].sent)
  IN /\ proc[p].pc = "fill"
     /\ Stored(p, x, [name |-> row.name, ref |-> row.ref])
     /\ Judge(p, x, TRUE)
     /\ kept' = kept \ {x}
     /\ UNCHANGED <<rows, made, due, requests, faults>>

-----------------------------------------------------------------------------
\* Deletion and publication.

Find(p) ==
  LET x == proc[p].item
  IN /\ proc[p].pc = "find"
     /\ IF rows[x] = None THEN Return(p)
        ELSE proc' = [proc EXCEPT ![p] =
               [@ EXCEPT !.pc = IF proc[p].kind = "delete" THEN "drop" ELSE "publish",
                         !.read = rows[x]]]
     /\ Quiet

\* Mutant of Drop: the copy of a model stays as well.
DropNone(p) ==
  /\ proc[p].pc = "drop"
  /\ Go(p, "delete")
  /\ Quiet

\* The copy goes before the row; that of a service stays, for the code deletes a
\* ModelCache of its name.
Drop(p) ==
  LET x == proc[p].item
  IN /\ proc[p].pc = "drop"
     /\ copies' = IF x \in Models THEN [copies EXCEPT ![x] = None] ELSE copies
     /\ Go(p, "delete")
     /\ UNCHANGED <<rows, made, due, suspect, kept, requests, faults>>

\* ON DELETE CASCADE.
WithServices(x) == {x} \cup {s \in Services : rows[s] # None /\ rows[s].ref = x}

Delete(p) ==
  LET x == proc[p].item
  IN /\ proc[p].pc = "delete"
     /\ IF rows[x] = None \/ rows[x].id # proc[p].read.id
        THEN Return(p) /\ UNCHANGED <<rows, suspect>>
        ELSE /\ rows' = [y \in Items |-> IF y \in WithServices(x) THEN None ELSE rows[y]]
             /\ suspect' = IF proc[p].raced /\ x \in Models THEN suspect \cup {x} ELSE suspect
             /\ Overtake(WithServices(x), p, Idle)
     /\ UNCHANGED <<copies, made, due, kept, requests, faults>>

\* UPDATE by model_id; no copy says whether a model is published.
Publish(p) ==
  LET x == proc[p].item
      pub == proc[p].kind = "publish"
  IN /\ proc[p].pc = "publish"
     /\ IF rows[x] = None THEN UNCHANGED <<rows, due>>
        ELSE /\ rows' = [rows EXCEPT ![x].pub = pub]
             /\ due' = [due EXCEPT ![x].pub = pub]
     /\ Return(p)
     /\ UNCHANGED <<copies, made, suspect, kept, requests, faults>>

-----------------------------------------------------------------------------
\* An exception of the database, or the end of the process: what is committed stays.
\* An exception of Redis at a copy's writing is caught and has the same effect.
Fail(p) ==
  LET x == proc[p].item
  IN /\ proc[p].pc # "idle"
     /\ faults < MaxFaults /\ faults' = faults + 1
     /\ suspect' = IF Owes(p, x) THEN suspect \cup {x} ELSE suspect
     /\ Return(p)
     /\ UNCHANGED <<rows, copies, made, due, kept, requests>>

\* Redis raises: a copy not read is taken to be missing, one not deleted is left.
CopyFails(p) ==
  /\ proc[p].item \in Models
  /\ \/ proc[p].pc = "patch" /\ Go(p, "reread")
     \/ proc[p].pc = "drop"
        /\ proc' = [proc EXCEPT ![p] = [@ EXCEPT !.pc = "delete", !.raced = TRUE]]
  /\ faults < MaxFaults /\ faults' = faults + 1
  /\ UNCHANGED <<rows, copies, made, due, suspect, kept, requests>>

-----------------------------------------------------------------------------
Init ==
  /\ \E name \in Names, ref \in Tasks :
       /\ rows = [x \in Items |-> IF x \in Existing
            THEN [id |-> 1, name |-> name, ref |-> ref, pub |-> FALSE] ELSE None]
       /\ copies = [x \in Items |-> IF x \in Existing
            THEN [name |-> name, ref |-> ref] ELSE None]
       /\ due = [x \in Items |->
            [name |-> name, ref |-> ref, pub |-> FALSE, same |-> FALSE]]
  /\ made = 1
  /\ proc = [p \in Handlers |-> Idle]
  /\ suspect = {} /\ kept = {}
  /\ requests = 0 /\ faults = 0

Step(p) ==
  \/ Exists(p) \/ Check(p) \/ Insert(p) \/ Refresh(p) \/ Save(p)
  \/ Select(p) \/ WriteModel(p) \/ WriteService(p) \/ Patch(p) \/ Reread(p) \/ Fill(p)
  \/ Find(p) \/ Drop(p) \/ Delete(p) \/ Publish(p)
  \/ Fail(p) \/ CopyFails(p)

Next ==
  \E p \in Handlers :
    \/ \E kind \in Kinds, x \in Items : \E sent \in Sends(kind, x) : Start(p, kind, x, sent)
    \/ Step(p)

Spec == Init /\ [][Next]_vars

-----------------------------------------------------------------------------
TypeOK ==
  /\ rows \in [Items -> Rows \cup {None}]
  /\ copies \in [Items -> Copies \cup {None}]
  /\ \A x \in Items : /\ rows[x] # None => rows[x].ref \in Refs(x)
                      /\ copies[x] # None => copies[x].ref \in Refs(x)
  /\ due \in [Items -> Dues]
  /\ made \in Nat
  /\ proc \in [Handlers -> Locals]
  /\ suspect \subseteq Items /\ kept \subseteq Models
  /\ requests \in 0..MaxRequests /\ faults \in 0..MaxFaults

\* Every service has its model, though a model may be deleted between the check
\* of a request and its insert or update (save_service_to_db, update_service).
ServicesHaveModels ==
  \A s \in Services : rows[s] # None => rows[rows[s].ref] # None

\* What Redis holds of a model is what the table holds, unless a request has yet
\* to write the copy of what it has changed, or one that was overtaken, or failed,
\* left it wrong - and nothing but another update puts it right -, or an update of
\* the task did not reach it.
ModelCopiesExplained ==
  \A x \in Models : copies[x] # None =>
    \/ x \in suspect
    \/ \E p \in Handlers : Owes(p, x)
    \/ /\ rows[x] # None
       /\ copies[x].name = rows[x].name
       /\ copies[x].ref = rows[x].ref \/ x \in kept

\* The copy of a service is right in the same way while its row exists; no request
\* removes it with the row.
ServiceCopiesExplained ==
  \A x \in Services : copies[x] # None /\ rows[x] # None =>
    \/ x \in suspect
    \/ \E p \in Handlers : Owes(p, x)
    \/ copies[x] = [name |-> rows[x].name, ref |-> rows[x].ref]

\* No update is lost: a model says what was last sent of each field, however updates
\* and publications overlap, but for a name that its update had read and so
\* did not write.
NoUpdateLost ==
  \A x \in Models : rows[x] # None =>
    /\ rows[x].pub = due[x].pub /\ rows[x].ref = due[x].ref
    /\ rows[x].name = due[x].name \/ due[x].same
=============================================================================
