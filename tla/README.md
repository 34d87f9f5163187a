# Models and proofs for the AI4I-Core platform

TLA+ modules for the parts of AI4I-Core that keep shared state across
concurrent requests, TLC configurations that check them on small instances, and
TLAPS proofs of the properties that matter most, for every instance. Source
paths are relative to `src/`; `config-service` stands for
`src/services/config-service`, and so on for the other services.

## 1. The system

AI4I-Core is a set of FastAPI services for speech and language models behind a
gateway. Each service is one asyncio process: a request is a coroutine, and
between any two of its `await`s (a query, a commit, a Redis command, an HTTP
call, a Kafka send) every other coroutine of the process may run. There are no
locks in the Python code; what orders requests is PostgreSQL's row locks and
unique constraints, and nothing else. PostgreSQL, Redis, Kafka and ZooKeeper are
shared between the processes.

| Component | State | Operations | Talks to | What is hard |
|---|---|---|---|---|
| Configuration store (`config-service/services/config_service.py`, `repositories/config_repository.py`, `routers/config_router.py`) | rows and history in PostgreSQL, a Redis copy of each row (300 s) | create, get, update, delete, history, bulk get | PostgreSQL, Redis, Kafka | cache fills racing commits, lost invalidations, concurrent updates, reused identifiers |
| Service registry (`services/service_registry_service.py`, `registry/zookeeper_client.py`, `repositories/service_registry_repository.py`) | an ephemeral ZooKeeper node per instance, a PostgreSQL row per service, a Redis copy of each instance list (60 s) | register, deregister, lookup, check | ZooKeeper, PostgreSQL, Redis, the instances | three stores without a transaction, the session that owns the nodes, late requests of a dead client |
| Health monitor (`services/health_monitor_service.py`, `main.py`) | the `status` column | a periodic cycle over all services, on-demand checks | the registry, the instances over HTTP | statuses computed from old lists, writes over newer ones |
| Registry client (`asr-service/utils/service_registry_client.py` and its use in each `main.py`) | the instance id it was given | register at start, deregister at stop | config-service | timeouts: the server goes on |
| Feature flags (`services/feature_flag_service.py`) | Redis: metadata (300 s), flag lists (300 s), evaluations (5 s) | evaluate, list, sync from Unleash every 30 s | Unleash, Redis, Kafka | evaluation keys without the default, partial pages cached, invalidation order |
| User roles (`auth-service/main.py`, `auth_utils.py`) | the rows of `user_roles` in PostgreSQL | assign, remove, view; the cleanup in `get_user_roles`, which every authenticated request may run | PostgreSQL | read-delete-add without a lock, deletes by a list read before, SQLAlchemy's row switch of a delete and an add |
| Sessions, tokens and API keys (`auth-service/main.py`, `auth_utils.py`) | users, sessions and keys in PostgreSQL | login, refresh, logout, password change, validate | PostgreSQL, the browser | logout by the other token column, two commits in one request |
| Sign-in of the front end (`frontend/simple-ui/src/services/authService.ts`, `api.ts`, `hooks/useAuth.ts`, `pages/auth/callback.tsx`) | tokens, user and preference in localStorage (all tabs) and sessionStorage (one tab) | login, OAuth callback, initialisation, refresh and retry, profile, logout | auth-service, the gateway | answers that come after the tab has changed hands, two storages written apart, retries |
| OAuth, Casbin (`oauth_utils.py`, `casbin_enforcer.py`) | one-time states in Redis, policies in memory | authorize, callback, enforce | Redis | exists-then-delete, policies loaded once |
| Model management (`model-management-service/db_operations.py`, `cache/`) | models and services in PostgreSQL, a Redis copy | save, update, delete, publish, view | PostgreSQL, Redis | copies patched after commits in no order, a copy dropped before its row, checks before inserts |
| Streaming ASR and TTS (`asr-service/services/streaming_service.py`, `tts-service/services/streaming_service.py`) | per-socket buffers in memory | start, data, end, disconnect | Triton, Socket.IO | buffers reset after an await, sessions deleted while in use |
| API gateway (`api-gateway-service/main.py`) | none in the running configuration; the registry, load balancer and route classes are not instantiated | proxy | the services | |
| Inference, pipeline, metrics, telemetry, alerting, dashboard, the rest of the front end | none shared beyond one row per request | | Triton, PostgreSQL | |

What makes each correct, in a sentence: a **configuration**'s history tells its
whole life and what readers see is some version it really had, stale only for a
reason that time removes; an instance the **registry** answered with an id is in
both stores, a cached list is wrong only while somebody is about to delete it or
for a reason that time removes, and once instances settle, lists and statuses are
right; a **flag** evaluates to what Unleash said at most a time to live ago; a
**user** has one role; a **tab** sends the tokens of one session and shows that session's
user, until it is signed out, and from then on no more, unless its callback page is opened again; a **cached model** is one that is in
the table; a **stream** loses and repeats no text. Where the code does not keep that,
the property says when it is broken, and no more often.

## 2. Modules

| Module | Models |
|---|---|
| `VersionedStore` | abstract: per key at most one row, new identifiers, versions that rise by one |
| `ConfigStore` | the configuration store; implements `VersionedStore` |
| `ServiceRegistry` | the registry, the health monitor, the registry client, the life of config-service and of the instances, ZooKeeper sessions |
| `UserRoles` | role assignment, removal, view and cleanup |
| `FeatureFlags` | evaluation, lookup, list and sync of flags over Redis and Unleash |
| `ModelCatalog` | models and services of model-management, and their copies in Redis |
| `StreamingSpeech` | one speech synthesis stream: its events and the synthesis they run |
| `TextChunks` | the two algorithms that cut text for the synthesizer, and what they promise |
| `BrowserSession` | the sign-in of the front end: storages, tabs, requests |
| `MC...` (one for each but `VersionedStore` and `TextChunks`, which `ConfigStore` and `MCStreamingSpeech` take in) | values, symmetry and bounded inputs for TLC |
| `...Proofs` (`ConfigStore`, `ServiceRegistry`, `UserRoles`, `FeatureFlags`, `StreamingSpeech`, `TextChunks`, `ModelCatalog`, `BrowserSession`) | the proofs |

The systems share no state: config-service uses different tables, Redis keys and ZooKeeper
paths for configurations, the registry and the flags; auth-service and model-management have
databases of their own; a stream lives in one process; the browser sees the services only
through their answers. They are separate modules and nothing is gained by composing them.
Inside `ServiceRegistry` four parts are composed (instances, request handlers, monitor,
stores), because what goes wrong there goes wrong between them; `StreamingSpeech` abstracts
the cutting that `TextChunks` defines to what it shows there: the next chunk is some beginning of what is left.

Definitions introduced by `\* Mutant of X` are plausible bugs: none of them is used
in a specification; each shows that a property can be violated by a change of
the code.

### How the models follow the code

A request handler is a record in a function over `Handlers` (`req`, `proc`): its
`pc` is the `await` it stands at, the other fields are the locals that survive the
`await`. One action is what the coroutine does from one `await` to the next:
all its state changes, early returns included. That is the atomicity asyncio gives
and no more: between two steps any other handler may step. PostgreSQL's part is
modelled as what the code relies on: a transaction's writes appear at its commit,
`SELECT ... FOR UPDATE`, `UPDATE` and `DELETE` wait for the row's lock, a unique key
makes the second `INSERT` wait and then fail.

**ConfigStore.** `table` and `history` are the two PostgreSQL tables, `rowLock` the
`FOR UPDATE` lock, `cache` and `expires` the Redis entries, `topic` the number of events on
Kafka. `StartRead`, `CacheGet`, `DbGet`, `CacheSet`, `HistoryGet` are
`get_configuration` and the history endpoint; `StartWrite`, `Insert`, `LockRow`,
`CommitUpdate`, `DeleteRow`, `Refresh`, `CacheDelete`, `Publish` the three writes. `Refresh` is
the `session.refresh` after the commit, a second `SELECT` that may find the row gone.
`Fail` ends a handler at any `await` with an exception or the death of the process;
`Expire` is the time to live. `commits` and `excused` are history variables.

**ServiceRegistry.** `node` is the owner session of each instance's ZooKeeper node,
`row` the status column, `cache` the Redis list, `client` and `waits` the life of each
instance's process and the handler it awaits, `proc` the handlers and the background task
(`Monitor`), which boots, registers config-service itself and then cycles for ever.
`ClientStart/Timeout/Stop/Crash` are the instances; `ZkExists` to `CacheDelete`
registration and deregistration; `CacheGet`, `ZkChildren`, `ZkGet`, `CacheSet` a lookup,
shared by discovery, on-demand checks and the monitor; `Probe`, `DbStatus` a check.
`ZkWriteRaises` is the exists-then-create window (`NodeExistsError`, `NoNodeError`).
`Fault`, `SessionLost`, `ConfigCrash`, `ConfigRestart`, `SessionExpires` are the failures.
Kazoo's calls run in the executor's threads (`run_in_executor`), so other handlers, and
other threads, run between any two of them: each call is a step.

**UserRoles.** `table` holds the rows of `user_roles`, each with its `assigned_at` (the
start of the inserting transaction) and, for the properties only, when the assignment
read the rows it replaced and when it committed. `req` is the request: the endpoint, its
caller and target, which call of `get_user_roles` it is in (`stage`), and its transaction:
rows still to delete, deleted, inserted, locked. Every request first runs
`get_user_roles` for its caller (`SelectRoles`), whose cleanup is a transaction of its
own; then `CheckAssign`, `ReadExisting` and the flush in SQLAlchemy's order: the insert
first (`InsertRow`), deletes in key order (`DeleteRow`), `Commit`. When the
role to assign turns up between check and read, the session holds a delete and an
add of one key. SQLAlchemy makes an `UPDATE` of such a row switch, without the key; here nothing else
is set, so no statement is sent and the row is not locked. `Wanted` and `WaitsFor` are the row
locks: which row the next statement may wait for, and who has written it. `Abort` rolls back.

**FeatureFlags.** Unleash is a log of states; a read sees the newest. Redis holds evaluations,
metadata and lists, each with what it was made from. A request is a handler with its locals:
an evaluation (`EvalGet`, the lookup `MetaGet`, `Fetch`, `MetaSet`, then `EvalSet`; each flag of a bulk evaluation is a
handler of its own, since `asyncio.gather` runs them concurrently), a list (`FetchPage` until a page is short or fails, then `ListSet`), and the
sync, which invalidates and then lists: it drops the list first (`DropList`), then the evaluations
(`DropEval`, in any order), then the metadata (`DropMeta`). `Fail` is an exception at any
`await`; `PageFails` and `LookupFails` are answers the code turns into a shorter list or a default.

**StreamingSpeech.** The session state of a socket is `buffer` and the handlers in progress (`tasks`).
The call of Triton is synchronous, so a handler gives way only where it emits: `DataSpeaks`, then one `Speak`
per chunk, then `Finish`, which resets the buffer, closes and deletes the session. Two data events interleave
at the emits. `SpeakFails` is an inference that raises, caught in `Recover`. `said` is what the client heard.

**TextChunks.** A chunk is a `Piece`: where it begins and ends in the text or in its words. A loop is the function from the number of
its turns to the values of its variables: `CutOff` is a turn of `get_text_chunks` with both its `strip()`s, `AddWord` one of
`chunk_text`, `Ends` where the words end in the normalized text.

**ModelCatalog.** `models` and `services` are the tables, a foreign key ties them; `copies` the hashes in
Redis. A request is `Check` or `Select`, the write with its commit (`Insert`, `WriteModel`, `WriteService`,
`Delete`, `Publish`), and then what it does to the copy (`Save`, `Patch`, `Reread`, `Fill`, `Drop`), each at an
`await`. A write sets the fields that were sent on the row as it is then, except what `Merge` computes
from the row it read. `Fail` ends a request after its commit, too.

**BrowserSession.** `local`, `own` and `remember` are the storages; the token of a session
stands for every access token issued for it. A request (`proc`) is a call through the interceptor
(`StartCall`, `AskFresh`, `StoreFresh`, `RefreshFails`, `CallRefused`, `CallEnds`), a login (`Login`, `Settle`,
`MeAnswers`, `MeFails`), the OAuth callback (`urls`: the addresses with tokens that stay in the history and may be opened
again at any time, after a logout too), an initialisation, a profile update or a logout. JavaScript runs
to its next `await`, so everything between two awaits is one step, and another request of the page or
another tab steps there. The server answers any way it may: tokens expire, a key is missing, a session
was ended on another device. `Leave` is a redirect, a reload or a closed tab, and ends
the requests of the page wherever they wait.

## 3. Runs

| Run | Checks | Shows |
|---|---|---|
| `config` | `TypeOK`, `HistoryMatchesTable`, `CopiesArePastVersions`, `StaleOnlyByRaceOrFailure`, `EventsFollowCommits`, `ImplementsStore`, `CacheConverges` | history complete and chained; no copy mixes versions or carries another key's identifier; stale entries explained; no event without its commit; the table refines `VersionedStore`; once writes stop Redis agrees with it |
| `registry_safety` | `TypeOK`, `AnsweredIsPersisted`, `StaleListExplained`, `DeregisteredStaysGone` | an answered registration is in both stores; stale lists explained; nothing but a registration under way brings a deregistered instance back |
| `registry_live` | `ListConverges`, `HealthConverges` | lists and statuses converge once instances settle |
| `registry_crashed` (violation) | `CrashedInstancesLeave` | the node of a crashed instance stays: it belongs to config-service's session |
| `registry_empty` (violation) | `EmptyServicesUnknown` | a service without nodes keeps its last status |
| `roles` | `TypeOK`, `DuplicatesOverlap`, `NoDeadlock`, `RequestsEnd`, `DuplicatesHeal` | two roles only from overlapping assignments; requests wait for each other neither in a circle nor for ever; duplicates go for good once assignments stop |
| `roles_single` (violation) | `OneRolePerUser` | overlapping assignments leave two roles |
| `roles_kept` (violation) | `CleanupKeepsOne` | a cleanup by an old list leaves no role |
| `flags` | `TypeOK`, `StaleExplained`, `ListGapsExplained`, `CachesConverge`, `SyncRecurs` | old entries come only from a fill that raced a sync or a failure; a list lacks a flag only after a failed page or the removal of a flag the offset had passed; both go; the sync comes round |
| `streaming` | `TypeOK`, `TextHeard`, `HeardOnce`, `HeardInOrder`, `StreamsCutRight`, `RequestsCutRight`, `SessionsGo` | text is said or waits but for what a reset, a start or a failed last synthesis drops; repeats and disorder only from overlapping or failed syntheses; the cutting keeps every word and the maximal length |
| `catalog` | `TypeOK`, `ServicesHaveModels`, `ModelCopiesExplained`, `ServiceCopiesExplained`, `NoUpdateLost` | no service without its model; a copy differs from its row only while a request owes it or after one that was overtaken or failed; overlapping updates keep each other's fields |
| `browser` | `TypeOK`, `TokensOfOneSession`, `UserOfTokens`, `SignedOutStays`, `CallsEnd` | a tab sends tokens of one session and shows its user, but for answers that came late; a session signed out stays out, but for those and until its callback page runs again; a refused request is sent again once, so every answer brings it nearer to its end |

**Bounds, and why they are enough.**

- `config`: two handlers, the smallest number that races, two keys, so that identifiers can be mixed up,
  two values, so that a lost update cannot look like no step at all (without the row lock `ImplementsStore` fails here), the
  first of them (`Created`) for creates and both for updates,
  `MaxWrites = 3`: create, update or delete, and create again. A third handler adds nothing the proofs leave open.
- `registry_safety`: one instance and config-service, two handlers (a request and the late
  one of a former life), `MaxLives = 2`, `MaxFaults = 1` of any kind; with a client timeout and
  a second start two first registrations of a service are in flight at once.
  `registry_live`: two instances of one service, so that one's deregistration marks the
  service unknown while the other serves, one handler beside the monitor, which runs for ever, one
  fault. The violations need one instance and, for `registry_empty`, one fault.
- `roles`: one user who has none, one, two or all of three roles from the start. With two or three, assignments and cleanups
  delete several rows each, at the same time, so that the order of their locks matters (deleting in any other order
  breaks `NoDeadlock` here). Two handlers, `MaxAssigns = 2`, one cut-off request; views, removals and
  reads are unbounded. `clock` only orders assignments and is bounded by them.
- `flags`: a client and the sync, two flags on pages of one (so that a flag can move between pages), one change
  in Unleash, one failure. One default value: which caller's default is cached is not a property here.
- `streaming`: four events of the client, two of them synthesizing at once (the smallest overlap), one
  failed inference. `TextChunks` is checked on every text of up to eleven characters over a letter, a space and a
  full stop, and every sequence of up to five words, for the maximal lengths four and five: the loop of `get_text_chunks` turns
  twice and more, after a cut at a break too, and there are words that are longer than a chunk.
- `catalog`: two models, one service, three handlers (two writers and one that deletes or publishes),
  `MaxRequests = 3`: each of them acts once, so that all three overlap; one failure.
- `browser`: two tabs (each has a storage of its own, beside the common one), two requests at a time, two
  sign-ins, both of which may be by OAuth: the second is the other session a late answer meets. How often their callback
  pages are opened again is unbounded. The proofs need none of the bounds.

The bounds (`MaxWrites`, `MaxLives`, `MaxFaults`, `MaxAssigns`, and their like in the other modules) stand
in the guards, and the proofs do not depend on their values. Symmetry is used only
in runs without liveness properties. Deadlock is checked except in `streaming` and `catalog`:
a stream ends, and requests on models are bounded as a whole. Elsewhere new requests
keep coming, so no state is without a step, except where everyone waits for everyone.

**Fairness.** Every handler that can step does (`WF` on its steps, but for those named below): asyncio schedules every
ready coroutine and PostgreSQL grants a free lock. Redis expires what has a time to
live, ZooKeeper ends the sessions of dead clients, the monitor's loop catches every
exception and runs on. Requests, failures, client crashes and Kafka owe nothing. `UserRoles` alone
assumes arrivals: a user keeps using the platform (`SF` on `StartRoles`, strong because handlers may
be busy again and again), since the cleanup happens only when somebody reads that user's roles. `ConfigStore`
needs less: only the expiry of Redis is fair, and the handlers owe nothing. `BrowserSession` assumes no fairness: `CallsEnd`
says that the answers a request can still wait for become fewer with each, and that they come is the timeouts of `authService` and
axios, or, for a refresh, which has none, the browser's own.

## 4. Proofs

All proof modules hold for every value of the constants that meets the
assumptions stated with them: the sentinels (`NoRow`, `NoHandler`, ...) are not members of the
sets they stand outside of, bounds are natural numbers, `ServiceOf` maps instances to
services, roles are numbers. Each theorem is `Spec => []Inv` from `Init => IInv`,
`IInv /\ [Next]_vars => IInv'` (one step per action) and `IInv => Inv`.

**ConfigStoreProofs.** `TypeInvariant`, `HistoryComplete`, `CopiesAreGenuine`, `Implementation`,
`StalenessAccounted`,
`EventsAccounted`. `HistoryMatchesTable` is not inductive: `CommitUpdate` writes from
the row in hand. The invariant `CoreInv` adds `LockHeld` (at that point the row in hand is
still the table's, which is what `FOR UPDATE` buys), `IdsInOrder` (no two rows share an
identifier, none is above the last given out) and `CopiesKnown` (every copy's identifier was given out,
so a later row cannot take it). `Implementation` maps `table` and `Len(history)` to the store:
`Insert`, `CommitUpdate` and `DeleteRow` are its steps, all others stutter; `LockHeld` makes the two-step
update one step of the store. For the events, `Accounted` counts per key and kind: events published and handlers that have
committed and may still publish (`Owing`, a finite set that a step changes by one handler) are together no more than commits.

**ServiceRegistryProofs.** `RegistryTypes`, `AnswersHold`, `StaleListsExplained`, `DeregisteredAreGone`. `Served`
says for each `await` of a registration what is already secured (after the ZooKeeper write the node, or
that it was forfeited; after the PostgreSQL write the row), so that the answer turns into
what the instance counts on; `Kept` is what a step owes the instances it is not about. `Aimed` says
a handler acts on the service of its instance, so the list it is going to delete is the
one its write changed; `Explained` is `StaleListExplained` per service. `Gone` adds to `DeregisteredStaysGone` why the
node stays away: no handler is between `exists` and the write of it (`Arriving`), no step but a start brings one there, and only
the start-up, never a deregistration, acts for config-service itself.

**UserRolesProofs.** `RolesTypes`, `TwoRolesNeedOverlap`, `RequestsNeverDeadlock`. `Informed` is the heart of the second: an assignment
that has read deletes, or has still to delete, every row committed before it read;
so a row that survives it was committed after, which is the overlap. `RowsDated` orders the times
in a row, `LocksApart` says no row is written by two open transactions, `Coherent` ties
the locals of a request together. For the third, `Ordered` says that what a transaction has locked lies below what it has
still to delete, but for the row it has inserted, and `Hidden` that nobody sees that row. So who waits for a request
waits for a row below that request's next; a circle, of any number of requests, would have no least row.

**ModelCatalogProofs.** `CatalogTypes`, `ServicesKeepModels`, `UpdatesKept`, `ModelCopiesAccounted`, `ServiceCopiesAccounted`. The
invariant is `TypeInv`, `ServicesHaveModels`, `NoUpdateLost`, `InStep` and `Explained`. `InStep` says for each `await` what the request has already
done to its row and what it still owes the copy; `Explained` that each copy is its row's, is owed by such a request, or belongs to a
row whose debtor was overtaken or failed. The foreign key (an insert or update without its model fails, the delete of a model takes its services along) is all
`ServicesHaveModels` needs.

**BrowserSessionProofs.** `TypeCorrect`, `OneSession`, `UserFits`, `SignedOutForGood`, `CallsGoOnce`. None of the three invariants is inductive: what a tab sees is looked up
in two storages, and a sign-in in another tab changes which. `Storage` says what the storages are, seen or not: `Preference` (localStorage has
both tokens while `remember_me` is set and none otherwise), `Pairs` (each storage's tokens are of one session), `OnePlace` (no refresh
token is in two storages), `SignedOut`, `UrlsApart` (tokens that came by an address
are in no tab's own storage, so that opening it again puts nothing in two places) and `Named` (which users a storage may hold beside its tokens). `Theirs` says that no other tab
keeps the session of a request for a user or of a logout to itself, so that its answer cannot put a user beside foreign tokens unnoticed. For `CallsGoOnce`, `GoesOn` lists what a step
makes of a request, and `Retried` says that one that waits for a refresh has had its retry.

Only model-checked: the liveness properties (`CacheConverges`, `ListConverges`, `HealthConverges`, `RequestsEnd`, `DuplicatesHeal`,
`CachesConverge`, `SyncRecurs`, `SessionsGo`), which rest on fairness and are outside what the prover does.

## 5. Findings

1. **Crashed instances stay** (`registry_crashed`). `zookeeper_client.py:75` creates every node in
   config-service's own session. `SERVICE_REGISTRY_INTEGRATION.md:69` promises nodes that
   disappear when the service crashes.
2. **Empty services keep their status** (`registry_empty`). The comment at
   `health_monitor_service.py:287` says such a service is marked unknown; nothing is written.
3. **Two roles** (`roles_single`). "Only one role per user allowed" (`auth-service/main.py:1218`) is not enforced
   between overlapping assignments. `DuplicatesOverlap` and `DuplicatesHeal` say how far it goes.
4. **No role** (`roles_kept`). `get_user_roles` promises to keep the most recent role
   (`auth_utils.py:434`); deleting by the list it read, it may leave none.

Found while modelling, without a run:

- *Configurations*: `session.refresh` after the commit can fail a committed update, which then neither invalidates nor
  publishes (part of `StaleOnlyByRaceOrFailure`'s excuses). Two updates of one key publish after their commits in no
  order; events carry only the key.
- *Registry*: an instance registers only at its start, so after the loss of config-service's ZooKeeper session running
  instances are not discoverable until they restart; `get_service_url` filters by the status the instance claimed when it registered.
- *Flags*: the key of a cached evaluation (`feature_flag_service.py:81`) does not name the default, so the default of one
  caller is served to another for five seconds. `FEATURE_FLAGS.md` gives evaluations five minutes.
- *Streams*: the documented payload of `data` is one object, the handler takes positional arguments; `isFinal` is sent with the
  last chunk and again with the closing response. A stream of asr-service does not get past `connect`, which passes
  `create_request` arguments it does not take.
- *Models*: an update never reaches `task_type` of an existing copy, though the docstring of the patch promises every field; `delete_service` drops the copy of a *model* of
  that name (`db_operations.py:783`), so the service's copy stays; in `update_service` a missing copy leaves `cache_fields` unbound;
  `save_service` reads `apiKey` where the payload has `api_key`; `rollback()` is called without `await`.
- *Roles*: `assigned_at` is the start of the transaction, so of two overlapping rows the one kept is not the one committed last.
  An assignment whose role has turned up since its check writes nothing for it, deletes the other rows and answers "assigned
  successfully"; if a cleanup that read before takes the row that was to stay for surplus, the user is left without a role
  that nobody removed (23 steps of the model: two overlapping assignments, a third, a cleanup).
- *Sign-in*: `logout` looks for a session whose session token is the refresh token (`auth-service/main.py:557`, `auth_utils.py:335`), finds
  none and answers "Logged out successfully": no session ends, and a refresh token outlives its logout. An expired access
  token at page load clears everything, though `SERVICE_DOCUMENTATION.md:700` says the refresh token is used. A 401 for a missing API
  key is answered by a refresh and a retry. The address of the OAuth callback carries the tokens and stays
  in the history (`callback.tsx:18-55`, `push`): a reload, or Back after a logout, stores them again. A logout or a refused refresh in one tab also removes the tokens of a sign-in another tab has
  made meanwhile. `failedQueue`, `ensureValidToken` and the hook's `refreshToken` have no callers.

## 6. Not modelled

`get_configurations` (a paged read), `watch_service_changes`, `update_service_metadata`, `invalidate_flag_cache` and the
repository's own `deregister_service` (no callers). Statements that touch only immutable data (users, role
names) in `UserRoles`; the row inserted with a new user by registration and OAuth, which is an initial
state. Formats, logging, JSON contents. Event contents and order: events carry only the key. Flags that are not boolean.
`update_service_health` (writes one field no copy has) and the read endpoints of model-management.
The server's table of sessions: no two requests race for a row of it, and what the browser must be ready for
is any answer. React state of each hook, deactivated users, tabs duplicated with their sessionStorage.
Streaming recognition: see the findings. The API gateway's in-process registry and load balancer are never instantiated.
Inference services keep no shared state; their registration is in `ServiceRegistry`. The vendored copies of the observability
library count requests. Retries inside a probe are one step: only their joint outcome is used.

## 7. What is left

1. The OAuth state (exists, then delete) and the one-time codes of the callback.
2. Streaming recognition, once its `connect` creates a request.
