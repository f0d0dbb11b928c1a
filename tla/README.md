# Verification of the Couchbase administration MCP server

TLA+ models of the server in `src/`, the TLC runs that check them on small
instances, and TLAPS proofs of what matters most for instances of any size.
`PROJECT.json` is the index: the components, the runs with the properties each
checks, the defects each property has been shown to catch, the lines of source
every definition stands for, the hazards of the code and the theorems.

    tlasany Dispatch.tla                                   # parse
    tlc -config MCDispatch_dispatch.cfg MCDispatch.tla     # one run
    tlapm ServerProofs.tla                                 # the proofs

1. [The system](#1-the-system)
2. [The modules](#2-the-modules)
3. [The runs](#3-the-runs)
4. [Fairness](#4-fairness)
5. [What is proved](#5-what-is-proved)
6. [Where the code and its text disagree](#6-where-the-code-and-its-text-disagree)
7. [Abstractions](#7-abstractions)
8. [What is not modelled](#8-what-is-not-modelled)
9. [The plan](#9-the-plan)

## 1. The system

The server offers the administration of Couchbase clusters, self-managed ones and
the Capella cloud, as MCP tools to an AI client. A browser console reaches the
same tools. Everything lives in one Python process per front end; what is
persisted is the log, the audit file, fixtures and the backup catalogue.

| Component | State it keeps | Operations | What makes it hard | Modules |
|---|---|---|---|---|
| MCP dispatch: `server.py`, `authz.py`, `dryrun.py`, `audit.py`, `auth/scope_gate.py`, `auth/request_auth.py` | the calls in flight, the jobs of a small thread pool, the cache of validated tokens | edge check, caller resolution, six gates, handler, reply, one audit record | the loop and the threads interleave; claims are read three times; clients withdraw calls; tokens expire in between | `Dispatch` |
| Token validation: `auth/oidc.py` | PyJWT's key set, the record of known key ids, the memo of unknown ones, a fetch budget | validate, fetch keys, throttle | key rotation, failed fetches, a budget shared by every caller | `TokenThrottle` |
| Console sessions: `auth/session.py`, `/auth/` in `gui/gui_server.py` | logins under way, sessions, two cookies per browser | login, callback, request with silent refresh, logout | threads share two dictionaries without a lock; a refresh takes seconds; refresh tokens may be accepted once | `ConsoleSessions` |
| Capella guardrails: `handlers/capella/guardrails.py` | the memo of ceiling refusals | project, name, marker, protection, deletability, ceiling | configuration decides, other people edit the objects meanwhile | `CapellaGuardrails` |
| Capella environments: `handlers/capella/environment.py` | none: every pass reads the cloud | ensure, status, park, resume, teardown, reap | many requests per call, no transaction, lost answers, other actors, cost | `EnvLifecycle`, `EnvProvision`, `CapellaCloud` |
| Capella primitives: `handlers/capella/__init__.py`, `spec.py` | none | one request each, behind the guardrails | the caller names the object itself; it changes between the guard's read and the write | `CapellaPrimitives`, `CapellaOps` |
| Capella client: `handlers/capella/client.py` | a session of connections | request with retries, listing page by page | which requests may be repeated, when a listing is whole | `CapellaClient` |
| Fixtures: `handlers/capella/fixture.py`, `handlers/fixture.py`, `handlers/fixture_core.py` | a directory of files and a manifest | export, import, verify | many steps, any of which fails; a second run over the leavings of the first; a source that keeps changing | `Fixture...` |
| Shared connections: `handlers/shared.py` | one cached cluster connection and its lock, the cached version | connect, request | double-checked creation, retries, a cache that several calls fill at once | `SdkConnection`, `AdminRequest` |
| Self-managed handlers: `handlers/*.py` | none | check, perhaps read, then one REST request or statement | gates and merges over settings that others change | `AdminCalls`, `AdminOps` |
| Diagnostics and egress: `handlers/diagnostics.py`, `egress.py`, `backup.py` | none | authorise every destination in a payload | addresses hide in names, nested fields and exempted keys | `Egress` |
| Backup catalogue: `handlers/backup_catalog.py` | one file per entry | record, list, get, update, delete, reconcile | files are written in place, without a lock | `BackupCatalog`, `Catalog` |
| Start-up: `profile_config.py`, `deployment.py`, `tls_config.py`, the start of `server.py` and of the console | the environment, the snapshot taken of it | fill in defaults, validate, load, enforce, bind | several modules read one variable, each with its own reading of truth | `Startup` |
| Console dispatch: `gui/gui_server.py` | the caller's claims in a context variable | the request hooks, then the same gates for a browser | no await between the gates; the hooks decide who is answered | hooks: `Startup` |
| Logging, health check, compatibility shims, scripts, generated docs | | | | |

How they meet: at start-up the environment decides what is loaded, what is
demanded of callers and whether the process serves at all (`Startup`). A call
enters through the dispatch (`Dispatch`), which asks the token validation
(`TokenThrottle`) for claims and runs a handler on a thread. A Capella handler
goes through the guardrails to the client and so to the cloud, whose objects
other sessions and people change at the same time (`EnvLifecycle`,
`EnvProvision`, `CapellaPrimitives`, on `CapellaGuardrails` and
`CapellaClient`). A self-managed handler checks destinations and versions and
then uses the shared connection or the REST helper (`AdminCalls`, which composes
`AdminOps`, `Egress`, `SdkConnection` and `AdminRequest`). The fixture and
catalogue tools work on files that outlive the process (`Fixtures`,
`BackupCatalog`). The console authenticates through its sessions
(`ConsoleSessions`) and then calls the same handlers. Every decision ends in one
audit record.

The properties that make each part correct are those of section 3;
`PROJECT.json` lists under `hazards` each place in the code where one of them
could fail.

## 2. The modules

`MC...` modules hold only the small values TLC needs, `...Proofs` modules hold
theorems. Definitions keep the names of the functions they stand for where that
is possible. A comment that begins with "Defect" introduces a plausible mistake;
it is no part of the model, and `mutants` in `PROJECT.json` says which property
catches it.

### Dispatch

The state is that of one server process: for each call what it asks, where it
stands (`pc`) and its `records`; the `loop` (the call whose synchronous stretch
is running); the thread pool (`queue`, `job`); the tokens' lives (`phase`), the
claims cache (`cached`) and whether the key set is held (`keysHeld`).

| Action | Code |
|---|---|
| `Arrive`, `FinishEdge` | `_ScopeAuthMiddleware.__call__`: the token is validated on a thread, 401 or on |
| `BeginCall` | `call_tool` from its entry to the first await |
| `FinishCaller` | `current_claims` on a thread: the first read of the claims |
| `LoadGate`, `ScopeGate`, `CeilingGate` | the gates in order: unknown, deployment, read-only; scope; ceiling, automation, confirmation, preview. They run on the loop without an await between them: `loop` |
| `FinishHandler`, `Reply` | `asyncio.to_thread(handler)`, then classification and record |
| `Cancel` | the client withdraws the call: `CancelledError` at an await |
| `TokenAges`, `CacheEntryLapses`, `KeysLapse` | time |

The three gates are separate actions because the code asks for the claims
again between them, and a validation on the loop can see another key set or
token phase than the one before; no other call's stretch runs in between.

### TokenThrottle

What `Dispatch` treats as "a key fetch succeeds or fails" in detail: PyJWT's key
set (`keySet`), `_resolved_kids` (`resolved`), `_unknown_kids` (`memo`, with the
age of each entry), `_refresh_times` (`refreshes`: the code's list of times, as a
set of numbered passes with their ages, since two may fall into one tick). Ages
are counted in ticks of which `Window` make `_UNKNOWN_KID_WINDOW` and
`_REFRESH_WINDOW`.

| Action | Code |
|---|---|
| `KidIsKnown` | `_kid_is_known`, up to its own fetch |
| `RefuseIfRecentlyMissed` | `_refuse_if_recently_missed`, the one section under the lock |
| `GetSigningKey`, `Ask`, `Answer` | `PyJWKClient.get_signing_key`: the request leaves and its answer arrives in different steps, so that a rotation or another thread comes between |
| `RememberResolvedKid`, `ForgetUnknownKid` | `_forget_unknown_kid`: two sections under the lock |
| `Tick`, `Lapse`, `Rotate`, `Switch` | time, the key set's lifespan, the provider |

`passes` and `held` are history: passes of the gate within the window, and
threads whose key has been held since they began.

### CapellaCloud, EnvLifecycle, EnvProvision

`CapellaCloud` holds, per cluster id, its project, name, marker (the
environment's name and time to live, kept in the description), state and
deletion protection, and the state of its App Service. `HumanEdit`,
`EnvironmentCreated`, `TtlElapses` and `Progress` are everything other actors
do. `everManaged`, `everDeletable` and `everExpired` are history variables for
properties about the past. `CapellaGuardrails` (constant operators) is used by
both environment models and by `CapellaPrimitives`.

`EnvLifecycle` models teardown, reap, park and resume. Each worker is a thread
with a program counter whose labels are the requests it makes; an action is one
request with what the code computes from its answer up to the next. `Refused`,
`Fails`, `Reads` and `Writes` are the ways `_invoke` ends: refused by the
ceiling or a disabled tool, failed without effect, or done, with the answer
perhaps lost.

`EnvProvision` models ensure and the primitive cluster create: list, adopt or
count and create, then one phase for each piece that was asked for
(credential, allowed address, sample data, scope, collection, App Service,
endpoint, bring online), each seen, made and re-read as the code does.
`BringOnline` may be refused in the ways `SwitchOnRefused` names: by a 409, which
Capella answers also while it is at work on the cluster, as already online, or as
not resumable yet. `CountsAsOnline` is the code's reading of them, any 409 and
"already online", and `conflicts` records whose switch-on a 409 answered.

### CapellaOps, CapellaClient, CapellaPrimitives

`CapellaOps` is the registry of `spec.py`: for each tool its method, how deep
its path goes and the flags dispatch and guardrails read. `CapellaClient` holds
the rules of `capella_request` (what is repeated) and `capella_list` (when there
is another page). What an endpoint lists is a set of numbers in their order: a
page of it is those with the right `Position`, and what was gathered is a set and
a count; the cursor of its answers names the last page, the total, both or
neither (`CursorFields`). `CapellaPrimitives` runs one call at a time through them:

| Action | Code |
|---|---|
| `Begin` | `_handle_primitive` up to its first request |
| `CheckOwn`, `CheckTarget` | ownership of the live cluster in the path, or of the one the body names (`_WRITES_ELSEWHERE`) |
| `CheckName`, `PreserveMarker` | the name a caller gives; `_preserve_ownership_marker` |
| `ListPage` | a page of `capella_list`, for a listing tool and for the guard of the project delete |
| `Send`, `Fails` | the request, and an attempt of any request that fails, perhaps after taking effect |
| `HumanEdit` | people, between any two requests |

`Reached` says which clusters Capella writes to for a request, independently of
what the code believes (`WrittenByBody` beside `WritesElsewhere`), so that a
guard on the wrong cluster shows. `inside`, `outside` and `steady` record what
the guardrails would have said at each moment of the call.

### FixtureFiles, FixtureExport, FixtureImport, Fixtures, FixtureStore

`FixtureFiles` is the directory and what `fixture_core` does with it: hashing,
`fixture_integrity`, remapping of keyspaces and indexes. A file's SHA-256 is its
content.

`FixtureExport` goes from `ReadStructure` through `OpenFile`, `WritePage` (one
page by key range, on what the source holds at that moment) and `EndData` to
`OpenManifest` and `WriteManifest`, for both editions; `Write` is an
application on the source. `FixtureImport` goes from the check of the directory
through buckets (Capella only), collections, the documents line by line,
indexes and their build, where every create may fail, be answered or be done
with its answer lost (`Creates`). The two importers differ where the code does:
what is created, how names are mapped, whether indexes are deferred, built per
keyspace or per bucket.

`Fixtures` composes them on one directory with `Restart`, the death of the
server at any point, and `Online`, a build that ends. `FixtureStore` is the
abstract specification: a directory verifies only as what one finished export
wrote.

`TargetKeyspaces` and `Buckets` are all the places an import can come to: the
recorded collections, those the maps name, and the recorded ones in the buckets
the maps name. `TargetAssumption` leaves out buckets of the target that no call
concerns.

### AdminOps, Egress, SdkConnection, AdminRequest, AdminCalls

`AdminOps` is the registry of the self-managed tools: the hint each module's
`TOOLS` gives a client and, separately, what its handler does. `Egress` is
`egress.py`: the verdict on one destination and the walks over payloads.
`SdkConnection` is `get_sdk_cluster` step by step, `AdminRequest` the retry rule
of `admin_request`. `AdminCalls` composes the four: a worker's call goes through
the steps its tool needs, in the code's order (`Steps`): the version gate with
its cache (`AskVersion`, `ReadPools`, `StoreVersion`, `RereadVersion`), the
statement's form, the destinations, undeclared arguments, the read before a
merge (`ReadCurrent`), the connection (`Connect`) and the request (`Send`,
`Fails`). `Upgrade`, `EditDocument` and `MoveName` are the cluster, people and the
DNS. `strayed`, `misled` and `outdated` record requests that did what the tool's
registry entry, the egress rules or the version gate exclude, judged by what
reaches the cluster (`Strays`, `Misleads`).

### Catalog, BackupCatalog

`BackupCatalog` follows the handlers file operation by file operation: `LookUp`
(`exists`), `ReadEntry`, `Open` (which truncates), `Finish`, `Unlink`, `Glob`
and `ReadNext` of a listing, `MarkNext` of a reconciliation, with `Fails` and
`Crash` between any two. `Catalog` is what the catalogue promises; `Held` is the
refinement mapping: a file being written counts as what it held before, one left
empty is lost.

### Startup

From the environment an operator writes to a process that serves. `Edit` and
`Launch` are the operator's; then, in import order, `ApplyProfile`
(`profile_config`), `ValidateProfile`, `Snapshot` (`handlers.shared`), `Load`
(`deployment` and the read-only filter), `OpenAudit`, `EnforceServer` or
`EnforceConsole`, and `Bind`. The console is launched by its own script, by a WSGI
server through `create_app` (`factory`), or by one that imports the app without it
(`wsgi`). Its check sees `GUI_HOST` (`GuiExposed`); where it listens is `socket`,
which `GUI_HOST` decides only for the script (`Sockets`). `Truthy`, `Listed` and `Literal` are the three
readings of a boolean the modules have, and every use keeps the one its module
has. `ConsoleAnswers` is the pair of request hooks of the console, `Admitted` whom
they let in where it listens.

### ConsoleSessions

The state is the two dictionaries (`pending` is `_pkce_store`, `begun` orders
logins by age, `store` is `_store`), the two cookies of each browser, and per
thread the request in progress. The code has no lock: an iteration over a
dictionary and the statements after it are separate actions, and `raced` tells a
request that the dictionary has changed under its iteration, which in Python
raises. `Lookup`, `Refresh`, `Update` and `Merge` are the four points at which
another thread can act in `_get_session_claims`. `SortLogins` is the sort that
caps the logins; `Earliest` is its slice. `madeFrom`, `issued` and `loggedOut`
are history for the properties.

## 3. The runs

Every run must finish without an error.

| Run | Instance | Shows |
|---|---|---|
| `dispatch` | authenticated HTTP; two calls that may be withdrawn, one thread, a cache of one, a token that may write but not read, a tool of every kind | `DispatchInv`: types and `RunsAreAuthorised`, no handler is reached by a call a gate would refuse, however expiries, cache lapses and failed fetches fall between the three reads of the claims; `DeadTokenPassesNoGate`; `RecordsTellWhatHappened`: one record per answered call, and it is true; `EveryCallIsAnswered`, under fairness |
| `tokens` | two threads; tokens of an old key, a new one and of none; a budget of one fetch in a window of one tick | `ThrottleInv`: the budget holds per window, and only keys the provider served are remembered; `HeldKeysNeverThrottled`; `RotationRecovers`, under fairness |
| `lifecycle_calls` | one cluster of four kinds (an environment running, or off and deletion-protected; a listed name; hand-made); teardown, reap, park and resume with and without a human; `cluster_delete` needs a human; one edit, one fault | `LifecycleInv`: types and `OnlyManagedTouched`; `OnlyDeletableDestroyed`, `CeilingHolds`, `AlreadyOffIsTrue` |
| `lifecycle_collect` | recurring sweeps over two clusters, new clusters taking old names, App Services that must go first, one fault | `SweepAccounts`, `ReapOnlyExpired`, `ReapedMeansDeleted`; `ExpiredCollected`, under fairness |
| `provision` | two workers, both ways to create, two projects, a ceiling of one; clusters of the same name that were there before, one of them protected by its id; an edit | `SpendBound`: at most one cluster more for each worker beyond the first; `ProvisionInv`: only managed clusters are configured |
| `provision_converge` | one caller polling with every piece asked for, in two projects with a ceiling each, one lost answer or fault, three ids | `NeverDuplicated`; `AnswerInv`: ready means that all is there, the endpoint online or its switch-on answered by a 409, and a refusal, counted or remembered, is owed; `Converges`, under fairness |
| `primitives` | one call at a time of a tool of every kind the registry has, with any ids, over two clusters that people edit, make or delete while it runs; two failed or unanswered requests, pages of one item | `SandboxInv`: no write reaches a cluster the guardrails kept the call from all along, and no refusal is undue; `ClientInv`: a create takes effect once, a listing whose cursor names the last page or the total, and that is not marked truncated, is whole; `NeverLaundered`: no tool takes the prefix or the marker off |
| `fixtures` | two collections of two documents; exports of all, of one and of none of the documents; imports with and without a map; both editions; one write, one fault or crash | `ExportInv`: documents that stood still are exported at their version, once, and nothing is left out in silence; `ImportInv`: an import without problems has loaded everything, passes the recount and has its indexes built; `RepeatSucceeds`; `StoreSpec`: the directory implements `FixtureStore` |
| `admin` | two workers and a tool of every kind, every payload and statement of the small sets, two faults, one change by others | `AdminInv`: no effect a tool's registry entry excludes, no destination nobody admitted, no gated tool below 8.x; `ChangeInv`: applied once, nothing reset; `ConnectionInv`; `CallsEnd`, under fairness |
| `catalog` | two workers, two entries on two planes, a failing file operation and a crash | `Implements`: the files implement `Catalog`; `CatalogInv`: a listing conceals nothing, marks fit |
| `startup` | six starting environments and any two further settings; the server, and the console by each of its three launches | `AccessInv`: what other machines reach is guarded, of the console's bind as far as `GUI_HOST` names it, and a human is believed only at a terminal; `SettingsInv`: what was stated and what the profile demands is in force |
| `sessions` | two threads, two browsers, three logins in a store of two, two sessions, rotating refresh tokens | `OnlyItsBrowserRedeems`; `SessionInv`: a session is its browser's and none comes back after its logout; `RefreshTokenIsCurrent` |

An invariant named `...Inv` is the conjunction of named parts that are checked
over the same states, the module's types among them; a part that is about the
code has its own defect under `mutants` in `PROJECT.json`: the definition of one
piece of code replaced by a plausible mistake, which makes that run fail. So that
such a mistake can be put in place, a few definitions are split finer than the
code's functions.

Why the bounds are enough. The properties relate at most two calls, two workers,
two clusters, two files or two browsers, so two of each meet in every way. Where
only one actor runs, the rest of the world acts for the others:

- `EnvLifecycle` runs one worker: with two the state space outgrows a run that
  is to be repeated. All its safety properties are proved for any number. What a
  second worker would do to the first one's clusters the edits, expiries, new
  environments and progress of the cloud already do.
- `CapellaPrimitives` runs one call at a time: another call changes clusters no
  differently than people do. `MCCalls` is one tool of each kind that method,
  path, flags and special cases tell apart, computed from the registry.
- `AdminCalls` runs one call per worker, since what earlier calls left behind is
  a starting state; only the tools of `Overlapping` (the users of the shared
  connection that also ask for the version, and the two that write one user) run
  at once, and people change only what a running call is about.
- `BackupCatalog` runs one call per worker until a crash, and with `Overlaps =
  FALSE` no two calls that change the same entry overlap; section 6 says what
  they do to each other. Readers overlap with everything.
- `Fixtures` runs one export and one import at a time and three calls in all.
  `Bounds` leaves out failures after an export has overtaken an import, whose
  effect is recorded in `raced` already, and an export that runs on when an
  import has ended. An application writes only while an export runs; before it a
  write is another starting content. An import is made by the edition that
  exported.
- `Startup` starts from the environments the deployment guide describes and
  varies any two variables at once: a divergence between two modules' readings
  takes at most two.

`dispatch` fixes one configuration, in which every gate is in force; the
theorems cover the others. Its one token lacks the read scope, so that the scope
gate decides in both directions. A cache of one entry is full after one token, a
login store of two evicts on the third login, a ceiling of one is reached by the
first create, a fetch budget of one by the first unknown key: the limits are hit
in every run that has one. `MaxEdits` and `MaxFaults` bound what people and the
network do: one is what a property about a pair read-then-write needs, and where
two are allowed a repeat may itself be lost. `MaxRefresh` bounds the renewals.
Cluster ids, logins and sessions are drawn once each and their number is a bound
too: `provision` stops creating when ids run out, which is why `OutOfIds` appears
in `Converges`. Symmetry is used for threads, browsers, the ids of logins and
sessions and the cluster ids that no setting names, in runs that check only
safety; nothing in the specifications tells those apart. A run whose actors stop
for good when they have made their calls says `CHECK_DEADLOCK FALSE`.

## 4. Fairness

- `Dispatch`: strong fairness of each call's next step on the loop. The ready
  queue of asyncio is first in, first out; a call that becomes ready again and
  again, though the loop is busy with another stretch each time it is looked
  at, is run. Weak fairness of each thread: handlers and key fetches carry
  timeouts. Nothing is assumed of clients or clocks.
- `TokenThrottle`: weak fairness of each thread's validation (fetches carry
  timeouts) and of time. `RotationRecovers` is about a key that somebody keeps
  using: strong fairness of sending a token of the new key on some thread, since
  its thread is busy now and then with other tokens; and it promises nothing
  unless the provider stays up and serves the key from some moment on.
- `EnvLifecycle`, `EnvProvision`: weak fairness of each started call, whose
  requests carry timeouts, and of the control plane's work on what it has
  accepted. `ExpiredCollected` assumes also that sweeps recur, which the tool's
  description asks of the operator, and `Converges` that the caller polls, as
  the answer tells it to. Faults are bounded, so they end.
- `AdminCalls`: weak fairness of each worker's step: a request ends by its answer
  or its timeout, a thread is scheduled, and Python's lock is given to somebody
  who waits. `CallsEnd` needs no more because a worker makes one call and
  retries are counted.
- The others promise no liveness.

## 5. What is proved

`ServerProofs` holds what is proved of the server's own process, of its dispatch,
of its token validation and of its start-up. Of `Dispatch`, for any number of
calls, threads, tools and tokens, any size of the cache and any configuration that
satisfies the assumptions there:

- `DispatchHolds` (`DispatchInv`: types and `RunsAreAuthorised`), `RecordsAreTrue`
  (`RecordsTellWhatHappened`), `ScopeGateSeesLiveTokens`
  (`DeadTokenPassesNoGate`).

None of these is inductive. A handler's run is separated from the gates by the
thread pool: that the call at the end of the queue was admitted must be carried
along with the job. So `IInv` has, beside the types: `OneJobEach`, that a call
has at most one job, queued or running, and stands at the stage that awaits it
(without it two jobs could write one call's outcome); `HandlersAdmitted`, that
a handler's job belongs to a call every gate admits; for each call what the
gates it has passed established, that an outcome exists only after its handler,
and that the record is true; and `CacheIsLive`, that a cached token is one that
has not expired. One lemma per action shows that it preserves `IInv`; the
action property follows from `CacheIsLive` and the step at the scope gate.

Of `TokenThrottle` (`ServerProofs`), for any number of threads, key ids and key
sets and any window and budget:

- `BudgetIsKept` (`ThrottleInv`), `HeldNeverThrottled` (`HeldKeysNeverThrottled`)
  and `ResolvedWerePublished` (`OnlyPublishedResolved`, a conjunct of
  `ThrottleInv`).

That the budget holds per window is not said by any one variable: the gate prunes
its list of passes only when it is asked. `GateOK` says that the passes within the
window, which the history records, are exactly those the list still has in it
(`Recent`), each with a number of its own, so that their number is what the gate
compares with the budget; the memo and the record of resolved keys are bounded by
the eviction that precedes every addition.

For the other two, the invariant says that a thread counted as having held its
key still holds it and is at none of the places that `_kid_is_known` leads to with
an unknown key (`HeldOK`), and that the key set, an answer on its way and the
record hold published keys only (`ProvenanceOK`). An answer that replaces the key
set and the emptying of a full record may take the key of any thread: these are
the lemmas that need care.

Of `Startup` (`ServerProofs`), for every environment an operator can write, not
only the variables that the run lets vary:

- `AccessHolds` (`AccessInv`) and `SettingsHold` (`SettingsInv`).

The invariant is about order: what was decided at a stage (`Decided`: the
profile's defaults, the snapshot of read-only mode, the tools loaded) is the
value that the environment gave then and is not changed by a later one; whoever
serves has passed its check or is a worker of the console that refuses requests,
and listens where its launch allows (`Posture`). Of a bind that only a WSGI server
knows `AccessHolds` says who is let in, not how the bind is protected: the code
cannot see it (section 6). `AccessFollows` and `SettingsFollow` derive the properties from it,
case by case.

`EnvLifecycleProofs`, for any number of clusters, projects, names, workers,
edits and faults and any configuration of the guardrails:

- `LifecycleHolds` (`LifecycleInv`: types and `OnlyManagedTouched`), `DestroysOnlyDeletable`
  (`OnlyDeletableDestroyed`), `ReapsOnlyExpired` (`ReapOnlyExpired`),
  `CompositesRespectCeiling` (`CeilingHolds`), `ReapedIsDeleted`
  (`ReapedMeansDeleted`).

The cloud changes between any two requests, so a guard that held when it was
read need not hold at the write. What survives is the past: the history sets
only grow. `IInv` says for each worker what its position has `Established`
about its target in terms of those sets (a worker about to delete has a target
that was managed and deletable; a sweep's entries had expired; the pin still
agrees with the target) and that every accepted write already made satisfies
the properties.

`ReapedMeansDeleted` is proved on top of `IInv`. A sweep counts an environment
as reaped also when it finds its App Service already being destroyed, so
`ReapInv` adds that such an App Service is one the server has asked Capella to
destroy. One lemma per group of actions shows that a step adds to the reports,
and to the App Services being destroyed, only what has been deleted
(`ReapStep`).

- `SweepsAccount` (`SweepAccounts`) and `OffIsTrue` (`AlreadyOffIsTrue`).

A sweep's books are four sets that different steps write: what is still to be
visited, what is being torn down, reaped and refused. `Balanced` says at each
place of the worker that they are the expired environments it listed, and
disjoint. Disjointness needs that no id is listed twice (`ListedOnce`), and that
in turn that a listed cluster still lies in a project the sweep has done with
(`Placed`), which holds because a cluster never changes its project
(`Permanent`). A sweep that ends because a primitive is disabled is the
exception of section 6 and is left out by name (`composite_refused`).
`AlreadyOffIsTrue` is about the one step that answers "already off", which reads
the state it speaks of.

`ConsoleSessionsProofs`, for any number of threads, browsers, logins and
sessions, any cap on the logins and whether or not refresh tokens rotate:

- `SessionsHold` (`SessionInv`).

That a login makes at most one session is lost between the callback, which
takes the login from the store, and the creation of the session, while the code
is exchanged at the provider. `IInv` carries it across: `WorkIsSound` says what a
request at each stage holds (one that redeems a login holds a login that is no
longer pending, was begun by its own browser and has made no session yet),
`RedeemedOnce` that no two requests redeem the same login, `LoginsAreBegun` that
what is pending or named by a cookie was begun, by that cookie's browser, and
that a login which has made a session is not pending again, `SessionsAreMade`
that a session somebody holds or has left was made, so that its id is never drawn
again. `StoreMoves` is the lemma behind `LoggedOutStaysOut`: no step of a refresh
turns an absent entry into a present one.

- `TokensStayCurrent` (`RefreshTokenIsCurrent`): a stored session holds the last
  token its provider issued, or a request is about to store it.

Several requests refresh one session with the token each of them has read.
`TokenIInv` says that none of them holds a later token than the store, that at
most one is about to store a later one, and that this one carries the latest
(`Current`): a provider that rotates accepts a token once, so the others are
refused, and what they then remove is gone and no longer spoken of. For a
provider that does not rotate there is only one token (`NoneRotates`).

- `LoginsAreTheirBrowsers` (`OnlyItsBrowserRedeems`): a pending login leaves by
  its own browser's callback, by its age, or because a later one pushed it out.

The cap sorts a list of the logins and cuts it by the number of them at that
moment, which is another. `Listing` says of a thread that sorts that every login
missing from its list began later than all on it, and of one that evicts that
each login it is about to remove has a later one. That the newest survives is
the lemma `NewestStays`: the part cut off is never the whole list, by a count of
the logins older than a given one.

`AdminCallsProofs`, for any number of workers, any tools, payloads and
statements:

- `CallsShareConnection`: the administration calls implement `SdkConnection` (a
  refinement, with the identity as its mapping); `AdminConnectionIsOne`
  (`ConnectionInv`), which follows from it and from `ConnectionIsOne`.
- `HandlersKeepTheirWord` (`AdminInv`) and `ChangesAreMadeOnce` (`ChangeInv`).

A call's checks lie steps before what they protect: the release, the statement
and the destinations are looked at, then the connection is awaited, then the
request is sent, perhaps several times. `IInv` says of each call what the steps
before its place have shown (`Passed`: a gated tool has seen release 8, a checked
statement is one of those the validators accept, a destination was admitted under
the addresses its name had then), how often a request that is not repeated can
have taken effect (`Once`), and that a document that was whole is whole
(`WorldOK`, `Whole`). `ShownStays` carries what a call has shown across the steps
of the others: a release never falls, a name that moves is recorded in `moved`,
and what could not be read is remembered in `unread`. `AdminAssumption` asks that
the value for "not set" is neither a field's value nor a release, which the code's
`None` is.

`OneConnection` is not inductive: two builders that both found the cache empty
would each open one. `ConnectionIInv` adds `HolderIsInside` (whoever is inside
the lock holds it, so there is one), `OpenIsOwned` (an open connection is the
cached one or its builder is inside) and `BuildersFindNothing` (a builder inside
the lock found the cache empty under it, which is what the second check is for).

`EnvProvisionProofs`, for any number of worker threads, projects, wishes and
faults, any finite set of clusters and any configuration of the guardrails:

- `ProvisionHolds` (`ProvisionInv`: only clusters that were inside the sandbox
  are configured), `ReadyIsTrue` (`ReadyMeansReady`: what an ensure that answers
  "ready" was asked for is there, and its endpoint is online unless a 409 answered
  the switch-on: section 6).

`ready` is answered at the last request of a call, and what it speaks of was
seen or made by earlier ones, which other threads' requests separate from it.
`IInv` says for each thread what it has `Established` at its place: the wanted
pieces before the current one exist (`DoneBefore`) and its target was managed
when it was adopted. `StableOK` carries this across everybody else's steps: in
this model nothing is deleted from a cluster (`Grows`), as nothing in
`capella_env_ensure` deletes; a person who removes a bucket between two requests
is outside it, and of an environment that another session tears down meanwhile
`pieces` keeps what was made on it. That clusters and threads are finitely many is
assumed because the ceiling compares cardinalities, which must be numbers.

- `SpendStaysBounded` (`SpendBound`): concurrent creates exceed the ceiling by at
  most one cluster for each thread beyond the first.

A thread counts the environments of its scope project by project, and what other
threads create meanwhile in a project it has already counted escapes it. The
invariant `Spent` bounds, for each scope, the clusters there are plus those
pending (a thread past its count that has not created yet) by the ceiling and the
number of threads. To be inductive it must say what the threads in the middle of
a count may still miss: `Ordered` lines them up by when they began to count, and
`Missed` says that what one of them has not seen was created by others, once each,
other than those that began before it and are still counting, or else one of them
has finished its count meanwhile and the bound holds by that one. Each action has
a lemma that says how these cardinalities move.

- `AnswersAreTrue` (`AnswerInv`: also `RefusalIsOwed`, that nobody is told the
  ceiling is reached unless it was), under the hypothesis that the ceiling is
  counted over one project at a time (every scope is a singleton). With an
  allowlist of several projects the sum is of counts taken at different moments,
  an environment can be torn down in one project and made in another in between,
  and a refusal then may be of a sum that never was.
- `OneAtATimeNoneDoubled` (`NeverDuplicated`), under the hypothesis of one thread
  and no raw create: two overlapping calls do make two clusters of one name
  (section 6). `SoughtInv` says that between the listing and the create no
  environment of the sought name appears.

`CapellaPrimitivesProofs`, for every tool of the registry, any number of clusters,
any configuration of the guardrails, any page size, cap, failures and edits by
people:

- `WritesStayInside` (`SandboxInv`), `ClientIsHonest` (`ClientInv`) and
  `NothingIsLaundered` (`NeverLaundered`).

Between a guard's read and the write the cluster may change, so `PassedOK` says in
terms of the past what the steps a call has behind it have shown: the cluster in
the path, or the one the body names, was inside the sandbox at some time; no
foreign cluster that people left alone is in the project; the name a caller gives
is allowed; the description about to be written has a marker if the steady cluster
has one. Which steps a tool may omit is `AfterIs`, and that the omitted ones were
not needed is a fact about the whole registry, `RegistryProper`: every write on a
cluster is guarded or in `Additive`. A refused call is owed its refusal because
`outside` has every cluster the guardrails would keep it from now (`SeenOK`).

That a listing is whole is promised where the cursor names the last page or the
total (section 6), and is an argument by counting, `PagesOK`: whatever stands
still, and has its place on the pages read so far, has been seen, and the count
never exceeds the places of those pages. An edit moves only what comes after it,
and that is no longer called steady (`EditIs`); a page holds at most `PerPage`
(`ChunkIsSmall`), and an empty one lies past the end (`ChunkIsEmptyLast`: below
the first element beyond a place there are no more elements than places). So at
every way to stop, an empty page, the last page by the cursor, a count that has
reached the total, a cap that has reached it, nothing steady is missing
(`NothingBeyond`, `FirstHas`). `AppliedOK` counts the attempts of the last request
that can have taken effect: fewer than there were attempts, and of a POST one.

`BackupCatalogProofs`, for any number of workers, backups, planes and tags:

- `AnswersFit` (`CatalogInv`): a listing tells of every entry that no other call
  changed while it read, that it matches or that it cannot be read, with
  overlapping calls too (`ListTellsAll`); and the marks a reconciliation leaves are
  those the listing of the plane gives, when no calls overlap (`MarksFit`).
- `FilesAreACatalog` (`Implements`): the files implement `Catalog`, under
  `~ Overlaps`. Without that hypothesis it is false, and section 6 says how.

`CatalogInv` needs for each call that what it has read is still so for the entries
others left alone (`ListOK`). The refinement needs more: that a call which is
about to write still finds the file as it looked it up (`WriteOK`, `SyncOK`), and
that no other call which changes this entry is under way (`Exclusive`). `Held`
counts a file being written as what it held before; the lemmas about it say of
each file operation which entry it can change, so that every operation maps to
the abstract step or to none: the truncation to none, the end of the write to the
change, a crash in between to the loss of that entry.

`FixturesProofs`, for any number of keyspaces, documents, pages, calls, faults
and restarts:

- `ExportsAreAStore` (`StoreSpec`): the directory implements the abstract
  `FixtureStore`; `OnlyFinishedVerifies` is the part of it a reader relies on.
- `ExportsAreExact` (`ExportInv`), for any page size and any writes of the
  applications between two pages.
- `ImportsKeepTheirWord` (`ImportInv`), under `OneToOne`: no map of an import
  sends two recorded keyspaces to one place. The code does not refuse such a map,
  and with it the documents of one keyspace overwrite those of the other, which
  the import does not notice. `OwnIndexesAreBuilt` states the third part,
  `OwnIndexesBuilt`, without that hypothesis.
- `ImportsCanBeRepeated` (`RepeatSucceeds`), under `OneToOne`, `WholeBuckets` and
  `DefaultScopes`, which the maps and collections of the run satisfy. Each part
  of them is a way the code does report a problem on a sound target: when two
  recorded buckets go to one that does not exist yet, the second creation, decided
  from the list of buckets read at the start, fails; when the map splits a bucket,
  Capella refuses the collections sent elsewhere or never makes the bucket the
  others stay in; and it makes no collection of a `_default` scope, so that only
  the default collection may lie in one, before and after the map.

An export records a hash when it closes a file and uses it when it writes the
manifest at the end. `RecordedOK` says that what it has recorded is still what
lies on disk, `ManifestOK` that a manifest that can be read speaks of a content
that an export finished. With them every step maps: `WriteManifest` to `Finish`,
because the files are as recorded; the truncation of a file to `Spoil`; a page
that makes an older manifest true again to `Restore`.

That paging by key neither skips nor repeats is `GatheredOK`: of the file under
way, every document that stood still and whose key is not above `export.last` is
there (`Complete`), and of every closed file all are. It needs that files ascend
(`Sorted`, in `DirOK`) and end at `export.last` (`ExportOK`); the lemmas
`RankOK`, `PageOfOK` and `InKeyOrderOK` say what a page is, by counting, and
`AppendOK` that a page behind an ascending file gives an ascending file.

An import is right because its work list is honest: `ArrivedOK` says that a
recorded file is either still due or wholly on the target, or a problem is noted;
`ProgressOK` follows the file under way line by line, `CheckedOK` keeps the files
equal to what was checked while no export interferes (`raced`), `CleanOK` says
that a target that was empty holds nothing else, and `BuiltOK` follows the
indexes. The recount then agrees because an ascending file has as many keys as
lines (`KeysAreCounted`). What each action does to the fields of the call is
stated once per action (the lemmas `...Does`), for all of these invariants.

That an import can be repeated is `SmoothOK`: while nothing disturbs the import
(`Undisturbed`), no problem is noted and each phase leaves what the next one
needs. `BucketsGo` says that a bucket not on the list read at the start can only
have been made by this import for a recorded bucket it is done with, so none is
created twice; `CollectionsGo` that every collection needed is there or still on
the work list; from the documents on all are there, so no document, index or
build is refused for want of its place. `ListedOK` carries from the export what
this rests on: a manifest's files, and on Capella its definitions, are of
collections in its structure.

What stays with TLC:

- everything about fairness: `EveryCallIsAnswered`, `RotationRecovers`,
  `ExpiredCollected`, `Converges`, `CallsEnd`. Liveness and `ENABLED` are out of
  the prover's reach.

No module that is proved about uses a recursive operator.

## 6. Where the code and its text disagree

Reading the code for these models turned up places where it does something a
comment, a description or the README does not say. The models follow the code,
so no run shows them as errors: the properties leave the case out or are stated
so that it is visible.

Told by the models:

| Where | The code | The text |
|---|---|---|
| `src/handlers/capella/environment.py:1594` | A primitive that is disabled raises an exception of its own class, which the loop of a sweep does not catch: the rest of the sweep is lost. `SweepAccounts` excuses exactly this. | line 1595: "One environment refusing must not abort the whole sweep." |
| `src/handlers/capella/environment.py:788` | Two overlapping ensure calls for one environment both find nothing and both create. `NeverDuplicated` is about one caller that repeats its call. | line 284: "existing resources are reused, never duplicated" |
| `src/handlers/capella/environment.py:1111` | Every 409 of the switch-on counts as already online, and `client.py:291` reads a 409 as "already exists, or the cluster is mid-operation": ready and a URL are answered while the endpoint, just made, is offline. `ReadyMeansReady` leaves this answer out (`conflicts`). | line 1100: "Already online is a success in a reconciler. A blanket 400 is NOT: ... this returned phase "ready" plus a couchbase_lite_url while the endpoint was offline"; line 1106: "Only a 409, or a 400 whose body actually says already-online, counts." |
| `src/gui/gui_server.py:137` | The posture check reads `GUI_HOST` alone, which a WSGI launcher leaves unset (lines 748-752): bound to every interface it passes by either route and, with sign-in configured, answers other machines in the clear with `CB_GUI_ALLOW_REMOTE` unset; the session cookie is then without `Secure` (`src/auth/session.py:250`). `ConsoleIsGuarded` speaks of the bind where `GUI_HOST` names it. A blank `GUI_HOST` counts as loopback there, though line 155 says that an empty one binds every interface; `Sockets` lets it bind either. | line 1681: "Bind posture is enforced by create_app(), which handles every non-loopback form. A WSGI launcher that skips the factory is caught by _posture_guard." |
| `src/handlers/capella/client.py:655` | A listing whose answers name neither the last page nor the total ends after page 1 and is not marked truncated. `ListsAreComplete`, and what the guard of a project delete promises, leave it out. | line 554: "Handing an agent only page 1 of 5 is a correctness bug" |
| `src/dryrun.py:162` | Server-wide preview does not reach a tool that implements `dry_run` itself, unless the caller asks. | `src/README.md:135`: "The environment variable wins over the argument: `dry_run: false` cannot escape a server-wide preview mode." |
| `src/gui/gui_server.py:567` | Two requests refresh one session with the same rotating token: the refused one removes the session the other has renewed. `RefreshTokenIsCurrent` speaks of sessions still stored. | line 566: "Refresh or re-validation failed — session is dead" |
| `src/gui/gui_server.py:997` | The sort lists the logins and the slice counts them; when others were redeemed in between, the end of the slice is negative and logins are evicted that the cap would keep. `OnlyItsBrowserRedeems` promises only that the newest is safe. | line 992: "Hard cap in addition to the TTL purge" |
| `src/handlers/capella/fixture.py:1936` | The indexes of a named collection are created and never built: one `BUILD INDEX` names the bucket, and "not found" is passed over. `OwnIndexesBuilt` is about Enterprise Edition. | line 306: "then create the GSI indexes AND BUILD THEM, polling until every index is online before reporting ready" |
| `src/handlers/capella/fixture.py:2168` | The recount of `_verify` counts keyspaces as they were recorded, not where `keyspace_map` sent them. `CleanImportVerifies` leaves mapped Capella imports out. | line 2175: "is the cluster the thing the fixture says it is?" |
| `src/handlers/capella/fixture.py:1633` | A named collection in the `_default` scope is skipped with the scope and its documents are then refused, on every repetition. `DefaultScopes` leaves it out of `ImportsCanBeRepeated`. | line 1750: "This is NOT a problem and does not affect `imported`." |
| `src/handlers/fixture.py:722`, `src/handlers/capella/fixture.py:1039` | A keyspace that does not exist ends an export after the files of the others have been written, over those of an earlier export. | "Nothing was written." |
| `src/handlers/backup_catalog.py:514` | Two records of one id both find no file and both write; a reconciliation writes back what it read before another call changed it. Runs with `Overlaps = TRUE` reach both. | line 777: "two calls touch different files unless they name the same entry" |
| `src/handlers/backup_catalog.py:658` | A delete whose file another delete removes between the look and the unlink answers with an error. | line 658: "Idempotent on purpose: deleting an entry that is already gone is the desired end state" |
| `src/auth/scope_gate.py:313` | `REQUIRE_AUTH=y` is true at the edge and false at the scope gate and in `_main_http`, which then refuses the bind; egress, deployment, oidc and the console have narrower readings too (`Listed`, `Literal`). | `src/handlers/shared.py:130`: "The single accepted spelling set for boolean environment variables." |
| `src/auth/oidc.py:440` | While several threads validate tokens of a new key, each may be refused once. | "A legitimate key rotation costs exactly one refused request" |
| `src/handlers/capella/__init__.py:192` | `capella_backup_create` and `capella_cluster_audit_log_export_create` carry no guard (`Additive` in the model). | "This covers every mutating call on a cluster's CHILDREN" |
| `src/handlers/security.py:535` | An object without roles is accepted as the user read, and the write that follows leaves none. `NothingReset` leaves this answer out. | line 532: "a bare PUT wipes roles, so the fix is read-modify-write" |
| `src/handlers/shared.py:560` | A `DELETE` whose answer was lost is sent again and reported as "not found". | |
| `src/handlers/capella/client.py:649` | A listing by page numbers misses an item when an earlier one is deleted between two pages, and is not marked truncated. `ListsAreComplete` is about items nobody moved. | line 554: "Handing an agent only page 1 of 5 is a correctness bug" |
| `src/profile_config.py:225` | A workstation container that acknowledges a wildcard bind passes `validate` and is refused later, by `_main_http` without authentication and by the TLS check without certificates. | line 225: "genuinely needs a 0.0.0.0 bind, so it is permitted behind an explicit acknowledgement" |
| `src/server.py:251` | `CB_DEPLOYMENT_GATE=false` loads every tool although one surface was declared: the declaration is compared with the mode and not with what was loaded. | line 796: "A deployment that DECLARES its surface must get that surface" |

They concern details the models leave out:

- A handler whose client gave up runs to its end and leaves no audit record:
  neither `except` clause of `src/server.py:662` catches `CancelledError`.
- The principal of an audit record comes from the first of three reads of the
  claims (`src/audit.py:357`). When it fails and a later one succeeds, the call
  runs under a token its record does not name.
- When the claims are not in the cache the scope gate (`src/server.py:560`)
  calls the identity provider on the event loop, which
  `src/docs/THREADING_MODEL.md:17` excludes.
- The sort that caps the outstanding logins (`src/gui/gui_server.py:998`) raises
  when another thread removes one meanwhile, and the excess stays until the next
  login.
- Nothing keeps two exports from one directory; the model runs one at a time.
- The major version is cached for the life of the process
  (`src/handlers/shared.py:631`): after an upgrade from 7.x the 8.x tools stay
  refused until a restart. `GateHolds` is about the other direction.
- An Enterprise Edition import that finds an index present but deferred does not
  ask for its build.

## 7. Abstractions

- Names are a stem with or without the configured prefix; a marker is an
  environment name and live, expired or absent; a description that is no marker
  is none. Case and length of names are left out.
- Arguments beyond `confirm` and `dry_run` do not reach the gates of the
  dispatch and are left out; so is redaction. `denied_guardrail` and
  `denied_egress` are handler refusals like `denied_handler` and are one label.
- The principal of an audit record is left out. Claims are named by the token
  that carries them: what differs between reads is whether there are any.
- In `Dispatch` a key fetch succeeds or fails nondeterministically;
  `TokenThrottle` is what stands behind it.
- `ThrottleInv` counts passes of the gate: the fetch of a cold key set
  (`src/auth/oidc.py:350`) does not pass it and is not counted.
- `NothingReset` sees a field that a change leaves unset; that a change writes back
  what another call has changed since its read is not told apart.
- A cluster inside the sandbox that somebody else made under the environment's
  name, without a marker, is adopted, by design.
- Documents do not expire: exports record an expiry, and the Capella import does
  not send it and reports how many it dropped
  (`src/handlers/capella/fixture.py:1272`).
- Work that Capella does on a cluster is not followed: a 409 may come at any time.
- One bucket is asked for per ensure call. App Services are deleted only by the
  server. Time that only lets a memo or a cache entry lapse is an action that
  may happen at any moment.
- `SpendBound` starts below the ceiling: environments made by other means are
  counted but not created by this model above it.
- `ReapOnlyExpired`, `OnlyManagedTouched`, `OnlyDeletableDestroyed` and
  `OnlySandboxWritten` speak of "at some time": the cloud offers no conditional
  write, so no code could promise it for the moment of the write.
- Session and login ids are drawn from finite pools and never twice; a signed
  cookie is an id that nobody else can present. A browser's callback may carry
  any login that has begun.
- A document is a key and a version, an index is a keyspace and whether its
  statement names the bucket alone, a file's hash is its content. Search indexes
  and eventing functions follow the same create-and-report pattern as the GSI
  indexes and are represented by them.
- A destination is its form, where its address lies, and whether the operator
  listed it; a name's addresses may move between the lookup and the request,
  which `Misleads` excuses, since the cluster resolves for itself.
- A statement is what the query service would do with it and whether it is a
  single one; the validators are modelled by which of those they accept.
- Settings are two fields, one named by the change and one to be kept.
- A catalogue file is absent, an entry or torn; directory operations are atomic.
- A variable of the environment has one value per way its readers tell apart
  (`Choices`).

## 8. What is not modelled

- `logging_config.py`, `healthcheck.py` and `mcp_compat.py` keep no state a
  property could be about.
- Rotation of the audit file, redaction and the writing of one line are the
  standard library's or formatting; opening the file at start-up is in `Startup`
  and which record is written in `Dispatch`.
- The console's `call_tool` route evaluates the gates of `Dispatch` in one
  synchronous handler, without the await points that make them hard; only the
  hooks in front of it are modelled.
- The tools that only read and keep nothing (`capella_fixture_list`,
  `admin_fixture_list`, live metrics, the polling of a backup task).
- The schemas, descriptions and verification records of `spec.py` and of the
  `TOOLS` lists: the registries keep method, path, hint and flags.
- `scripts/` are run by hand and are not part of the server; `docs/`, the
  deployment files and the tests were read as references.

## 9. The plan

1. `ConsoleDispatch`, the console's route as a second implementation of the
   gates, and `Authorised` as the abstract specification of both.
2. Fixture protocols with overlapping exports, once the code excludes them or
   says what they promise.
