# x-type-center: TLA+ models, checks and proofs

x-type-center is a registry of integer type values: projects ask for the next
free value of a namespace, give values back, and look them up. It is a Go HTTP
server over MySQL, with an embedded web page, a command line client and an
agent skill that updates itself from the server. This directory holds TLA+
modules translated from its source, the TLC configurations that check them on
small instances, and TLAPS proofs for every instance.

1. [The system](#1-the-system)
2. [Modules](#2-modules)
3. [State and actions against the code](#3-state-and-actions-against-the-code)
4. [Runs](#4-runs)
5. [Fairness](#5-fairness)
6. [Proofs](#6-proofs)
7. [What the code does otherwise than documented](#7-what-the-code-does-otherwise-than-documented)
8. [What is not modelled](#8-what-is-not-modelled)
9. [Plan](#9-plan)

## 1. The system

| Component | Source | State | Operations | Model |
|---|---|---|---|---|
| Allocation and revocation | `internal/store/entry.go` | `type_entries`, `next_value` of a namespace | Allocate, AllocateBatch, RevokeEntry, RevokeAllocation, ListAllocationEntries | `Registry` |
| Choice of values | `internal/store/entry.go` 429-583 | none, reads entries and ranges | chooseCandidate, firstFreeInRange, nextGlobalCandidate, nextNonReservedValue | `Candidates`, `CandidateLoops` |
| Namespace maintenance | `internal/store/namespace.go`, `entry.go` 585-641 | bounds, status, `next_value` | CreateNamespace, UpdateNamespace, RecalculateNamespaceCursor | `Registry` |
| Projects | `namespace.go` 402-418 | `projects` | ensureProject, ListProjects | `Registry` |
| Labels | `internal/service/registry.go`, `namespace.go` | `code`, `display_name`, JSON `aliases` | create, update, add and delete an alias, resolve | `Labels` |
| Migration | `internal/store/db.go`, `001_init.sql` | the schema, six legacy tables | Migrate, upgradeLegacySchema | `Migration` |
| Request handling | `internal/httpapi/api.go`, `internal/service` | none | decode, validate, call the store, map errors | as the life of a handler |
| Server process | `cmd/x-type-center/main.go` | two goroutines, a context, a channel | start, listen, signal, shutdown | `ServerProcess` |
| Skill version gate, skill package, version | `internal/httpapi/version.go`, `skill_package.go`, `internal/product` | a zip file that deployments replace | notice, gate, check, download | `Deployment` |
| Agent skill | `skills/type-registry` | a directory of files | check, allocate, update | `Deployment` |
| Client address | `internal/httpapi/client_ip.go` | none | clientIP | `ClientAddress` |
| Web page | `web/app.js` | what is shown, requests under way | dialogs, chips, allocation panel | `Page` |
| Command line client | `cmd/type-registry` | none | the API's requests | as workloads |
| Configuration, data model | `internal/config`, `internal/model` | none | Load | constants, field types |

**How they interact.** A client's request is served by one goroutine, the
handler. It validates, calls one method of the service, which calls the store;
all shared data is in MySQL. Several servers may share the database, each runs
the migration before it listens, and `migrate` runs it on its own. There are no
background jobs and no in-process caches, so what is hard about the data is the
order of SQL statements of different handlers, and what a handler has read
before it writes. Around the database, the server process passes its end
between two goroutines; the skill talks to a server that is upgraded under it,
over files that it replaces itself; and the page lets its user go on while
answers are outstanding.

**What is hard, and what makes each component correct.**

- *Allocation.* Transactions of one namespace are serialised by its row lock. A
  batch is chosen value by value in an open transaction; it may fail half way,
  be cancelled, or lose the reply of its COMMIT. No two live entries share a
  value or a symbol; the answer agrees with the table; history is kept; a value
  is granted only within the bounds and to whom a range belongs.
- *Revocation.* The namespace is found without a lock and the rows are read
  again after the commit, without a lock. A revocation must touch only what it
  names, also when it is repeated after the value has a new owner.
- *Cursor.* Five operations move `next_value`, some up and some down. A released
  value below it is out of reach.
- *Candidates.* Nested scans over sorted, possibly overlapping ranges. They must
  end and return the least permitted value.
- *Projects.* `INSERT IGNORE` of a new name waits for an uncommitted one: a
  second kind of lock, taken while the first is held. It is a shared lock, so
  those who wait for a name that is rolled back wait for each other.
- *Labels.* Checked in one transaction or none, written in another; aliases are
  a JSON list that is read, changed and written back, under locks of all rows.
- *Migration.* Some thirty statements without a transaction, repeated by every
  start, on a database that others may be serving; the last six destroy data.
- *Server process.* The main goroutine waits for a context that a signal or the
  other goroutine ends, then for a channel that the other must fill in each of
  the ways it can end. It must end when told, and owe nobody an answer.
- *Upgrades.* The binary and the skill package are two files, replaced one after
  the other; a command checks its version in one request and writes in another;
  an update copies file by file and may die. No unsupported client writes, and
  what a command reports is what happened.
- *Page.* Handlers read the script's state when an answer arrives, not when the
  request was sent, and answers arrive in any order. At rest the page shows what
  the database holds (section 7 says where it does not), and no button is dead.

The full list, with lines and properties, is under `hazards` in `PROJECT.json`.

## 2. Modules

```
Candidates ── CandidateLoops ── CandidateProofs   the scans and what they compute
    │
Registry ── RegistryProperties ─┬─ MCRegistry                 handlers in MySQL
                │               └─ RegistryProofs ─┬─ RegistryTables
                │                                  └─ RegistryRefinement
                └─ INSTANCE TypeRegistry     the promise, as a specification
Labels ── LabelsProperties ─┬─ MCLabels
                            └─ LabelsProofs
Migration ── MigrationProperties ─┬─ MCMigration
                                  └─ MigrationProofs
ServerProcess ─┐
ClientAddress ─┴─ Deployment ── DeploymentProperties ─┬─ MCDeployment
                                                      └─ DeploymentProofs
Page ── PageProperties ─┬─ MCPage
                        └─ PageProofs
```

`Candidates` is a relation, not an algorithm: which value is the next one, given
a namespace row, its ranges and its entries. `Registry` uses it in one step, as
the code does under the row lock; `CandidateLoops` shows that the loops compute
it. `TypeRegistry` is what a client may rely on, without handlers, locks,
cursors or transactions; `Registry` implements it. `Deployment` composes a
server process, the gate it serves and the skill's commands; a write there is
one step, as `TypeRegistry` allows, and what `Migrate` may do is a step that
succeeds or fails, as in `Migration`.

Definitions whose comment says "faulty variant" stand before the definition
they vary. No specification uses them; they state the bugs that the properties
are able to find, one for each property.

## 3. State and actions against the code

### Registry

| Variable | Code |
|---|---|
| `entries` | committed rows of `type_entries`, by (allocation, place) |
| `namespace` | committed rows of `type_namespaces`: `next_value`, bounds, status |
| `projects` | committed rows of `projects` |
| `lock` | the InnoDB row lock of a namespace row |
| `pc`, `req` | the handler's goroutine: its next statement, its request |
| `target` | the namespace id or code it passes to `lockNamespace` |
| `local` | `ns`, its copy of the row |
| `picks` | `items`, inserted and not committed |
| `answer` | the class of the HTTP answer (`fail` in `api.go`) |

A step is one round trip of a transaction, or several of them when nothing
another handler does can come between: after `LockNamespace` a handler owns the
rows of its namespace until `EndTx`. `Submit` and `Respond` are the arrival and
the end of a request; `FindNamespace` the unlocked read of RevokeEntry and
RevokeAllocation; `QueueForProject` is an INSERT that finds the same name inserted
by another open transaction, and waits; `EnsureProject` is one that succeeds or
is ignored; `Pick` is one turn of AllocateBatch's loop, refused with
*exhausted* or *conflict* or followed by the INSERT and the move of the cursor;
`CommitAllocation` makes the batch visible at once; `RevokeEntry` and
`RevokeAllocation` are the write of a revocation with the cursor going back;
`ReadRevoked` the read after it; `UpdateNamespace` and `RecalculateCursor` as
named. `Committed` stands for COMMIT, whose reply may be lost: the handler then
answers *error* although the data is stored. `Abort` is a cancelled context, a
database error (also a lock timeout) or a crash of the server, at any point
before COMMIT.

A duplicate INSERT asks for a shared lock on the name, so that all who queue for
it get that lock together when its transaction ends. After a COMMIT they read the
name. After a rollback each of them needs the exclusive lock to insert it, and two
or more are deadlocked: `DeadlockVictim` is the one that InnoDB rolls back, whose
caller is answered *error*, as the code does not retry. That this happens is part
of the fairness (section 5). The locks on gaps between names, through which
inserts of *different* new names could meet, are left out.

The namespace row is changed by its holder only, except that CreateNamespace
inserts a new one. Reserved ranges are constants: no request of this version
changes them. `Key` equates spellings, for the collation of MySQL and
`strings.EqualFold` alike; where the two differ (accents, widths) the model is
not finer than either. Values are members of a small set `Values`, which holds
every value the code can reach in the run; int64 overflow is out of scope.

### CandidateLoops

One action per turn of each loop: `NextRange`, `ScanRange` and `EndScan` for the
project's own ranges (`own`, as places in the sorted list `ranges`), `QueryReleased`, `SkipReleased`, `TakeReleased` for the released
values, `HighWaterMark` and `SkipRange` for what lies above all entries. `rows` is what is
left of a query result; `Read` takes its least value, as `ORDER BY` has it.

### Labels

`row` holds code, display name and aliases; one action per query or transaction
of the handlers. `LockNextRow` is `SELECT ... FOR UPDATE` over all rows, in id
order; `list` is what the alias transaction read and writes back with one more
item. Two transactions on a single row are one step each (`UpdateNamespace`,
`DeleteAlias`): they take the lock, write and commit with nothing in between
that others could see. `ResolveNamespace` has two reads, hence two steps.
`overlapped` records that two requests have been in progress at once.

### Migration

`Steps` is the order of statements in `upgradeLegacySchema`, and `pc` the place
of a process in it. `held` is `byNamespace`, the rows a process has read into
memory; `WriteList` is one UPDATE per namespace, in the arbitrary order of a Go
map. `Crash` ends a process between any two statements and covers every
statement that fails. Existence checks and the statement they guard are one
step: a table only ever disappears, and a statement on a missing table fails,
which is a crash. `legacy` is the content of the old tables, which nobody
writes. `told` is what clients know of the aliases; `overtaken` records that a
client changed one while a process held rows of the old table; `validated`,
`refused` and `crashes` only record what happened. Adding columns and plain
indexes is left out: the rows have the columns with their defaults from the
start. The recalculation of the cursors is an operation of `Registry`, where it
runs among allocations of other instances.

### ServerProcess

| Variable | Code |
|---|---|
| `main` | the goroutine of `runServer`: migrating, in `<-ctx.Done()`, in `Shutdown`, in `<-serverErr` |
| `listener` | the goroutine that calls `ListenAndServe` |
| `serverErr` | the channel of capacity 1 |
| `done` | the context has ended, by a signal or by `stop()` |
| `open` | the requests that were accepted and not answered |
| `running`, `binary` | the release of the process, and of the file it was started from |

`Listen` and `ListenFails` are the two ways `ListenAndServe` goes; after
`Shutdown` it returns at once, also if it had not begun. `ReportError` and
`ReportClosed` fill the channel, the first of them with `stop()`.
`BeginShutdown` closes the listener, `FinishShutdown` needs all requests
answered, `DeadlineExceeded` gives up on them, `Join` receives from the channel
and ends the process. `Signal` may come in every state, `Kill` too.

### Deployment

| Variable | Code |
|---|---|
| `package` | the zip file at `TYPE_REGISTRY_SKILL_PACKAGE_PATH`, if any |
| `disk` | the skill directory, file by file, as the release each is of |
| `script` | the `type_registry.py` that a process has loaded |
| `header` | the `X-Type-Registry-Skill-Version` of its last request |
| `info` | the answer of `/api/v1/skill-version` |
| `zip`, `left` | the archive `update` has unpacked, the files it has still to copy |
| `granted`, `recorded` | how often its write was executed, and the address stored with it |
| `disturbed` | another command has written files since this one began |

A release is the text of a version; `Number` is the order that
`compareSemanticVersion` and `version_tuple` see, so two releases may be equal
by number and differ as text. `Connect` reads the version it sends from the
manifest on disk, as `request_headers` does, which need not be that of the
script. `SkillVersion`, `Gate`, `EnsureSkillPackageCurrent` and
`BuildSkillPackage` are the server's side, the last two the two reads of one
download; `CheckSkillVersion`, `CopyFile` and `EndUpdate` the client's. `Change`
replaces the binary or the package, `Die` ends an update between two files. What
happens to a request whose process ends, or that times out while the handler
goes on, is `Disconnected` and `TimeOut`.

`ClientAddress` has no state: `ClientIP` is what the walk over the forwarded
addresses returns, `Hops` what a chain of proxies writes into the header.

### Page

| Variable | Code |
|---|---|
| `aliases`, `active`, `allocation` | the server's rows: aliases, live entries, and which allocation of the page stored an entry |
| `namespace` | `state.entries.namespace` |
| `entryDialog`, `revoke`, `disabled` | the open dialogs, the target of the second and its button |
| `chips`, `table` | the aliases and live entries that are rendered |
| `timer` | the timer of the search field |
| `panel` | the result of the last allocation |
| `requests` | the requests under way, each with its answer once there is one |
| `confirmed`, `overlapped`, `failed` | history: what the user has confirmed to revoke; two requests for one part of the page have met; one has failed |

`Serve` is the execution of a request by the server at any time, `Receive` the
rest of the handler after `await`. Whatever reads `state` after an `await` in the
script reads the current variable in the model (`AliasChanged`, `Refreshed`), and
what was captured before it is a field of the message. An allocation stores
entries that a search of its namespace lists from then on, and what the table
lists may be revoked row by row, whether the panel shows it or not. The timer
ends whatever dialog is open or closed by then (`SearchTimer`).

`AtRestShowsDatabase` has two parts. Of the panel, without exception for failures
or overlaps: it does not wait for ever, what it calls revoked is revoked, and what
it calls granted is granted but for what the user has confirmed to revoke, as rows
of the table or, with a failure, as a whole. Of the open dialog, as long as
nothing failed or overlapped: its chips are the aliases of its namespace, and its
table has the live entries of its namespace, but for those of the allocation in
the panel (section 7).

## 4. Runs

| Run | Instance | Shows |
|---|---|---|
| `small` | 2 handlers, 1 namespace 1..3, batches of up to 2, one symbol | exclusivity, atomicity, answers, history, reuse of values, and the refinement of `TypeRegistry` |
| `ranges` | 2 handlers, a project range, a range for nobody, changing bounds and status, a DEPRECATED row | the inductive invariant and the refinement where permission matters |
| `answered` | 3 handlers, 3 namespaces, one created on the way, a new project in two spellings, a recalculation | registered names and those of entries agree; one spelling; every request is answered |
| `candidate_loops` | all layouts of 2 ranges, entries, bounds and cursors over 4 cells | the loops end and return what `Candidates` says, and whether it is from a range |
| `labels_racing` | 2 handlers, 4 labels, 4 rows, every kind of request | aliases, their ids and codes stay unique, none is lost; labels are unique and resolve to their owner until two requests overlap; every request is answered |
| `migrations` | 2 processes, 2 crashes, 8 databases, clients that change aliases | nothing dropped before it is migrated; unique indexes at all times; whoever serves has a complete database and the clients' aliases; processes serve in the end |
| `deployment` | 2 processes in one skill directory, one of which writes, 4 releases, 2 starts, 2 commands, 2 replacements of files | reports match writes, writes respect the minimum, updates are whole, addresses are the clients', the server ends when told and answers first |
| `page` | 2 namespaces, an alias in one, a live entry and one to be allocated in the other, 3 clicks | what the panel and the dialog show at rest; buttons revive |
| `stranded_by_range`, `refused_links`, `labels_overlap`, `wrong_alias` | as small as they go | section 7 |

**Why the bounds are enough to be interesting.** Two handlers meet in every pair
of operations, and no step of the code involves a third, with one exception: the
name of a project, for which two may wait while a third rolls back. `answered`
has three allocations for that, in three namespaces, and a recalculation that
waits for the row of one of them. It has no revocations and no updates, which
take the same row lock and wait for nothing else.
Three allocation ids let a value be granted, released, granted again and
released again while an old revocation is repeated. With three values and
batches of two, batches fail half way and namespaces fill up; `small` revokes a
batch as a whole or by its first entry, which leaves it half released. `Values`
extends one past the largest bound, so that a value past it would show. Four
cells allow ranges that overlap, touch, nest and leave gaps. Two crashes let a
restarted migration fail again at any other step. `MaxAliasId` bounds the ids of
aliases; deletions make them repeat below it. In `deployment`, two commands are
an update and a write in one directory, or two updates; two replacements are a
binary and its package in either order, or a package that changes twice during
one download; two starts are an upgrade. The writes come through two proxies
with a forged header (for every other route, `FindsTheClient`), and the releases
*new* and *candidate* differ in the text of their versions only. Three clicks open the dialogs of two
namespaces and change something in between, allocate and revoke what was granted
while its namespace is open, or type into the search field and leave the dialog
before the timer ends.

**Where the system may stop.** Deadlock is not checked in `migrations` and
`refused_links`, which end once every process serves and no crash is left, and
in `deployment`, `page` and `wrong_alias`, where commands, starts and clicks are
bounded and nobody has to make them.

Symmetry is used over handlers and allocation ids in runs without liveness
properties; no definition distinguishes them.

**Databases of `migrations`.** A complete old one; a new one; one with a table
of allocations; one with revoked entries of unknown time; and four that the checks
must refuse: an allocation without entries, an entry whose allocation has no
link, an entry with two, a revoked entry without a record.

## 5. Fairness

`Registry` and `Labels`: weak fairness of the steps of a handler that wait for
nobody, as the Go scheduler runs every goroutine that can run and every
statement without a lock returns. Strong fairness of the steps that wait for a
row lock: InnoDB queues the waiters of a row and grants it in turn, so a handler
that could again and again have had the lock gets it. The same assumption covers
InnoDB's deadlock detector (on by default): of those who wait for each other over
a project name, it rolls one back. Neither `Submit` nor
`Abort` nor CreateNamespace is fair: no client has to ask or to give up, and no
answer may depend on it.

`Migration`: weak fairness of the steps of each process, its start included: the
systemd unit restarts it (`deploy/systemd/x-type-center.service:12`,
`Restart=on-failure`). Crashes are not fair and at most `MaxCrashes` in number.

`Deployment`: weak fairness of the main goroutine and of the one that listens.
Nothing is assumed of handlers, users, signals or operators: a handler may hang,
which is what the deadline of `Shutdown` is for (`DeadlineExceeded` belongs to
the main goroutine).

`Page`: every request is answered or fails, as `fetch` does, and the browser
runs the handler then. The user need not do anything.

## 6. Proofs

The proofs hold for every value of the constants that satisfies the named
assumptions of the modules: constants have their types, the null values are not
members of the sets they are added to, and what is stored at the start obeys the
unique indexes (`CandidatesAssumption`, `CandidateLoopsAssumption`, `RegistryAssumption`, `StoredAssumption`,
`LabelsAssumption`, `MigrationAssumption`, `DatabaseAssumption`,
`ServerAssumption`, `DeploymentAssumption`, `RouteAssumption`,
`AddressAssumption`, `PageAssumption`). TLC evaluates each of them in the runs.

### Registry

**The inductive invariant** is `Inv` of `RegistryProperties`; the runs `small`
and `ranges` check it. Its parts, and why each is needed:

- `TypeOK`, `Control`: which request a handler can have at which step.
- `Locked`: past `LockNamespace` a handler holds its row, so no two transactions
  are in one namespace and bounds and status are as the handler read them. All
  else rests on it.
- `OwnAllocation`: a random allocation id belongs to one request, so a batch is
  not mixed with another.
- `FoundRows`: the namespace that a revocation reads without a lock is still the
  right one when it has the lock, since rows never move or go.
- `PicksFree`, `PicksPermitted`: what a transaction has inserted is disjoint from
  the live values and permitted, through every step of every other handler up to
  its own COMMIT.
- `LiveUnique`, `NoValueConflict`, `RereadIsRevoked`: the results.

`RegistryProofs` proves first the parts about control and locks, action by
action, then the parts about values, and the theorems `Spec => []Inv`, its corollaries, and the action properties `HistoryIsKept` and
`OnlyNamedRevoked`. That the unique index on values is never needed
(`LockPreventsConflict`) follows from `ChosenIsFree`: what `Candidates` chooses
is not live, and nothing becomes live while the lock is held.

**Refinement.** `RegistryRefinement` proves `Spec => KeepsPromise`:
`entries` maps to itself and `limits` to the maximum and status of each
namespace. `CommitAllocation` maps to `Grant` (`GrantStep`), the two revocations
to `ReleaseBatch` (`ReleaseStep`), updates and creations to `SetLimits`
(`LimitsStep`); everything else, the cursor included, is a stutter. The proof
uses `Inv` before and after each step.

**Answers, names, cursor** (`RegistryTables`, on top of `Inv`):

- `AnswersMatch`: with `Complete`, a transaction commits exactly as many values
  as were asked for, so what lies under an allocation id is nothing before the
  commit and everything after it.
- `ProjectsMatch` and `SpelledAlike` conclude from the same property of the
  database at the start. That cannot be dropped: an old database may have
  anything in `projects`. `Spelling` extends `OneSpelling` to the names in open
  transactions, which `INSERT IGNORE` keeps apart by waiting.
- `CursorAhead`: no released value that is in reach falls behind the cursor,
  *provided* no range belongs to a project, nobody updates bounds, and values
  start at 1 (`Plain`; section 7 has the counterexamples without each). The
  strengthening `Reachable` says the same of the copy of the cursor in each open
  transaction, the values it has inserted included (`Ahead`). `SearchFinds` is
  the reason: a search from at or below a released value never passes it.
- `ExhaustedIsFull`: an allocation is told *exhausted* only when every value from
  the first cursor to the maximum is live, *provided* there are no ranges and no
  updates, and every namespace starts with its cursor past what is stored and not
  below its minimum (`Steady`, which `small` satisfies). The strengthening `Filled`
  says that there are no gaps: below the cursor everything is live, and below a
  value that was ever given out everything was given out. The first part makes the
  floor of the search right, the second its jump to the high-water mark.

### The scans

`ScanInv` of `CandidateProofs` says for each loop what its turns have ruled out:
the own ranges before `turn` are full (`Exhausted`), and the one being scanned is
full below `candidate` (`ScanLoop`), which needs the order of the rows; a released
value that was read and skipped is in a range (`ReleasedLoop`); and no fresh value
lies between the floor and `candidate` (`SkipLoop`), also when the loop ends at a
range that reaches the maximum. `ScansAgree` concludes that what is returned is
what `Candidates` defines, with its flag, and that nothing is returned only when
there is nothing. The assumption is that `Values` contains what a scan can come
to.

### Labels

`Inv` of `LabelsProperties`, checked by `labels_racing`. An alias transaction
that holds the lock of a row has found its label not among that row's aliases
(`LockedRows`); when it writes it holds every row but those that were created
meanwhile, and these have no aliases (`Writing`); hence there is one writer at a
time (`OneWriter`), and `AliasesDistinct` and `AliasIdsDistinct` survive the
write of a list that was read some steps before. `NamedDeleted` follows: the
list in memory is still the row's. Unique labels stay unique as long as no two
requests overlap (`UniqueAlone`): what a check has excluded is then still excluded
when its request writes (`Alone`, `Checked`). So long, too, ResolveNamespace finds
the owner (`OwnerResolved`): what its query by code has not found, its query of all
rows finds at most once.

### Migration

`Progress` says, for every process, that every step before its place has left
what `Done` attaches to it: a copied list, an empty table, an index that exists,
an index that is gone. No later step of any process undoes a `Done`, which is
the bulk of the proof, and rests on the order of the steps (the lemmas over
`Steps`). `NeverUnindexed` follows as an old index goes only after its successor,
`ServedIsComplete` as a process that serves has every step behind it, and
`AliasesAsTold` with `AliasesKept`: as long as the old table is there, the
clients know what it says, and a process that is about to write holds just that.

`DropsMigrated` is about the six statements that destroy data. `TableInv` says
which content each step has moved, for every process that is past it
(`MovedSoFar`), what a half written list looks like (`ListsKept`) and that no entry
has an allocation id without a link (`OnlyLinked`). The checks before the drops
compare counts. That they are equal means that no entry has two links and each
has its id (`LinkedOnce`, `Carried`), provided that a database either has no two
links of an entry, or no ids that do not come from links (`CountableLinks`).
Without that, TLC finds a database in which an entry with two links and an entry
with an id and no link balance, and a link is lost. The code does not make one:
the column of the ids is added empty by the migration (`ensureColumn`, `db.go:92`),
filled from the links, and written by nobody else until the table of links is
dropped, as no process serves before that.

### Deployment

`Inv` of `DeploymentProofs` has `TypeOK`, the domains of the functions, the
server (`ServerOK`: the release changes only while no request is open, and past
the shutdown nobody listens), and for each client what it has written
(`Writes`), which versions it has seen (`Versions`) and what it has copied
(`Update`). From it follow `ReportsAreTrue`, `ClientIsRecorded`,
`ShutdownAnswers`, `MinimumIsRespected`, `OldScriptsRefused` and `UpdatedIsWhole`,
for any number of clients, releases, packages, restarts and commands.
`FindsTheClient` is about `ClientIP` alone: for every forged header and every
chain of trusted proxies it returns the client.

### Page

While requests are under way the page may show anything, so the invariants say
what is still to come. `Panel` holds whatever fails and overlaps: answers that
have not arrived yet are true (`AnswersTrue`); nobody revokes an allocation before
its answer has arrived (`AllocatedOnce`); what was allocated and is gone, the user
has revoked (`GoneConfirmed`); and what the panel says is so, or the request that
changes it is outstanding (`PanelTrue`). `Right` is about the dialog and holds as
long as no two requests of one place have met and none has failed or is about to
(`Calm`): then each place of the page has one request at most (`OnePerPlace`); the
aliases that were read are those of the open namespace unless a write of aliases
is under way, which reads them again (`ChipsRight`); and the entries are, but for
those of the last allocation, unless a revocation or the refresh after it is
(`TableRight`, `Current`, `ReloadDue`). `RestShowsDatabase` is what is left of both
when there are no requests. `PageTypes` needs `Types`, which says of every request
which fields it has and that what is revoked was once shown.

### What liveness rests on

The liveness properties need fairness and `ENABLED`, which is out of the prover's
reach. What could go wrong with them for larger instances is a matter of safety,
and proved:

- `EveryWaitEnds` (for `AllAnswered` of `Registry`): the locks of a transaction
  have an order, first its row, then a shared lock on the name of its project,
  then the name, and `Depth` says how far a handler is. Whoever waits, waits for an
  open transaction that is strictly further, with one exception: handlers that have
  queued for a name whose transaction was rolled back wait for each other, and then
  `DeadlockVictim` is possible for each of them. The invariant `Owned` says that a lock belongs to a transaction that is still open
  and on that row: commits, rollbacks and refusals all release it.
- `LockHolderGoesOn` (for `AllAnswered` of `Labels`): an alias transaction locks
  all rows one by one, in the order of their ids. Hence whoever has the first row
  is alone, and all locked rows belong to one transaction, which waits for none
  (`LockOrder`). For this `StoredAssumption`
  says that the ids in use come first (AUTO_INCREMENT; no namespace is deleted).
- `ScansAdvance` (for `ScansEnd`): each turn of a loop reaches a later range or a
  later stage, reads one more row, or leaves fewer ranges `Ahead`. The last is the
  case that is not obvious: `nextNonReservedValue` starts over with the first range
  after each jump.
- `GoroutinesMeet` (for `EndsWhenTold`): the channel `serverErr` never lacks room
  for a sender, and its receiver never lacks a sender.
- `DisabledWaits` (for `ButtonsRevive`): behind every disabled button of an open
  dialog there is a request whose answer enables it.
- `NeverRefused` and `MigrationGoesOn` (for `ServesInTheEnd`): with a `Repeatable`
  database all checks pass for every process (`ListPasses`, `LinksPass`,
  `RevocationsPass`), since all times come from the records that are counted
  (`TimesFromRecords`) and all ids from the links; and each step advances the
  process or leaves it fewer rows to write. Section 7 has the databases that are
  not `Repeatable` and are refused.

**Only model-checked.** That fair scheduling then makes the progress: `AllAnswered`,
`ScansEnd`, `ServesInTheEnd`, `EndsWhenTold` and `ButtonsRevive`. Every other
property that a passing run checks is also the statement of a theorem.

## 7. What the code does otherwise than documented

Each of the first four is a run that ends with a counterexample.

- **Released values that are not reused** (`src/README.md:202`): an allocation
  from a project's range at the cursor moves it past a released value, and the
  namespace is then reported as exhausted (`stranded_by_range`). The same comes
  of raising and lowering `min_value` (`namespace.go:527` moves the cursor up
  only), and of a restart where values start below 1 (`entry.go:623` searches
  from 1). Where none of this happens, `NothingStranded` and
  `ExhaustedOnlyWhenFull` hold (`small`), and for every instance (`CursorAhead`,
  `ExhaustedIsFull`).
- **A migration that cannot be repeated** (`src/README.md:450`): after a crash
  between two DROP TABLE (`refused_links`), or after missing revocation times
  were filled in (`db.go:243`, which the check of `db.go:515` then counts), every
  later start is refused. No data is lost (`DropsOnlyMigrated`), and a database
  with neither allocations nor revocations of unknown time always gets through
  (`ServesInTheEnd`, and for every instance `NeverRefused`).
- **Labels that overlapping requests both take** (`src/README.md:173`): two
  namespaces get one label (`labels_overlap`). Two *aliases* never do
  (`AliasesDistinct`), nor two codes.
- **The wrong alias is deleted** (`wrong_alias`): aliases of a namespace whose
  dialog was closed arrive late and are shown in the dialog of another; the
  button of such a chip combines its id with the namespace that is open
  (`app.js:568`). Ids count from 1 in every namespace, so the request succeeds
  on an alias that the user does not see, whereas the label of the button names
  the one that is shown (`app.js:560`).

Without a run of their own:

- The shown next value (`src/README.md:16`) need not be the one that is allocated
  next: the cursor may stand on a value in use after an allocation at the end of
  the namespace.
- A process that read the legacy aliases early may write them late, over an alias
  that a client of another instance has registered in between (`db.go:404`,
  `db.go:409`). That is the exception `overtaken` in `AliasesAsTold`.
- A package whose manifest has the server's version is reported as ready
  although files are missing or the text of its version differs
  (`src/README.md:350` says that the download is unavailable then); every update
  from it is refused by the client, before it copies anything (`UpdatesAreWhole`).
- An update that dies after it has copied the manifest leaves the old script,
  which sends the new version and passes the gate (`SKILL.md:32` says that it
  must be upgraded first). That is the exception in `OldScriptsDoNotWrite`.
- When an allocation succeeds and only the refresh after it fails, the panel says
  that the allocation failed (`app.js:835`). `AtRestShowsDatabase` promises nothing
  of a panel that says so.
- An allocation that is answered while the dialog of its namespace is open reloads
  the namespaces and projects (`app.js:835`), not the table, which lacks the new
  entries until something else reloads it. That is the exception for the
  allocation of the panel in `AtRestShowsDatabase`.
- Revoking the entries of an allocation in the table (`app.js:1029`) leaves the
  panel at *granted*, with a button that revokes what is revoked already. That is
  the exception `confirmed`.
- Three callers who allocate for one new project in three namespaces at once may
  leave one of them with an error, although nothing is wrong with its request:
  when the first is rolled back, the other two deadlock (`namespace.go:403`), and
  nobody retries.

## 8. What is not modelled

- Reads that decide nothing (search, paging, lists, single entries), texts and
  their validation, HTTP, JSON and SQL as such, logging.
- Configuration: read once, before anything runs. The command line client: one
  request per command, and no state.
- The connection pool: a handler holds at most one connection at a time, so the
  pool delays handlers and cannot make them wait for each other.
- The copying of the archive and the URL put into its `config.json`; the syntax
  of addresses and versions.
- Of the page: the editor of namespaces (a PUT of the whole row, last write
  wins), the lists that are loaded at first, the combo boxes, the pages and
  filters of the table, and rendering.

`PROJECT.json` gives the reason for each component. Ids of aliases repeat after a
deletion (`namespace.go:208`), so a deletion that is delivered twice may remove a
newer alias; nothing documents otherwise, and the models state only that ids are
distinct at any one time. Requests carry no key that would make a repeated
allocation harmless: `Deployment` shows that a failed command may have written
(`ReportsMatchWrites` allows it), and nothing in the code could tell.

## 9. Plan

In order of weight; what is done is marked.

1. *done* `Candidates`, `Registry`, `TypeRegistry`, `MCRegistry`: the core.
2. *done* `CandidateLoops`: the scans.
3. *done* Proofs of the invariant, the action properties and the refinement.
4. *done* `Labels` and `Migration` with their runs.
5. *done* `LabelsProofs`, `MigrationProofs`.
6. *done* `RegistryTables`: answers, names and the cursor as theorems.
7. *done* `ServerProcess`, `Deployment`, `ClientAddress` and their proofs: the
   life of the process, upgrades, the gate, the skill's update.
8. *done* `Page`: overlapping requests of `web/app.js`.
9. *done* `CandidateProofs`, `PageProofs`, and the theorems on drops, resolution
   and full namespaces: every safety property of a passing run is a theorem.
10. *done* The safety half of each liveness property: waits that end, loops and
    migrations that advance.
11. An abstract directory of labels that `Labels` refines for aliases.
12. The editor of namespaces in `Page`, with a second user.
