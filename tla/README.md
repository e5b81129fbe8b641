# Formal models of fire

fire is a framework for JSON APIs in Go on top of MongoDB. Around the controller it has packages for
job queues (`axe`), models, transactions and change streams (`coal`), distributed values and locks
(`glut`), files (`blaze`), websocket watchers (`spark`), reactive operations (`torch`), OAuth2
(`flame`), authorization (`ash`) and small utilities (`heat`, `stick`, `nitro`, `roast`).

This directory holds TLA+ models of the parts in which several processes, goroutines or clients meet
in the database or in memory, the TLC configurations that check them, and TLAPS proofs about the ones
that matter most. `PROJECT.json` lists the runs, the lines each definition models, the hazards of the
code and the properties that cover them.

Contents: [inventory](#inventory) · [modules](#modules) · [runs](#runs) · [fairness](#fairness) ·
[proofs](#proofs) · [disagreements](#disagreements-between-code-and-documentation) ·
[limits](#what-is-not-modelled) · [plan](#plan)

## Inventory

| component | state | operations | interacts with | hard behaviour | what makes it correct |
|---|---|---|---|---|---|
| **axe: execution** (`axe/task.go`, `axe/basic.go`) | job documents: state, availability, attempts, data; per worker: context, start, lifetime | dequeue, extend, update, complete, fail, cancel, notify | the database, `axe/queue.go`, handlers | workers of many processes, overruns, crashes, slow calls, no fencing token | a job is executed by one worker at a time, a late outcome does not count, every job ends, at most one notification |
| **axe: enqueueing** (`axe/basic.go`, `axe/model.go`) | the collection, its indexes | enqueue with label and isolation, expiry of finished jobs | `coal.InsertIfMissing`, TTL index | concurrent enqueues, expired documents | labels are unique, isolation separates executions |
| **axe: board** (`axe/queue.go`) | board per task: documents with lag and block | update, get, restart | `coal.Reconcile`, workers | a board that lags, failed dequeues, vanished documents | every due job is found; no job before it is due |
| **coal: streams** (`coal/stream.go`, `coal/reconcile.go`) | resume token, opened flag, the user's mirror | open, tail, resume, load, forward events | change streams of the database | failures at any point, events with later documents | the mirror misses nothing and follows the collection |
| **coal: transactions** (`coal/store.go`) | session, snapshot, attempts | T, RT | everything that stores | write conflicts, transient errors, unknown commit results, functions that run again | a call's changes are applied at once and at most once, every call returns |
| **coal: managers** (`coal/manager.go`, `coal/collection.go`) | the collection, a lock counter per document | find, project, count, insert, replace, update, upsert, delete, each with or without a lock | transactions, controllers, axe, glut | which operation is safe where, locks that are writes, validation after the fact | what is locked does not change until the commit |
| **coal: migrations** (`coal/migration.go`) | work channel, counter, tomb | distribute, process, stop | database cursor | failing workers, shutdown | each document once, honest counters |
| **coal: models and translation** | metadata registry | reflection, translation | all packages | none (pure) | agreement with the Go types |
| **glut** (`glut/locks.go`, `glut/basic.go`) | value documents: data, token, end of lock, deadline | Lock, SetLocked, GetLocked, DeleteLocked, MutateLocked, Unlock, Get, Set, Ensure, Delete, Mutate | the database, TTL index | lost locks, slow calls, dead owners, writes that ignore locks | mutual exclusion, no lost updates, locks end |
| **blaze** (`blaze/bucket.go`) | file documents, blobs of services, links of owners | upload, claim, release, modifier, cleanup, migrate, download | controller transactions, axe jobs, services | every step fails or interleaves with cleanup and migration | what is linked is served, what is not linked is deleted, every blob is tracked |
| **spark** (`spark/manager.go`) | registered queues, three channels, tomb | register, broadcast, unregister, deliver, close | `coal.OpenStream`, websockets | select order, slow clients, shutdown | no gaps, no panic, nobody waits for ever |
| **torch** (`torch/reactor.go`, `torch/compute.go`) | tag, status and output on the model; jobs | check, process, scan, compute, release | controller modifiers, axe jobs | saves during a computation, scans, failures | an outdated output is tracked and settles |
| **fire: controller** (`controller.go`, `callbacks.go`) | per request: stage, model, query; stored documents with update token, create token, soft delete | list, find, relationships, create, update, delete | coal transactions, callbacks | two clients on one document, requests sent again, checks on a snapshot, pages of a list that changes | no lost updates, one document per create token, what is deleted stays deleted, nobody changes what he may not, walks through pages miss nothing |
| **flame** (`flame/authenticator.go`) | clients, owners, codes, access and refresh tokens | five grants, authorize, revoke, introspect | heat keys, coal, the application's policy | no transaction: reuse of codes and tokens, failures between issue and delete, expiry and removal in between | a token stays within what was granted, what has ended is not honored again, no grant is lost half-way |
| **ash** | none | access lists, authorizers, enforcers, strategies | controller callbacks | none (pure) | the composition of rules |
| **heat, stick, nitro, roast, example** | none | keys, lists, backoff, validation, calls, tests | | none | numeric edges of backoff |

How they interact: requests run controller callbacks inside a transaction of `coal`; callbacks enqueue
`axe` jobs, claim `blaze` files and run `torch` checks in the same transaction. `axe` workers learn of
jobs through a `coal` stream, and `torch` and `blaze` do their background work as `axe` jobs. `spark`
forwards `coal` streams to websockets. `glut` uses nothing but a collection.

## Modules

| module | models | states and actions |
|---|---|---|
| `AxeStore` | the document of a job and the writes of `axe/basic.go` | operators that map a document to the written one; shared by the next two |
| `AxeJobs` | `axe/task.go`, the execution of jobs | a record per worker (phase, attempt, age of its call, time the handler has run, rest of its context); one action per step of `execute` (`Request`, `Dequeue`, `Save`, `Return`, `Complete`, `Fail`, `Cancel`, `Notify`), of `Context.Extend` and of failures |
| `Exclusive` | what a job queue promises | a job is taken by one holder at a time, given back or finished; `AxeJobs` implements it |
| `AxeEnqueue` | labels and isolation | the upsert of `InsertIfMissing` as a look-up and an insert, as no unique index covers its filter; states and ages of jobs |
| `AxeBoard` | `axe/queue.go`: `update`, `get`, restarts | documents and their undelivered changes, the board, workers here and elsewhere; uses `AxeStore` |
| `CoalStream` | `coal/stream.go` with `coal/reconcile.go` | collection, log of changes, cursor and token, documents still to load, the mirror of the user |
| `GlutLocks` | `glut/locks.go` and the writes of `glut/basic.go` that ignore locks | the value (content, token, rest of the lock, rest of the life), a record per client with the age of its call and what it believes; an action per call and one for its effect |
| `BlazeFiles` | `blaze/bucket.go` | files, blobs per handle, links, uploads (also those of migrations), cleanup jobs and workers; one action per database or service call |
| `SparkManager` | `spark/manager.go` | contents of the channels and queues, registered queues, phase of each handler; one action per case of each `select` |
| `TorchReactor` | `torch/reactor.go` with `torch/compute.go` | the model (input, output, status, tag), its job, the worker with the model it has loaded, the scan with what it has found |
| `CoalManager` | `coal/manager.go`, `coal/collection.go` | no state: each operation maps the documents a caller sees to its possible outcomes (documents, result, error) |
| `CoalStore` | `coal/store.go` on `CoalManager` | committed documents; per call its snapshot, local view, written and locked documents, attempts; the session may be aborted or its commit's result lost at any step |
| `AtomicStore` | what a transaction promises | a call applies all the changes it wants at once and at most once; `CoalStore` implements it |
| `FireLists` | selection, filtering, sorting, paging and links of `controller.go` | no state: operators on a view of the documents; `FindAll` yields every order the database may answer with |
| `FireController` | `controller.go`, `callbacks.go` | stored documents, the transaction of each client, the copy it was last shown, its walk through pages; composes the promise of `CoalStore` (snapshot, lock, atomic commit) and the lists of `FireLists` |
| `FlameTokens` | `flame/authenticator.go`, `flame/policy.go`, `heat/jwt.go` | clients, owners, tokens, the tokens answers have carried, a record per request with the step it is at; one action per database call |
| `MCAxeJobs`, `MCFireController`, `MCFlameTokens` | | the constants a `.cfg` cannot write: extensions, configurations of the controller, what earlier grants have left; the other modules are checked directly |
| `AxeJobs_proofs`, `AxeQueue_proofs` (of `AxeEnqueue` and `AxeBoard`), `BlazeFiles_proofs`, `CoalStore_proofs`, `FireController_proofs`, `FlameTokens_proofs`, `GlutLocks_proofs`, `Streams_proofs` (of `CoalStream`, `SparkManager` and `TorchReactor`) | | theorems, see [proofs](#proofs) |

Conventions. An action stands for a whole step of the code between two points at which others can
interfere: a call to the database is atomic, what a goroutine does between two calls belongs to one of
them. Time is kept relative to the present: a deadline is the time that is left, and `Tick` lets one
unit pass for everyone. Calls that take time have an age bounded by `Latency` (or `UploadTime`), which
makes "the time was read before the call took effect" explicit. Data are abstracted: the content of a
glut value is the number of the write it is from, the content of a blob is the file it was uploaded as,
an output is the input it has been computed from, an event of spark is its age, a filter of a manager
is the set of values it matches, an update token is the number of the write that made it, and a decision
of flame's policy is the first token issued for it.
Operators that begin with "Mutated:" in their comment are variants of the definition below them with a
plausible bug; `PROJECT.json` lists which property finds which of them.

How modules stand for each other: `AxeJobs` hands out any due job, as `AxeBoard` shows that the board
finds every one; `AxeBoard` assumes of the stream what `CoalStream` shows; `TorchReactor` has one
handler per job at a time, which is `MutualExclusion` of `AxeJobs` for a lifetime of one and a timeout
of two minutes; `FireController` gives each request a snapshot, holds the document it has locked against
others and commits at once, which is `LockHolds` and `ImplementsAtomic` of `CoalStore`; `BlazeFiles` lets any number of cleanup jobs run at the same time and fail (the run has
one worker, whose jobs interleave with uploads, claims and migrations), and asks for no more.

## Runs

All runs are complete explorations. All but `coal_stream_first` pass.

| run | instance | shows |
|---|---|---|
| `axe_jobs` | one job, two workers, calls of up to one unit, a timeout of 3 (no margin) or 4, lifetime 1, an extension to 5 and 2, two attempts, seven dequeues, two faults (crashes, overruns, retries, extensions) | under the margin leases exclude each other and writes hit their own attempt; always, a job notifies once and is completed or cancelled, and the workers implement `Exclusive`. Two workers and two attempts are what a conflict takes; jobs do not share state |
| `axe_enqueue` | two callers, three documents, with and without label, isolations 0, 1 and 3, expiry 2, ages up to 3 | labels are unique but for jobs enqueued at the same time, and isolation is honored as far back as finished jobs are kept, over any sequence of outcomes and expiries |
| `axe_board` | one job, two workers here and others elsewhere, a lag and a block period of two, jobs that have waited for up to four, so that a block may end in the past and a job is handed out to both workers, a restart, failing calls, vanishing documents | the board knows what is to be executed and not before it is due; every job is found |
| `coal_store` | two callers, two documents, a valid and an invalid value, every operation of the manager with and without lock, two attempts, two operations and two calls at a time | locks hold, each call is one atomic update or none, every call returns |
| `coal_stream` | two documents, up to five changes of every kind, two failures of watches, loads and streams | nothing is missed; the mirror follows |
| `coal_stream_first` | the same with a stream that may break before its first event | a violation, see [disagreements](#disagreements-between-code-and-documentation) |
| `fire_controller` | six configurations: consistent updates with soft deletion, idempotent creates with soft deletion, with and without a unique index on the create token, the relationship validators, pages by offset, pages by cursor; two clients acting for two users, three identifiers, up to three writing requests | one document per create token (without the index unless two creates overlapped), updates replace what their client has seen, deleted documents stay, permissions hold, walks are complete |
| `flame_tokens` | a confidential client with every grant and a public one without refresh tokens, one owner, two requests at a time and three in all, starting from nothing, from a pair of tokens or from a code, the exchanges asking for the same, a narrower or a wider scope; time up to 2 in half seconds, one fault or removal | tokens stay within their grant, what has ended is not honored, a client loses its last refresh token only as stated |
| `glut_locks` | two clients, timeout 3, time to live 4, slow calls, a failing call or dying client, raw ensure, set and delete | mutual exclusion, no lost update, the lock is taken again and again |
| `blaze_files` | two uploads, one of which may be a migration of the other, two owners, a cleanup worker, a failure | links, blobs and states correspond at every step, no blob is tracked twice, what is not claimed is deleted |
| `spark_manager` | two connections, queues of two events, channels of one | no panic, no queue lost, no gap, everybody leaves, queues of those who have gone are unregistered, at once or, when the unregistration has overtaken the registration, by events that fill them |
| `torch_reactor` | five settings of the options (with and without releaser, scan, retry and rehash interval), three inputs that come, go and return, one of them absent, five saves, two failures or crashes | an outdated output is tagged or invalid, until the tag has lost count in one of the ways below; with a scan and a rehash interval the output becomes that of the input all the same |

Bounds. Each is a constant whose comment begins with "bound:". They cap counters (writes, saves,
dequeues, faults), ages beyond which the code does not tell values apart (`RanCap`, `AgeCap`, `Floor`, `MaxAge`)
and the latency of calls. The numbers are chosen so that the shortest sequences that break a property
fit: each property has a mutant of the code that it refutes under the same configuration. Deadlock is
checked except where the bounds (writes, saves, changes, dequeues) or a shutdown really end all
activity. `fire_controller` and `flame_tokens` are symmetric in their clients and requests, and check
no liveness. `FireController` stores at most three documents, which is what it takes for two pages and
a document that appears or vanishes between them.

## Fairness

Fairness plays no part in invariants and action properties. The liveness properties assume:

- time passes, the database answers a call and a goroutine that can take a step takes it (weak
  fairness). A handler returns at last (`Return`, strong fairness, because a handler may save again and
  again in between);
- the board hands out jobs in the order of a Go map, which is random for each iteration: a job that is
  due again and again is picked at last (strong fairness of `Request` and `Get`), and a worker that
  dequeues a job again and again succeeds at last in a competition that has no memory (`AxeBoard`);
- a Go `select` chooses among ready cases at random, so that a handler of spark that could register
  again and again does (strong fairness of `Register` and `Unregister`);
- the function of a transaction returns and the database answers (weak fairness of `Return` in
  `CoalStore`), with whatever error: that a call ends rests on the count of its attempts alone;
- clients of glut keep asking for the lock, without which nobody would lock a value, and their calls
  are answered (weak fairness of `CallLock` or `Answer` per client);
- the periodic jobs of blaze and torch (cleanup, scan) run as long as there is work.

No fairness is assumed of users, crashes, failures, events of a watcher, uploads that begin, nor anywhere
in `FireController` and `FlameTokens`.

## Proofs

TLC explores small instances; TLAPS proves these for all values of the constants.

| module | theorem | argument |
|---|---|---|
| `AxeJobs_proofs` | `TypeCorrect` | types are kept by every action |
| | `LeaseInvariant`, `JobInvHolds`, `MutualExclusionHolds`, `OwnWritesHold`, `NotifiedOnceHolds` | `LeaseInv` is inductive together with the types |
| | `ExclusiveHolds` | the steps of `AxeJobs` are steps of `Exclusive` under the margin |
| `AxeQueue_proofs` | `EnqueueInvHolds`, `IsolationHolds` | `EnqueueIInv` is inductive |
| | `BoardInvHolds` | `BoardIInv` is inductive |
| `BlazeFiles_proofs` | `FilesInvHolds`, `LinksServedHolds`, `BlobsTrackedHolds`, `StateForwardHolds`, `RetentionHonoredHolds` | `IInv` is inductive |
| `CoalStore_proofs` | `StoreInvHolds` | every operation that locks a document writes it; `IInv` is inductive |
| | `AtomicHolds` | the steps of `CoalStore` are steps of `AtomicStore` |
| `FireController_proofs` | `FireInvHolds`, `ConsistentUpdatesHolds`, `DeletedStaysHolds`, `AuthorizedChangesHolds` | `IInv` is inductive |
| | `PagesInvariant`, `PagesCoverHolds` | `PagesInv` is inductive together with `IInv` |
| `FlameTokens_proofs` | `FlameInvHolds`, `EndedForGoodHolds`, `NeverStrandedHolds` | `IInv` is inductive; so is `HandInv` given it |
| `GlutLocks_proofs` | `TypeCorrect`, `LockInvariant`, `ValueInvHolds`, `MutualExclusionHolds`, `NoLostUpdateHolds` | `LockInv` is inductive together with the types |
| `Streams_proofs` | `StreamTypeCorrect`, `StreamInvariant`, `TailInvHolds`, `CaughtUpHolds` | `StreamInv` is inductive together with the types |
| | `ManagerInvHolds`, `NoGapHolds` | `WatchersIInv` is inductive |
| | `ReactorInvHolds` | `ReactorIInv` is inductive |

**Leases.** That two workers do not hold the same job cannot be seen from their phases: it follows from
the clocks. `LeaseInv` says that a live worker owns its job (the document is in its attempt) and that
the rest of the job's wait exceeds the rest of the worker's context by more than a call, that a call on
its way arrives before the wait is over, and that different workers are in different attempts. Dequeue
needs a wait that is over, hence no live worker. All of this holds under `Margin`: the lifetime and two
calls are shorter than the timeout, for the task and for every extension. It is a premise in the
properties and not an assumption on the constants, because `prepare` in `axe/task.go` does not ensure
it (see [disagreements](#disagreements-between-code-and-documentation)).

**Enqueueing.** No unique index covers the filter of the upsert, so "no job is queued if there is already
a job with the same label" cannot be kept for upserts that overlap; the warning above `InsertIfMissing`
(`src/coal/manager.go:818`) says so. What the code does keep is told by two history variables:
`meanwhile`, the jobs others have enqueued with the label between a caller's look-up and its insert, and
`twins`, what `meanwhile` was as a job was enqueued. Two unfinished jobs with a label are always twins
(`LabelUnique`), and an isolation holds back to the age at which the index removes finished jobs, but
for a job that was itself enqueued and finished during the upsert (`IsolationHonored`). Both hold for any
number of callers and any isolations. `EnqueueIInv` adds that a caller in the middle of an upsert has met
every unfinished job with its label (`Unseen`) and every job that has finished within the isolation
(`Rested`), and that the document of the last job that has finished with a label is there until it
expires, with the age the history variable has (`LastKept`): a look-up that finds no document within an
isolation would otherwise prove nothing.

**Board.** `BoardInv` says that the board is what the documents say once their changes are delivered.
`BoardIInv` adds the types of the board, that a worker that is busy has a job, and nothing else: every
handler of a change, every dequeue and every restart restores the correspondence by itself.

**Files.** A file is reachable by its document, by the upload that is writing it, by cleanup and
migration, and by the blob's handle, each of which holds a state it has read some steps ago. `IInv` says
that a blob is tracked by one file (`OneTracker`), that handles are given once per upload (`Tracked`), and
what each actor still knows of the file it holds (`Roles`). The rest has the premise `Timely`, that an
upload is over before the retention is, which the code does not ensure: an upload that is running is
too young for any cleanup to have seen it, a file that was found to be old is not written any more, and
what a job has found marked for deletion is marked or gone (`Timed`). `StateForward` and
`RetentionHonored` are read off each action from that.

**Streams.** `StreamInv` says where the next relevant change of a document that differs between mirror
and collection is in the log: after the cursor while the stream is tailed, after the token when it is
to be resumed, and for loaded documents after the position the watch started at. The exception are
documents that a load has yielded before it failed and that were deleted before the next load
(`stale`, a history variable; no state of the code). `CaughtUpHolds` has one premise, that no stream
breaks before its first event, which is the situation of `coal_stream_first`.

**Locks.** `LockInv` says that the value of a client that believes to hold the lock exists, bears its
token, is locked for at least as long as the client believes, and lives long enough; that a client that
has the value open and whose token it bears knows its content unless it was changed by writes that
ignore locks; and that a client has given up before it releases or deletes. The first part has the
premise `Kept` (nobody deletes values without holding them, and the index keeps a value longer than a
call takes), the second has none. The assumption `TTL = 0 \/ TTL > Timeout` is the check in `Lock`.

**Tokens.** Requests read a token and act on what they have read several steps later, when the token may
have been exchanged, revoked or removed. `IInv` therefore says of each request what its step still
guarantees: its fields have the shape of its kind (`Shaped`), what it is about to issue goes back to the
grant it has read (`Traced`), a request that was barred when it arrived stays so and cannot get past its
next read (`Over`, `Hopeless`). `NeverStranded` speaks of the tokens a client knows, not of those that are
stored: a grant is in hand (`InHand`) while an unexpired, stored refresh token of it has been answered or
is about to be. A step that takes the last one is time, a revocation, or the failure of a request between
`deleteToken` and its answer, which the code cannot avoid, as it deletes before it answers; a failure
anywhere else, and any overlap of exchanges, leaves the grant in hand. `HandInv` says why: nobody else
knows a token before it is answered, so nobody else can exchange or revoke it (`Apart`), and a refresh token
that is about to be deleted has a successor among what its request has issued, which expires no earlier
(`Succeeded`, `InTime`). The assumptions are those on the constants, with any number of clients, requests,
tokens and faults.

**Requests.** A request of `FireController` acts on a snapshot. `IInv` says what makes that sound. A
document that a request has loaded is as it was in the snapshot, not deleted, visible to the user, and
held by nobody else, until the request ends (`Holding`, `Apart`); what it has saved differs from it only
in fields the user may write, except for the update token, which nobody may write for him (`Saving`).
These two give `AuthorizedChanges` and `DeletedStays`. For `CreatedOnce` (`CreateTokens`): a token that is
about to be inserted is in no document of the snapshot of its request (`NewToken`), and those documents
still have the tokens the snapshot shows (`SnapTrue`), as an update keeps the token of its document
(`TokenKept`); so only a document inserted since can have it, and with the index none. For `ConsistentUpdates` (`UpdateTokens`): no two stored documents, no two writes
and no stored document and write have the same update token, a new token is in nobody's hands, and a
copy that carries the token of a stored document shows that document as it is; an update that is saved
has brought its token in a copy, as the code blanks the stored one before it assigns what was sent
(`ResetToken`), and the first token is not blank. The lemmas before those say that pages of lists
(`PagesOf`) hold documents the user may see, whatever order the database chooses, and that the links of
a page are requests (`LinksOf`). Assumed are that identifiers are bounded and that the zero value of a
document is invalid.

**Pages.** `PagesInv` says of every walk what its page stands for. By cursor (`CursorWalk`): of the
documents that stay, those that have been shown are those the cursor has passed (`Passed`), also when
the document the cursor was made of has changed or is gone. A page takes the first documents beyond the
cursor (`NextPage`), so none of those that stay lies between what was shown and its last document; a
page that is not full has shown all of them (`Complete`), which is when `CursorLinks` gives no further
link. This rests on `Beyond` being a strict total order of the keys (`BeyondTransitive`, `BeyondTotal`,
`BeyondPassed`) and the identifier being the last key, so that no two documents share a cursor
(`CursorDistinct`); back from the last page it is the same in the reversed order (`WalkBack`,
`AfterReversed`). By number (`OffsetWalk`): as nothing has changed and no two documents are sorted the
same, there is one list (`SameListing`) of which every page is a piece, and what was shown is what lies
before or behind the number (`UpTo`, `From`); the number of the last page leaves nothing out
(`PageCount`). A change of a document takes it from what the walk counts on, and nothing else
(`PagingDisturbed`). Assumed is that lists are sorted by fields that hold numbers, of which alone the
model has an order (`ListsAssumption`), and that the sort of a request is a sequence of keys.

**Notifications and the refinement of `Exclusive`.** A job that is completed or cancelled stays so (`StaysFinal`),
and only the attempt that has written the outcome notifies (`ClosedOnce`). For the refinement, each
action of `AxeJobs` is an `Open`, `Take`, `Close` or `Lose` of the abstract module or a stutter; the only
step that takes work is `Dequeue`, where `LeaseInv` gives that nobody else holds the job.

**Transactions.** First the operations, one lemma each: what an operation of `CoalManager` yields is `Sound`,
which says that it keeps the types, that it writes each document it locks, that it writes nothing when
it reads, and that outside of a transaction it changes one document at a time. `IInv` then says of the
calls: what is locked is written, what is written is as it was in the snapshot in the committed
collection, transactions that can still commit have written different documents, and a transaction
that has written nothing commits nothing. `LockHolds` is part of that, and a commit therefore applies
exactly the wanted changes to the present documents: that is `Apply` of `AtomicStore`, also when the
result of the commit is lost and the function runs again. It is assumed that the absence of a document
is no document (`CoalManager`).

**Watchers.** What waits in the channel and the queue of a handler continues what its client has been
given, without a hole (`NoGap`); a queue that is closed is not registered, so that nothing is added to
it and it is not closed again, and a queue that is served waits to be registered, is registered or has
been closed, because only a handler that has gone unregisters (`Departed`, `ManagerInv`).

**Reactor.** A job compares nothing when it writes: that an output for an old input is found again rests
on arithmetic. `ReactorIInv` says that the tag exceeds what a handler has loaded whenever the input has
changed since (`Counts`), that what a scan is going to subtract leaves something of the tag of an
outdated output, and hence that an outdated output leaves a tag (`Tagged`). Both end when the tag loses
count, which the history variable `lapsed` records: a save that is not counted while a handler computes
for another input, a save that releases and removes the tag while a handler or a scan is going to
decrement it, and a scan that puts aside a model whose handler is at work, or the other way round. Each
of the three breaks `Tracked` (see below), under the settings that have it; nothing else does, with
whatever settings and inputs.

What stays with TLC: liveness (`EveryJobFinishes`, `EveryJobFound`, `EveryCallReturns`, `MirrorFollows`,
`LockedAgain`, `EventuallyReclaimed`, `AllLeave`, `Unsubscribed`, `Settles`). Liveness and `ENABLED` are
out of reach of the prover, as are induction over data and recursive operators; no module here uses
recursion. Every safety invariant and every safety action property of the runs is stated by a theorem,
but for `CaughtUp` of `coal_stream_first`, which does not hold.

## Disagreements between code and documentation

One is a defect that costs an application data, and has a run that ends in a counterexample and a
finding in `PROJECT.json`:

- `coal_stream_first`, `CaughtUp`: a stream that breaks after it has been opened and before its first
  change has no token, so `tail` watches from the present (`src/coal/stream.go:115-119`) and signals
  resumed, upon which `Reconcile` does not load again (`src/coal/reconcile.go:55-57`). The changes in
  between are never yielded.

The others were met while modelling. Each shows as a counterexample when the constants of a run are
changed as given.

| where | what happens | to see it |
|---|---|---|
| `src/coal/reconcile.go:27-29`, comment at 11 | a load that fails half-way is repeated, but documents it has yielded and that have been deleted in the meantime stay in the mirror | `coal_stream` with `mirror = store` in place of `Follows` |
| `src/axe/task.go:388`, comment at 72 | an attempt that extends late is discarded although it returns before its new deadline, because `start` is not moved | `Return` of `AxeJobs` with a `ran` above `lifetime` and a `ctx` above zero: the outcome is dropped |
| `src/axe/task.go:223`, message at 224 | "lifetime must be less than timeout", but equal values are accepted and leave no margin | `axe_jobs` with `Lifetime = Timeout`: `Margin` does not hold, and several attempts run at once |
| `src/axe/basic.go:126`, comment at 18 | concurrent enqueues insert two jobs with the same label, as no unique index covers the filter | `axe_enqueue` with `LabelUnique` without `twins` |
| `src/axe/model.go:50`, comment at `basic.go:19` | the index removes finished jobs after a minute, so a longer isolation ends early | `axe_enqueue` with `IsolationHonored` with the isolation itself in place of `Enforced` |
| `src/axe/queue.go:292`, comment at 54 and 291 | the block period counts from when the job was due and not from when it was taken, so a job that has waited is handed out to every worker at once | `Get` of `AxeBoard`: the lag it adds to may be negative |
| `src/blaze/bucket.go:205`, `models.go:158` | an upload that takes longer than the retention moves its file from deleting back to uploaded | `blaze_files` with `UploadTime` greater than `Retention`: `StateForward` without its premise `Timely` |
| `src/blaze/bucket.go:1138`, comment at 1187 | a stale cleanup job deletes a file that has just been uploaded | `blaze_files` with `UploadTime` greater than `Retention`: `RetentionHonored` without its premise `Timely` |
| `src/spark/manager.go:92`, comment at 149 | a queue that is unregistered before it is registered stays registered until events fill it | `spark_manager` with the first conjunct of `Unsubscribed` without `overtaken` |
| `src/torch/compute.go:226`, `reactor.go:18-20` | an input that is restored during a computation is not counted; the output stays wrong | `torch_reactor` with the first disjunct of `Save` leaving `lapsed` as it is: `ReactorInv` |
| `src/torch/compute.go:255`, `reactor.go:116`, `reactor.go:18-20` | an input that disappears while a job computes is released by the save, which removes the tag; the job then writes the output for the old input and leaves a negative tag | `torch_reactor` with the second disjunct of `Save` leaving `lapsed` as it is: `ReactorInv` |
| `src/torch/reactor.go:199`, comment at 196 | scan and process job both decrement the tag and swallow an increment | `torch_reactor` with `Scan`, or `Load`, leaving `lapsed` as it is: `ReactorInv` |
| `src/coal/manager.go:448,475,535`, comment at 437 | `Project` and `ProjectFirst` ask for one document, and a lock with a limit is refused: they can never lock, not even in a transaction | `Project` of `CoalManager`: every outcome with a lock is "refused" |
| `src/coal/manager.go:919`, comment at 881 | `Replace` and `ReplaceFirst` lock by adding 1000 to the counter of the model in hand, not of the document: a model that was read before another replacement with the same content may be what is stored, so that nothing is written and nothing is held | `Replaces` of `CoalStore` with models that were read before the transaction: `StoreInv` |
| `src/controller.go:1908`, comment at 186 | a search is sorted by score first, of which the cursor knows nothing, so pages by cursor repeat and omit documents | `fire_controller` with `PagesCover` without the condition on `search` |

The passing runs of the same modules exclude exactly these situations by their constants (`Margin`,
failures after the first event, `stale` documents, `Timely` uploads, walks without a search), by history
variables that tell them (`twins`, `overtaken`, `lapsed`) or by a rehash interval, which is how far the
promises of the code can be kept. With a retry interval the first of the three of
`TorchReactor` takes no input that returns: a save right after a failure is not counted either
(`src/torch/compute.go:211`).

Some behaviour contradicts no documentation and is in the models for whoever relies on it:

- `Update`, `UpdateFirst` and `Upsert` validate what they have written (`src/coal/manager.go:1043`):
  outside of a transaction an invalid document stays. A `T` within a transaction is the outer one, and
  its `readOnly` is ignored (`updated` and `T` in `CoalManager` and `CoalStore`).
- A transaction that returns an error may have been committed, when the last attempt ended with an
  unknown result (`AtomicStore` allows it, as does the comment in `store.go`).
- `deleteResource` writes its answer, 204, before the transaction commits (`src/controller.go:870`).
- The validators of references count documents without a lock (`src/callbacks.go:151`, `222`): two
  requests may delete a document and refer to it at the same time, each valid in its snapshot. The
  validator of referenced resources accepts soft deleted ones.
- A document whose stored update token is blank can be updated without one. A create token can be used
  again once its document has been removed. A unique index on the token is only recommended
  (`src/controller.go:228`): `FireController` has it in some configurations (`UniqueToken`), and without it
  creates sent at the same time do store two documents with one token, as `CreatedOnce` allows for.
- Pages by offset are stable only while nothing changes and no two documents are sorted the same.
- Two exchanges of one code or refresh token at the same time both succeed, as the read, the issue and
  the delete are separate calls; a revocation that has been answered does not stop an exchange that has read
  the token already (`EndedForGood` is about requests that arrive afterwards). Tokens that descend from a
  code are not revoked when it is used again, as a TODO at `src/flame/authenticator.go:633` says.
- When `TokensIssued` fails or the process dies after the delete, the new tokens are stored and the
  client does not know them: it has lost its last refresh token (the third case of `NeverStranded`).
- An `Authorizer` that does not load the client accepts the access tokens of a client that has been
  removed, and the authorization endpoint accepts the access token of any client.

## What is not modelled

- Encodings, HTTP, reflection, query translation, validation messages, tracing, metrics: pure or input
  and output.
- Cryptography (`heat`) and drivers. MongoDB is modelled by how the code uses it: single operations on a
  document are atomic, change streams deliver in order and may be resumed from a token, TTL indexes
  delete some time after the deadline.
- Clock skew between processes: the times of axe and glut are compared as if all processes had the same
  clock; skew acts like latency and would be added to `Latency` in `Margin` and `Kept`.
- In `AxeJobs`: validation of jobs and the contents of their data. In `AxeBoard`: periodic enqueueing.
  In `CoalStream`: events that cannot be decoded and dropped collections. In `CoalStore`: a filter is the
  set of values it matches and the function of a transaction performs any operations. In `BlazeFiles`:
  files of many links, sizes and media types, downloads that overlap a migration. In `SparkManager`:
  subscriptions and selectors. In `TorchReactor`: operations without a status, deferrals, expiry of tags.
  In `FireController`: collection and resource actions, which run a handler of the application, and the
  order of the callbacks within a stage. In `FlameTokens`: the redirect of a GET, `EnsureApplication` and
  `EnsureFirstUser` (each looks for a document and inserts it by two calls), and `flame.Callback`.
- Migrations (`coal/migration.go`): a worker pool around one channel that stops with the first error.
  No other state depends on what it counts, and it is run by hand.
- `ash` and `stick`: compositions of pure functions. The result of `stick.Backoff` is clamped to its
  bounds, which is what `AxeJobs` uses of it.
- Components with status `not_modelled` in `PROJECT.json`, with their reasons.

## Plan

Done: axe (`AxeStore`, `AxeJobs`, `Exclusive`, `AxeEnqueue`, `AxeBoard`), coal (`CoalStream`,
`CoalManager`, `CoalStore`, `AtomicStore`), `GlutLocks`, `BlazeFiles`, `SparkManager`, `TorchReactor`,
the controller (`FireLists`, `FireController`), `FlameTokens`, and the proofs above. What is left:

1. The worker pool of migrations, as a module of its own.
2. Extensions: undecodable events and invalidation in `CoalStream`, attachments and downloads in
   `BlazeFiles`, subscriptions in `SparkManager`, deferrals in `TorchReactor`, actions in
   `FireController`.
3. The premise `Timely` of `BlazeFiles` by file: what an upload that outlasts the retention does to its
   own file, and that it does nothing to others (`bucket.go:205,1138`, two hazards without a property).
