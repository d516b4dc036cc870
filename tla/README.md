# A TLA+ development of Telora

Telora is a configuration language: a compiler front end (`telora-core`) resolves
modules, names and types into a closed graph, a back end (`telora-wasm`) emits
WebAssembly, a runner (`telora-run`) serves requests from it, and a package manager
acquires external artifacts through a store on disk (`imos`). This directory models
the parts whose correctness depends on order, concurrency or failure, checks them
with TLC on small instances and proves the most important facts with TLAPS for every
instance.

1. [Inventory](#inventory) 2. [Modules](#modules) 3. [ImosStore](#imosstore-the-shared-store)
4. [ImosCreate](#imoscreate-one-call-from-the-inside) 5. [ResolveSchedule](#resolveschedule-the-symbol-pass)
6. [EvidenceQueue](#evidencequeue-who-implements-what) 7. [LspServer](#lspserver-the-language-server)
8. [Runner](#runner-and-guestservice-serving-requests)
9. [GuestMachine](#guestmachine-and-serving-the-code-that-runs)
10. [Runs](#runs-and-bounds) 11. [Disagreements](#where-the-code-and-its-words-disagree)
12. [Proofs](#proofs) 13. [Only model-checked](#only-model-checked)
14. [Not modelled](#not-modelled) 15. [Plan](#plan)

## Inventory

What each part keeps, what it does, what is hard about it, and what makes it correct.

### imos (`crates/imos`, 3 700 lines)

| part | state | operations |
|---|---|---|
| store (`store.rs`, `db.rs`, `fsx.rs`) | `requests/<inode>` hard links, `state.sqlite` (request -> plan, plan -> downloads), `install/<key>`, `dl/<key>`, `tmp/`, lock files under `locks/` | `create`, `install`, `remove`, `gc` |
| one call (`store.rs` reducer) | `CreateState`, a channel of `CreateEvent`s, a set of effect tasks | one reduction per event, one task per effect |
| progress (`progress.rs`, `status.rs`) | the status of each target, a queue of emissions per target, status lines in lock files | `Event::reduce`, `emit`, `observe` |
| artifacts (`artifact.rs`) | a download object, a staged root | verify, download, copy or unpack |
| plans (`plan.rs`) | none | validate, hash |

Interactions: processes share the store only through the file system, the database
and `flock`s that are polled every 100 ms. `telora`'s package host
(`package_host.rs`) installs a plan per lock node and unlinks stale plan files; users
and editors own the plan files and edit, replace or link them at any time.

Hard: a gc interleaved with a create between staging and registration; inode numbers
that are reused; a plan file replaced between snapshot and registration; a process
killed at any step, in the middle of deleting an object above all; failures of one of
several concurrent tasks; the order of statuses. Correct when: a registered request
has its installation and downloads; gc deletes what nothing references and only that;
staging areas are never pulled away; calls return; callers see every status once.

### telora-core (`crates/telora-core`, 22 800 lines)

| part | state | operations |
|---|---|---|
| module graph (`module_resolve.rs`) | modules, imports, a set of pending modules, demanded names | load, discover, resolve a request |
| symbol pass (`symbol_resolve.rs` and below) | the facts of the graph, a queue, waits and consumers | step a task, notify, cut cycles |
| type pass (`type_resolve.rs` and below) | an arena of types, constraints, evidence nodes | solve, generalise, close evidence in batches |
| query layer (`query.rs`) | a revision clock, a cancellation flag per context | advance, check, checkpoint, compare a snapshot's revision |
| syntax, HIR, sealing, layouts, packages | the graph | pure passes |

Hard: work lists whose outcome must not depend on their order; cyclic dependencies
that must neither hang nor prove themselves; facts read before they are final.

### telora (`crates/telora`, 5 000 lines) and telora-run (1 300 lines)

The language server keeps open documents, a lifecycle, a token per pending request, a
workspace with a published snapshot, and spawns a rebuild per edit; rebuilds, requests
and cancellations interleave on one thread. The runner keeps a guest instance, a
baseline image, a poisoned flag and fuel; a request that traps poisons the instance
and the next one starts by restoring it. Correct when diagnostics belong to the text
they are labelled with and arrive once edits stop, and when every request runs on a
state equal to the baseline.

### telora-wasm (30 600 lines with its guest runtime), telora-wasm-shared, telora-data (6 500), telora-sha256

| part | state | operations |
|---|---|---|
| generated code (`src/emit.rs`, `root_codegen.rs`, `stack_values.rs`, `tail_calls.rs`, `capture.rs`) | locals, a demand entry per global, `ERROR_GLOBAL` | enter and leave frames, publish roots, call, tail call, capture failures, evaluate a global once |
| guest runtime (`rt/`) | heap and page masks, `ROOTS`, `FRAMES`, `Scratch`, the table of diagnostics, the service phases | allocate, collect, reset, snapshot, import |
| data formats (`telora-data`), hash (`telora-sha256`) | none | pure functions |

Hard: the collector knows published slots only, so generated code and runtime have to
agree at every safepoint on what is live; a function ends in four ways, each of which
must close the same frames; a handler runs again and again on the heap and globals its
predecessors left. Correct when no reference dangles, frames and calls agree, and a
request starts where the first one did.

`PROJECT.json` lists every component with its status, the hazards with the line where
each one bites, and for each definition of the modules the lines it stands for.

## Modules

| module | what it is | code |
|---|---|---|
| `ImosIntent` | abstract: inodes bound to plans, a plan bound only while it is had | what the store promises |
| `ImosStore` | the shared store, step by step; implements `ImosIntent` | `store.rs`, `db.rs`, `fsx.rs`, `artifact.rs`, locks of `progress.rs` |
| `MCImosStore` | its instances | |
| `ImosStoreProofs` | theorems about `ImosStore`: rows, refinement, torn downloads; staging, gc, promises | |
| `ImosBuild` | abstract: what one call may do to the world, in which order | what a call promises |
| `ImosCreate` | one create or install call: reducer, tasks, channel, progress; implements `ImosBuild` | the reducer of `store.rs`, `progress.rs` |
| `MCImosCreate` | its instances | |
| `ImosCreateProofs` | theorems about `ImosCreate` | |
| `ResolveSchedule` | the symbol pass: queue, waits, cycles, two drains | `symbol_resolve/schedule.rs`, `symbol_resolve.rs` |
| `MCResolveSchedule` | its programs | |
| `ResolveScheduleProofs` | theorems about `ResolveSchedule` | |
| `EvidenceQueue` | the evidence graph of the type pass, in batches | `type_resolve/evidence/queue.rs`, `evidence.rs`, `properties.rs`, `instances.rs` |
| `MCEvidenceQueue` | its programs | |
| `EvidenceProofs` | theorems about `EvidenceQueue` | |
| `LspServer` | the language server, its workspace, rebuilds and requests | `lsp.rs`, `mir_workspace.rs`, `query.rs` |
| `MCLspServer` | its instance | |
| `LspServerProofs` | theorems about `LspServer` | |
| `ServiceContract` | abstract: a service that is published once and answers in one state | what the runner promises |
| `GuestService` | the exports of a service instance as operators on its state | `rt/service.rs`, `service/run.rs`, `service_sources.rs`, `snapshot.rs`, `tables.rs` |
| `Runner` | initialize, reset and request over a guest; implements `ServiceContract` | `telora-run/src/lib.rs`, `engine.rs`, `input.rs` |
| `GuestMachine` | execution inside an instance: heap, collector, frames, calls, globals, failures, images | `rt/heap.rs`, `gc_runtime.rs`, `gc_mark.rs`, `values.rs`, `src/emit.rs`, `root_codegen.rs`, `stack_values.rs`, `tail_calls.rs`, `capture.rs` |
| `Serving` | `Runner` and `GuestMachine` composed: the exports run code between a call and its return | the calls of `engine.rs` into the guest |
| `MCServing` | its instance | |
| `RunnerProofs` | theorems about `Runner` | |
| `ServingProofs` | theorems about `Serving` | |
| `Iteration` | lemmas: induction and recursion over the naturals, for the proofs about the two work lists | |

`ImosStore` sees a call from the outside, as the steps that touch what processes
share, and `ImosCreate` from the inside, as events and tasks; what a task may have done
by the time it answers (fetch, stage, execute, publish, register, in that order) is in
both, as `ImosBuild` in the second. `Runner` composes the host with `GuestService`:
the host calls the guest's exports one at a time, and an export is an operator from an
instance to the instances it may leave, with the assertions it makes beside it. `Serving`
opens the exports that run compiled code: each is a call, any number of steps of
`GuestMachine`, and a return that is the runner's step. Each abstract module is instantiated in the
detailed one with a refinement mapping, and its `Spec` is checked as a property.

## ImosStore: the shared store

*State.* `path`, `content`, `stamp`, `clock` are the users' side of the file system:
paths to inodes, the plan an inode's bytes spell, its modification time. `reg` is the
directory `requests/`, `row` and `rel` the two tables, `install`, `dl` and `tmp` the
objects, five variables the lock files, and `pc`, `key`, `job`, `fetch` the local
state of the calls. A download object is `none`, `whole` or `torn`; what is left of a
torn one does not matter (key without data, data without key, half of either), since
`verify_download` reads all of it. An installation is `none`, `whole`, or one of two torn
shapes: `husk` still has the key and the root that `valid_object` looks for, `stub` does not.

*Actions.* Every operation is cut where another process can get in between: at each
lock, each file system call that matters, each database transaction.

| call | actions, in order |
|---|---|
| create | `SubmitCreate`, `PrepareSnapshot`, `ReadPlan`, then as below |
| install | `SubmitInstall`, `AcquireRequestLock`, `PersistRequest`, then as below |
| both | `CreateAcquireGc`, `AcquireInstallLock`, `CheckCached`; if not cached `PrepareInstall`, for each download `AcquireDlLock`, `ReuseDownload` or `StartDownload`, `PublishDownload`, `EndDownload`, then `PublishInstall`; then `HardLink`, `VerifyRegistration`, `CheckRow`, `AddRequest`, `Return` |
| remove | `SubmitRemove`, `RemoveAcquireGc`, `RemoveSnapshot`, `RemoveRow`, `RemoveLink`, `Return` |
| gc | `SubmitGc`, `GcAcquire`, `GcKnown`, `GcStaleRow`*, `GcListRequests`, `GcEntry`/`GcUnlink`*, `GcRelations`, `GcSweepInstall`*, `GcSweepDownload`*, `GcSweepTmp`, `Return` |

Failures: `FailDownload` and `FailItem` (a transfer or an item fails), the error
branches of the checks, and `Crash`, which ends a call between any two steps: the
operating system drops its locks, everything on disk stays.
`CrashSweepingInstall` and `CrashSweepingDownload` kill a gc inside `remove_dir_all`.
Users write a new file over a path, edit one in place, link and unlink.

*Abstractions.* A plan is a model value with the set of its downloads; digests and
sizes are reduced to whole or torn, and one plan key always has the same items. Volume checks are left out (one file system). The
reads of `prepare_create` that nothing separates are one step. Staging I/O failures
other than a failed item are in `ImosCreate`. A freed inode number may be reused at
once, as common file systems do. Files the users write are plans that parse: a file
that does not fails `ReadPlan` alone and changes nothing.

*History.* `kept[i]` is the plan promised to the owner of inode `i`: set when a create
that no remove and no other create of the inode overlaps registers it, dropped when
its last upstream path goes, a remove reads the inode, or another create of it is about
to bind another plan (no promise is made to a create that returns while one of these is
under way). `owed[u]` is the plan last
installed at path `u`, while `u` still asks for it. They appear in properties only.

*Properties.* `RowsBacked`: a row has its installation and downloads. `StagingSafe`:
nobody deletes or publishes under a builder's hands. `KeptInstalled`: what a caller
was told Ok for stays. `GcExact`: a gc that returns left nothing unreferenced.
`TornUntilGc`: a torn download stays until a gc sweeps it, and no create that names it
succeeds before. `CallsReturn`: every call ends. `ImplementsIntent`.

## ImosCreate: one call from the inside

*State.* `state` is `CreateState`; `tasks` are the running effects, each with the
script of events it may still send, chosen when it starts; `queue` is the channel;
`world` records what the tasks have done outside, `sent` the last status sent to the
caller per target. *Actions.* One per `CreateEvent` variant: it takes the head of the
channel and does what the arm of `CreateEvent::reduce` does, including the calls of
`advance_items`, `pump_progress` and `fail_create` in it; `RunTask` lets a task send
its next event; `FailEmission` is a status that cannot be written, `JoinPanic` an
effect task that panics; `Return` is the exit of the loop of `run_create`, when a
result is there, no task runs and the channel is empty.

*Abstractions.* The channel's capacity (128) is left out: the loop always receives, so
a full channel only delays a task. Statuses carry type, state and attempt count.
Retries inside one download are its progress events. What a waiter sees of the other
holders of a lock is any sequence of statuses its file may hold: those of the lock's
target and, in the file of an installation, those of the archives unpacked under it. It
need not begin with a first attempt, as the file is cut at each acquisition and
read on from the same place.

The model keeps what looks odd in the code: a call that has failed (its status could
not be written) goes on to publish and register if those effects were under way, and
returns an error although the plan is registered; the first failure is the one
reported. `ImosBuild` allows it: an Ok implies a registration, an error implies
nothing.

*Properties.* `ImplementsBuild`: items execute in order, each after its own download,
once; publication after all of them; registration after publication; nothing after the
return. `Reported`: at the return every queue of statuses is empty and the caller has
seen the last status of each target, a terminal one for the installation.
`NoLateProgress`: as long as every status is written, the call reports after a terminal
status only a new attempt, also if the ended one was another holder's.
`CallReturns`.

## ResolveSchedule: the symbol pass

The pass establishes facts: what a symbol or a reference resolves to, whether a symbol
is a namespace or a constructor, and whether an expression names a type with
constructors. Each fact is a task. A task's step reads other facts; at the first that
is missing it registers as a consumer, records what it waits for and queues its input.
When the queue is empty and tasks wait, the waits have cycles, and each is cut by a
negative answer for its least task. Symbols are drained first; then patterns that bind
a name twice become conflicts; then references are drained.

*State.* `fact`, `ready` (the queue), `waiting`, `consumers` as in the code; `draining`
which of the two drains is under way; `prog` and `dup` the program: a decision tree per task
and the patterns that are duplicates. *Actions.* `Skip`, `Finish`, `Wait`: the three
ways a turn of the inner loop of `drain` goes. `CutCycles`: the block after it.
`ResolveReferences`: what `resolve_with_scheduler` does between the drains; the
duplicates are marked whether or not there are references to drain.

*Abstractions.* A step is a function of the facts it reads one after another, each
choice of the next depending on the answers so far: a decision tree, of any depth in
the module. That covers `symbol_step`, `lookup`, `reference_step`, `static_path` and
the three queries, which write nothing outside their own fact except when they finish
(the kind of the symbol itself, a conflict entry, a diagnostic that is sorted later).
A fact is reduced to positive or negative. Tasks are numbered in the order in which
cycles prefer to cut (queries, then symbols and references). The queue is first in
first out in the compiler and last in first out in a test; the model takes any task,
so its runs include both.

*Properties.* `NoLostWakeup`: a waiting task is registered with one unfinished task
that is queued or waiting, and a queued unfinished task waits for nothing.
`CycleToCut`: the assertion "every pending producer must be scheduled".
`OrderIndependent`: the facts at the end are those of a deterministic evaluation in
rounds, written separately (`Expected`): in a round every task that can conclude does and
every input missed is asked for; a round that finds neither cuts every cycle. `EverythingResolved`: the pass ends with each
task it was asked for decided.

## EvidenceQueue: who implements what

A goal is a subject and a bound; the type pass decides whether there is evidence for it.
A goal becomes a node the first time it is asked for, by the bounds of the source
(`prove_bounds`), by a generic instance (`materialize_instances`) or by the
requirements of an implementation chosen for another node. Nodes are closed in batches
and a closed node is never looked at again.

*State.* `nodes`, `state` and `deps` are the three fields of `mir.evidence`; `cursor`
is `evidence_cursor`; `start`, `waiting` and `ready` are the locals of
`solve_pending_evidence`, `todo` what is left of its loop over requirements; `program`
says what the declarations make of each goal. *Actions.* `RequestBound` and
`ProveBounds` make the first batch, `RequestInstance` each later one. A batch is
`ScanDecided` (the node is decided without requirements) or `ScanImplementation` with
`Require` and `RequireOpen` for each requirement, until every node is scanned; `Count`
computes `waiting`, `Propagate` takes a node from the queue, `Close` rejects the rest.
`Exhaust` is the expansion limit, after which nothing is solved any more.

*Abstractions.* Matching of types is data: a goal has a verdict of `direct_evidence`
and a set of matching implementations with their rank, whether they are concrete, and the
goals they require; a requirement on a parameter the match left open is `Free`. The
queue is a set. How the compiler walks instances is left out: it may ask for any goal
at any time, which is more than it does.

*Properties.* `Grounded` is "cycles cannot establish their own proof": among any set of
nodes proved by implementations one depends on none of the set. `Complete`: a rejected
node with a chosen implementation has an unproven requirement. `ExactlyDerived`: the
proven nodes are those of the least fixed point of the chosen implementations, so that a
verdict does not depend on the order of the questions nor on the batches they fell into.
`ClosedStays`, `BatchCloses`.

## LspServer: the language server

One thread runs the transport, the requests and the rebuild tasks, so an action is what
runs between two awaits. Notifications are handled whole. A rebuild yields when it is
first polled, copies the documents, yields again for each, and publishes after a last
check of the clock; a request yields once between taking the snapshot and answering.

*State.* `lifecycle`, `root` (what the workspace was made for), `documents` and
`pending` are the fields of `State` in `lsp.rs`; `clock`, `overlays` and `published`
those of the workspace; `tasks` has the rebuild that each revision scheduled and
`requests` the semantic requests by token. `held`, `refused` and `shown` are the
client: the document it had accepted last, the opens that failed (it is not told, an
open is a notification), the diagnostics it has. A text is named by the revision that
wrote it.

*Actions.* `Initialize`, `Initialized`, `Shutdown`, `Exit`; `DidOpen`, `OpenRefused`,
`DidChange`, `DidClose`, `Panic`; `StartTask`, `CopyDocuments`, `StaleTask`, `FailTask`,
`PublishTask` for a rebuild; `Receive`, `Cancel`, `Answer` for a request. `Revise` is
what the three document handlers share, down to the scheduled task.

*Abstractions.* The yields of a rebuild between the copy and the publication are one:
each of them only compares the clock, and a task that passes the last passed the others.
`solve_documents` is a function of the texts, or fails (`FailTask`). Positions, encodings
and the answers of queries are pure and left out. Both files of the instance are in the
module graph, so a snapshot has a text for each.

*Assumptions.* `Careful`: the client does not reuse the id of a request it has
cancelled before the answer came, as JSON-RPC asks. `NoAliases` (in the instance and in
one theorem): the paths of open documents name different files.

*Properties.* `PublishedWhole`: the snapshot labelled with the current revision holds
exactly the overlays, although they are copied after an await. `AnswersCurrent`: a
result is computed from the texts of the moment it is given, while the server runs, for
a request nobody cancelled. `TokensOwned`: whoever completes takes its own token.
`DiagnosticsPaired`: what is shown for a document is about the text and version the
client holds. `DiagnosticsSettle`: when edits end, each open document gets the
diagnostics of its last text.

## Runner and GuestService: serving requests

`Runner::initialize` feeds the sources to a fresh guest, has it create its service,
exports a snapshot, imports it in a second instance and keeps it as the baseline; an
artifact compiled with its sources carries the snapshot and skips all that. `request`
starts with `reset`: in place after a request that ended well, in a new instance
restored from the baseline otherwise.

*State.* `ready`, `poisoned`, `image` (`artifact_snapshot`) and `baseline` are fields
of `Runner`; `guest` is its instance: the phase of the service, its source slots, what
the handler was built from, the Wasm globals, what completed requests left in scratch
frames and feedback tables (`residue`), the host's buffers in it, and whether a call
trapped halfway (`torn`). `pc` and the variables of `call` are the local state of the call in progress,
`outcome` and `reply` what the host's caller got, `misused` whether an assertion of an
export failed.

*Actions.* `Initialize`, then `ImportImage`, or `FetchNames`, `InjectSource` for each
source, `CreateService`, `Compact`; `Request`, then `ResetInPlace` or `Reinstantiate`,
`Transfer`, `RunService`, `Respond`. Every call of an export may trap:
`InitializeTraps`, `NameMismatch`, `ResetFails`, `RequestFails`. A trap (the fuel
or the memory ran out, or an assertion failed) leaves the guest as it was or torn.

*Abstractions.* A source's data is named by the slot it belongs to, so `Complete` is
the handler built from each source in its own slot. The language values and their heap
are reduced to `handler` and `residue` here and modelled in `GuestMachine`. Fuel and the memory limit are a trap that may come
in any call.

*Properties.* `NeverMisused`: the host calls no export whose assertion does not hold;
a guest is trusted to assert, so a failure there would be a bug of the host.
`ImplementsService`: with `ServiceContract`, every answer comes from the pristine
service state, whatever the requests before it did or wherever they trapped.

## GuestMachine and Serving: the code that runs

Generated code and runtime share a heap that a mark and sweep collector cleans. The
collector runs at safepoints, which are the entry of a function and the loops of the
runtime, and it marks from what has been published by then: a slot of a root frame per
parameter and per local, the values of `Ready` globals and the failures of `Failed` ones,
the service's values and the table of diagnostics. It does not see Wasm locals. A slot has
one of two roles: *storage* keeps an allocation but not what it contains (its contents are
in slots of their own while it is being filled), a *value* keeps all it leads to.

*State.* `heap` maps an allocation to the allocations it refers to (the page masks and
the bytes); `frames` is `ROOTS` with `FRAMES`, `scratch` the depth of `Scratch`, in whose
words plain values live; `calls` is the Wasm stack, with the locals of each call;
`demand` the entries of the globals; `feedback` the diagnostics, `error` `ERROR_GLOBAL`,
and `failing` a call that has just returned 0; `service`, `job` and `result` what an
export works with; `stored` the image the host keeps.

*Actions.* Expressions: `Make`, `MakePlain`, `Load`, `Release` (`leave_expression`),
`Discard`. Calls: `Call` (also with a capture), `TailCall`, `Return`. Globals:
`UseReady`, `UseFailed`, `UseRunning`, `Evaluate`, `Finish`. Failures: `Warn`, `Fail`,
`Unwind`. Exports: `BeginPrepare`, `InitializeGlobal`, `EndPrepare`, `FailPrepare`,
`StoreSource`, `BeginCreate`, `EndCreate`, `FailCreate`, `BeginRun`, `EndRun`, `Reset`,
`Export`, `Import`, `Trap`.

*Abstractions.* A program is any sequence of steps that typed code can take, so one
instance stands for all programs within its bounds. An allocation has references and no
bytes; a function value and its environment are one allocation. A plain global is copied
where it is used, as `MakePlain`. Native functions, pins of the host and registries of
types are left out, as are addresses: an allocation that was swept may be reused at
once. What is left of an instance that trapped is never looked at, so `Trap` is a
fresh one.

*Composition.* `Serving` has the variables of both. `BeginCreate` and its like start an
export while the runner is at the call, `MachineStep` runs code, and `EndPrepare`,
`EndInject`, `EndCreate` and `EndRun` are the runner's steps together with what the
machine reached: the service becomes `Ready` exactly if the initializer returned. A trap
may come between any two steps.

*Properties.* `NoDangling`: nothing the program, the runtime or the host can follow leads
to a swept allocation or to scratch words that were left. `StackKept`: published frames,
scratch frames and calls agree however a call ended, and a global is evaluated by one call
at most. `StartsClean`: a request begins with no frame, error or row of another, the
globals of the image, and a heap in which all the handler and globals refer to is as
published. In a replaced instance the rows are those of the initialization, which the image
carries, until the next `reset` in place.

One thing the model makes visible: a request for a global that is being evaluated leaves
by the epilogue of the evaluation (`emit.rs:1095`) and stores `Failed` in its entry. If a
capture takes that failure, the evaluation continues and its end stores `Ready` over it, so
whether a use in between fails depends on when it comes.

## Runs and bounds

| run | instance | shows |
|---|---|---|
| `store` | 2 processes, 2 inodes, 1 path, 2 plans that share 1 download, 3 calls, 2 edits, 1 kill | the safety properties and `ImplementsIntent` |
| `store_links` | the same with 2 paths and 1 plan | link counts: a plan file with two names |
| `store_live` | 2 calls, 1 edit, 1 kill, fairness | `CallsReturn` |
| `create` | plans of two items, `<<d1, d2>>` and `<<d1, d1>>` | orders of downloads, executions and statuses |
| `create_faults` | plans of no and one item, large, an archive, one fault, a status of another holder of the plan's lock, on the plan or the archive (`MaxSeen`, `MaxTried` 1) | failures, panics, and that the call returns |
| `schedule` | 3 tasks, 2 symbols and 1 reference seeded, trees that read at most 2 facts, any duplicates | all five properties over 24 389 programs |
| `evidence` | 3 goals, 4 050 programs (any rule for one, one implementation for another, a decision or one requirement for the third) | grounding, completeness, the least fixed point, closed nodes |
| `lsp` | 2 documents, 3 revisions, 2 versions, 2 requests, 2 ids, 1 failing rebuild, an open that may fail, a root that is a file or a directory | rebuilds, requests, cancellations and edits in any order |
| `serving` | 1 source, 3 lists of inputs, with and without an image, 2 requests, 5 allocations, 2 globals, a trap anywhere, a collection at every safepoint | the contract of a service, and the heap, frames and globals behind it |
| `store_reinstall`, `store_torn`, `store_rebind` | the store with one or two plans | the disagreements below |

Why these are enough to be interesting. Every lock of the store is between two calls,
so two processes exercise each of them, and the third call is the gc or the reinstall
that meets what the first two left; with two calls `KeptInstalled` and `GcExact` are
never tried on a store another call has changed. Two inodes and one path give
replacement and reuse of a number that is still in the database; two paths give link
counts above two. One shared download is what makes two plans meet in `dl/`. One kill
per run is enough to leave any single call's remains, and the calls after it meet them. Two
edits let a plan file change before and after a snapshot. Symmetry over processes and
inodes is sound: no definition chooses among them, and it is not used in the run with
a liveness property. For `ImosCreate` the interesting case is a second item ready
before the first, and one download that serves two items. For `ResolveSchedule` three
tasks give a cycle with a tail, two tasks that wait for one, self-reference, and a cycle met from a
reference after duplicates were marked; two reads give either, both, exactly one and
selection. For `EvidenceQueue` three goals give a cycle of two with a goal outside it, a
requirement closed in an earlier batch, one asked for twice by one implementation, and
each way of choosing between two implementations. For `LspServer` three revisions let
two rebuilds be under way while a third edit makes both stale, and a close and reopen of
a document between a copy and a publication; two requests give an id that is used again
after its answer. In `serving` the initialization
may have three calls in progress, the outermost with two locals: the evaluation of a global that
calls, perhaps with a capture, a function that evaluates the other global or meets the
cycle; a handler may call a function; and three allocations at once force collected ones to be
reused. Every safepoint collects (`telora_gc_interval` 1), which finds a missing root at
the first chance; `Eager` FALSE allows not to. Two requests are one that traps or not and one
that is restored or reset in place; one source is enough as the sources are the subject of
`RunnerProofs`, which hold for any. Every property fails when the definition named in `PROJECT.json`'s
`mutants` is changed as described there.

*Deadlock* is checked in the runs of the first three modules: their final states
stutter explicitly (`Quiet`, `Resolved`). In `lsp`, `serving` and `evidence` it is not:
a server that has exited, a service whose initialization failed or whose requests are
used up or whose code has no memory left, and a solver that has met the expansion limit really stop.

*Fairness.* `ImosStore`: weak fairness of each process' own steps, since a live
process keeps running and polls its locks. It is weak because the polls have no queue:
a gc that waits for the exclusive lock is only sure to get it if shared holders stop
coming, which in the model they do after `MaxCalls`. Kills, failures and users are not
fair. `ImosCreate`: weak fairness of the whole call, which the runtime polls, under
the assumption that transfers end and locks held elsewhere are given up, as the code
sets no timeout. `ResolveSchedule`: the pass is one loop of one thread, and so is a batch of
`EvidenceQueue`. `LspServer`: weak fairness of each rebuild task, since a task only
yields to wake itself and the local set polls tasks that were woken; requests, edits and the
client are not fair. `Serving` states no liveness: a program need not end before its fuel does.

## Where the code and its words disagree

*Presence keeps an installation* (`store_reinstall`). `rfc/0262` says that a plan
file's presence expresses that the workspace needs the installation. `install` renames
a new inode over the registered plan file before it takes the gc lock. Until the new
one is registered no inode both keeps the plan and has two links; a gc that runs then
removes the row and the installation, and if the reinstall fails nothing restores it.

*Immutable installations* (`store_torn`). A gc killed while it deletes an installation
in place may leave the key file and part of the root. `valid_object` looks at those
two only, so the next create reports the remains as cached and registers them.

*An inode is bound once* (`store_rebind`). `register_create` refuses an inode bound to
another plan, but reads the row and writes it in two transactions with only the shared
gc lock held. Two creates of a file edited in between both pass, and the second
rebinds the inode: the first has returned Ok and loses its installation at the next gc.

Three more are stated in the modules, and TLC refutes them, but no run keeps them:

*A notification does not end the server* (`NeverPanics`, `LspServer`). `notify` reports the
errors of a notification and continues (`lsp.rs:129-139`). A server whose root is a
directory has no workspace until a document opens; if that open fails, the client, which is not told,
sends `didChange` or `didClose` and meets `expect("running server has workspace")`.
TLC needs five states.

*Active ids are distinct* (`ActiveIdsDistinct`). `rfc/0046` has a request with an id in
use refused. `$/cancelRequest` takes the id out of `pending` at once, so a second
request with the id of a cancelled one that is still running is accepted, and the end of
the first removes the second's token. Only a client that is not `Careful` gets there.

*Failure never publishes a usable service* (`FailurePublishesNothing`, `Runner`; the
comment at `telora-run/src/lib.rs:156`). `initialize` sets `ready` before its last
`reset`. If that fails (no second instance fits in memory) it returns an error and the
runner serves requests all the same, correctly, since each begins with a reset.

## Proofs

`ImosStoreProofs` proves, for every set of processes, inodes, paths, plans and
downloads and every bound (inodes and paths finite, `Nil` outside the others, `Items` a set of downloads per plan):

- `RowsAlwaysBacked`: `Spec => []RowsBacked`;
- `Implementation`: `Spec => ImplementsIntent`, the refinement of `ImosIntent`;
- `TornAlwaysUntilGc`: `Spec => TornUntilGc`;
- `Invariant`: the inductive invariant `IInv` behind them.

`RowsBacked` is not inductive: whether `AddRequest` may bind a plan depends on what the
create found several steps before, and whether a sweep may delete an object depends on
the keys read before the sweep. `IInv` has three parts. `TypeInv` adds to `TypeOK` that
plan files spell plans and that a call past its snapshot has a path, an inode and a
key. `GcLockInv` says that the gc lock excludes, and that whoever works under it holds
it: it is what makes a create's registration and a gc's sweep impossible together, and
it is proved first, without the rest. `BackInv` goes down from rows: a row's plan is
installed (`RowsInstalled`) and its downloads are related to it (`RowsRelated`); an
installation has its downloads (`InstallsFetched`), which holds because gc deletes
installations before downloads; a create past its check finds what it found or
published still there (`CreatesBacked`); and what a sweep spares covers all that the
database references, since no row changes while a gc holds the lock (`SweepsSpare`).
Each lemma takes one group of actions. The refinement follows: a step of `AddRequest` is
`Bind` because `CreatesBacked` gives the installation, one of `GcSweepInstall` is
`Collect` because `SweepsSpare` says no row has the plan, and all others stutter or
unbind. `TornUntilGc` uses the parts the other way round: the only step that takes an object of `dl/`
away is a gc's sweep, a download is published only over nothing, and a create that comes to
register has every download of its plan whole or finds an installation, whose
downloads are whole too (`InstallsFetched`).

It goes on, under the assumption that no plan is also a download
(`KeysAssumption`: the code keeps them in two directories; here they share `tmp`):

- `StagingAlwaysSafe`: `Spec => []StagingSafe`;
- `GcAlwaysExact`: `Spec => []GcExact`;
- `PromisesKept`: `Spec => []KeptInstalled`.

Each strengthens `IInv` by one part. `StagingInv`: a build works under its installation's
lock and a transfer under its download's, an object not yet published is absent, and what
is staged is in `tmp`; a sweep of `tmp` needs the exclusive gc lock, which `GcLockInv`
denies while a build holds the shared one. `GcInv`: how far rows, links and objects agree at
each step of a gc. A gc knows every row from its first read on, since rows change under the
shared lock only; a row it has passed has its link, a link it has passed has its row, and so
on to the objects, so that at the end of the sweep nothing is left that nothing references,
whatever an earlier kill left. The awkward step is `GcUnlink`, between the look at an entry
and its deletion. `KeepInv`: an inode promised is registered and upstream; a remove that has
read the inode has withdrawn the promise; and a create that overlaps it knows (`raced`), so
that it makes no promise the remove then breaks.

`ImosCreateProofs` proves, for every plan, any number of faults and any number of statuses seen:

- `CallInvariant`, `CallTypeOK`: `Spec => []TypeOK`;
- `CallImplementsBuild`: `Spec => ImplementsBuild`, the refinement of `ImosBuild`;
- `CallReports`: `Spec => []Reported`;
- `CallNoLateProgress`: `Spec => NoLateProgress`.

What a call may do next is nowhere in one variable: it is spread over the running tasks,
the answers they have still to send, the messages in the channel and the reducer's notes.
The invariant treats a running effect and its answer in the channel as one token. `LoneInv`:
there is one token of each kind that must be alone (a setup or finish effect, a
download, an item). `SetupInv`, `StageInv`, `DownloadInv`, `ItemInv`, `FinishInv`,
`PhaseInv`: the phases of a call follow each other, a token exists only in its own, and
the reducer's notes (which downloads are there, which item is next, whether
staging is prepared) are true of `world`, or will be when the token's message is read. A step of
a task changes the world and leaves a message that says so; the arm of the reducer that
reads it brings the notes up to date and starts what comes next. The refinement reads it
off: an item executes after its download and its predecessor because the notes that
started it were true.

`CallReports` adds a second invariant, `Tells`, beside the first. A target is busy exactly while
one emission of it runs or has an answer in the channel, and only a busy target has a queue
(`TokenInv`); so when nothing runs, every queue is empty. What the caller has seen is
the reducer's status but for the emission under way (`HeardInv`): this one needs that nothing
failed to be written. An event that continues an attempt comes after one that opened it
(`OpenedInv`), or the reducer would drop it and the end of the attempt with it. That the plan is
reported ended needs the install lock: whoever did not wait for it has heard nothing of the plan
before (`FreshInv`), nobody but the reducer speaks of the plan once it is held (`PlanTalk`), so its
first status is the reducer's, and the last in its queue is an end from the moment the
call is closing (`PlanInv`). One call of `pump_progress` breaks these for the target it is about
until it returns; `Voiced` says what holds on the way through an arm of the reducer, target by target.

`CallNoLateProgress` is read off the same invariant. `pump_progress` drops late progress, so that what
replaces an ended status opens an attempt, and `reduce` numbers it one above the status it replaces if it is of
the same kind. The one status without a number is that of an object found in place, which is
completed (`Numbered`); so what is emitted always differs from an ended status before it (`ReducedAfter`).
While nothing is lost the caller has seen the reducer's status at the time the emission
was started, which is the last conjunct of `HeardInv`. Statuses of other holders need no case of
their own: `TellsStep` takes them with the tasks' own events, as many and in whatever order they come.

`ResolveScheduleProofs` proves, for every finite set of tasks and every set of
programs of decision trees, of any depth:

- `TypeCorrect`: `Spec => []TypeOK`, with at most one input per waiting task, which the
  search for cycles relies on (the rest of a path from a task is determined);
- `WakeupsKept`: `Spec => []NoLostWakeup`;
- `CyclesFound`: `Spec => []CycleToCut`;
- `OrderDoesNotMatter`: `Spec => []OrderIndependent`.

The invariant of the first three is `TypeOK /\ NoLostWakeup` itself. One lemma about `Notify`
serves the three actions that finish tasks: whoever waits for a finished task is woken because it
is registered with it, and whoever is not woken waits for a task that is unfinished
still and stays queued or waiting. A consequence worth knowing: the branch of `drain`
that passes over a queued task that waits is never taken. For `CyclesFound`, a stuck
queue makes the waits an endless path among finitely many tasks; by the pigeonhole
principle it comes back to one of them, and the least task of that round sees itself and
nothing smaller behind it.

`OrderDoesNotMatter` is the theorem with the most to say: the two schedulers of the code
agree on every program. It rests on three facts. *Trees*: with given facts a task stops at one
place of its tree (`OneStop`), and when facts are added a conclusion stays what it was and a
question not yet answered is still the one asked (`StopStays`). *Drains*: call a state of a drain
closed when every task asked for has concluded or waits for one that was asked for. Whatever turns
are taken in whatever order, the state stays within every closed state above the drain's start
whose new facts were all concluded (`TurnsWithin`), so two runs that are both stuck
are in the same state (`OneEnd`). *Rounds*: each round of the reference that cuts nothing is a set
of turns, and each that changes anything asks for more or decides more, so they come to rest
within twice as many as there are tasks (`RoundsStop`; `Expected` takes three times).
The invariant (`OnCourse`) says that the drain is within reach of the state after some round. A turn
keeps it; when `drain` cuts cycles, a later round is in the same state and cuts the same tasks
(`VictimsAre`), so the state after that round is the new start. The invariant also needs `WaitsRight`: a
task waits for the input that today's facts make it ask for, not only for the one they
made it ask for when it registered.

`EvidenceProofs` proves, for every finite or infinite set of goals and all programs:

- `EvidenceTypeCorrect`, `EvidenceCounts`: the counter of a pending node is the number
  of occurrences of unproven requirements, and the queue holds the nodes whose counter is 0;
- `EvidenceGrounded`: `Spec => []Grounded`;
- `EvidenceComplete`: `Spec => []Complete`;
- `EvidenceClosedStays`: `Spec => ClosedStays`;
- `EvidenceDerives`: between batches a node is proven exactly when its goal is derived
  at some depth;
- `EvidenceExact`: `Spec => []ExactlyDerived`, for finitely many goals.

`Order` says where the cursor is in each stage and that what it has not reached is
pending. `Counted` needs it, and is the fact that makes propagation right: a node that
is taken from the queue waits for nobody, itself included, so that the new proof
depends on proven nodes only. `Grounded` is then kept step by step: a set of proved
nodes that holds the new one and more has its independent member among the others,
which do not depend on a node that was pending when they were proved. `Complete`
follows from the counts at `Close`: a pending node that was not queued has a positive
one. `ClosedStays` from the cursor: every step touches the batch alone. `EvidenceDerives` joins the last three: nothing
proven is underived, since the proven nodes that are not would be a set in which each depends
on another (`Grounded`); nothing derived is rejected, by induction on the depth, since a rejected node
lacks a proof that some requirement has (`RefusedFor`). It needs `Founded`, which says why each
node has its state and its requirements: what `Scan` read of the program stays true of it.
`ExactlyDerived` looks at one depth, the number of goals, and the derivation settles by then because
each depth that differs from the last adds a goal; that is where finiteness comes in, and nowhere else.

`LspServerProofs` proves, for all documents, files, ids and bounds:

- `LspTypeCorrect`;
- `LspPublishedWhole`: `Spec => []PublishedWhole`;
- `LspTokensOwned` and `LspAnswersCurrent`, for a `Careful` client;
- `LspDiagnosticsPaired`, for clients with `NoAliases`.

`KInv` (theorem `LspKnows`) is the invariant behind them: whatever a task, the published
snapshot or a waiting request holds is labelled with a revision not after the clock, and if
it is the clock's it is the overlays. An edit advances the clock, so the second part
becomes void for all of them at once; a task that copies the documents has checked the
clock just before. `RInv` adds the registry, and for diagnostics a third invariant says
that `documents`, `held` and the overlays agree on open documents.

`RunnerProofs` proves, for all sources, data, inputs and requests:

- `RunnerTypeCorrect`, `RunnerNeverMisuses`: `Spec => []NeverMisused`;
- `RunnerImplements`: `Spec => ImplementsService`, the refinement of `ServiceContract`.

The invariant says where in the sequence of calls the guest is (`Untouched`,
`Injected`), that a published service has a complete baseline, that a guest that is
not poisoned is `Whole` between requests, and that it is `Pristine` from the reset to
the call: that is the fact the refinement needs.

`ServingProofs` proves, for every heap size, number of globals and bound on the calls:

- `ServingStackKept`: `ServingSpec => []StackKept`;
- `ServingNoDangling`: `ServingSpec => []NoDangling`;
- `ServingStartsClean`: `ServingSpec => []StartsClean`;
- `ServingShape`, `ServingSound` and `ServingServed`: the invariants `Shape`, `Sound` and
  `Served` behind them;
- `ServingRunner`: `ServingSpec => Spec`, the runner of the composition is the `Runner` that
  `RunnerProofs` is about, so its invariant and its theorems hold here too.

`Shape` is stated on the stack as a whole, so that a step need look at its top only:
`Shaped(calls, frames)` says of each call and its frame that they fit on top of what is
below them (`Atop`), and `ShapedPush` and `ShapedPop` put one on and take it off. `Atop` has
what a return relies on long after the call was made: a function's words are those of its
level and its output lies in the levels below or is an allocation, which the caller still
has as its last local, published as storage (`Linked`); a global is evaluated once; and the
rows a capture began with are at least those of the captures below, so that `Settle` cuts
the table where each of them still finds its own. The last two are why the invariant cannot
be read off the running call alone. The runner enters only by `ServingStep`: its steps are
steps of the machine or leave it alone.

`NoDangling` says that what can be named is there; that is not inductive, for a safepoint
sweeps what no published slot keeps and does not look at locals. `Sound` says why it need
not. Its parts, for any stack, not only the present one:

- `Heaps`: no allocation refers to one that is not there.
- `Secure`: each call and its frame hold up on top of what is below them (`Upon`).
  `Safe` is the discipline of the generated code: the environment and the argument are
  among what the parameters reach, and local number `n` among what the parameters and the
  first `n` slots reach (`Held`), so a local that is loaded and not published is kept by
  the value it was loaded from, and stays kept when the temporaries above it are released;
  a storage slot, which keeps an allocation but not its contents, has its contents kept by
  the slots before it. Scratch words are those of the call's level or below.
  `Apart` is why a return may write the contents of an allocation that others can see:
  until then it is empty and only the call and its caller's last slot have it, so nobody's
  reach depends on it.
- `Rooted`: what the globals, the rows and the service hold is in the heap.
- `Errors`: the pending error is a row of the table or what a failed global that is not
  being evaluated holds, and so is the error each capture began with, among the rows it
  began with: the error itself is not traced, and `Settle` cuts the table and brings
  an old error back.
- `Results`, `Calm`: when an export has a result to take, and that a failure is over when
  it returns. `Pictured(stored)`: the image the host keeps is itself closed and rooted.

What has to be shown of a safepoint is one lemma, `SweptMemory`: what was reached before
the sweep is reached after it, and with the same contents. The steps are shown one by
one, as for `Shape`, and `SoundAlive` reads `NoDangling` off `Sound` and `Shape`.

`StartsClean` needs both halves, and the runner's invariant besides. `Served` says that
while the runner holds the service to be ready and the instance not to be poisoned, the
instance is `AsBuilt`: the globals and the handler are those of the image, what they lead
to in the image is in the heap with the same contents, and none of it is the place a call
in progress is to write (`Places`). The last conjunct carries the argument: a call writes
one place only, which was allocated for it when all that was published was in the heap,
and is none of it. The globals stay because all of them were ready
when the service was published (`AllReady`), so no step evaluates one (`StepReady`); the
collector spares what they lead to because the globals and the handler are roots
(`SweptSpares`). A trap poisons the instance, and what replaces it is restored from the
image (`RestoredBuilt`).

`Iteration` holds what the arguments about `Ahead`, `Hops`, `After` and `Derived` share: a set of numbers
has a least one, what holds of zero and of every successor holds of all, and a function
can be applied again and again. The library states induction with an operator as a parameter, which the
provers cannot instantiate, so these are stated with sets and functions; their
proofs start from the well-foundedness of finite sets under inclusion.

## Only model-checked

Liveness (`CallsReturn`, `CallReturns`, `EverythingResolved`, `BatchCloses`,
`DiagnosticsSettle`) and the fairness it rests on are out of the prover's reach. Every
invariant, action property and refinement that a passing run checks is also proved. The three
disagreements below the runs are counterexamples and have nothing to prove.

## Not modelled

Plan validation, hashing and parsing (pure data); the Windows implementation of `fsx`
(the model follows the Unix one); syntax, HIR, the rest of the type pass, sealing,
layouts, and of code generation all but the protocol of frames, roots, calls and globals
(structural translations without a small state space); command lines and transport.

The module graph (`module_resolve.rs`) is one work list over declarations that are fixed
when it starts; its order matters only for the children of `std` (a hazard in
`PROJECT.json`). Of the guest the native functions (`rt/text.rs`, `rt/sort.rs` and the like) are
left out: what can go wrong there is one function that keeps an address across an
allocation, and a model says nothing about which. Layout of values and pages, the
registries of types and the host's pins are data of the same kind.

## Plan

1. Done: `ImosStore` with `ImosIntent`, `ImosCreate` with `ImosBuild`,
   `ResolveSchedule`, `EvidenceQueue`, `LspServer`, `Runner` with `GuestService` and
   `ServiceContract`, `GuestMachine` with `Serving`, and the proofs above.
2. `ModuleGraph`: the set of loaded modules against the closure of demands, whatever the
   order, as the program `ResolveSchedule` starts from.
3. Aliases in `LspServer`: two paths of one file, with the diagnostics each client path
   is shown.
