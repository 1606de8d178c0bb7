# Agent Loom in TLA+

Agent Loom runs AI agents ("native sessions" of a Pi runtime) around a Task: a
directory whose `.agent-loom/` files record what was run, which Artifacts it
produced and which it consumed. Its worth is that those records can be trusted
after anything happened: a failed write, a throwing plugin, a process that died,
a second client at the same time. The modules here model the code that has to
make that so, TLC checks them on small instances, and TLAPS proves the
main results for instances of any size.

Paths below are relative to `src/`; `core` is `packages/container-core/src`, `pi`
is `packages/runtime-pi/src` and `cli` is `packages/cli/src`.

## 1. The system

| Component | State | Operations | What is hard about it |
|---|---|---|---|
| Task writer lock (`core/task-writer.ts`) | the file `writer.lock` | exclusive create, owner line, run the callback, read back, unlink or retain | processes that die with it, failing clean-up, operators who delete it |
| Task store (`core/storage/`) | `task.json`, per Session `session.json` and `events.jsonl`, `artifacts.jsonl`, `consumptions.jsonl` | create, open, startSession, appendEvent, publishArtifact, recordConsumption, settleSession, the readers | each call is several file operations, any of which can fail having done nothing, a part or all of its work; no call holds a lock of its own |
| Session execution (`core/governance.ts`) | the local variables of `executeSession` | revalidate, launch, record, initialize, consume, run, close, settle, and the catch block that closes and settles again | failure between any two awaits; the settlement that failed is retried |
| Agent client (`core/agent.ts`, `agent-receipt.ts`) | flags of one call, the receipt | discover, describe, check, invoke, inspect | a receipt must be true although the call saw only a part of what happened |
| Requests and requirements (`core/invocation.ts`) | none | `requestSchema`, `validateRequest`, `invocationRequirements`, `matchesArtifact` | resolved three times against a registry that grows |
| Inspection (`core/inspection.ts`, `operation.ts`) | none | `inspectTask`, projections | reads many files one after the other, with writers at work |
| Pi host (`pi/application-host.ts`, `session-host.ts`) | the promise chains `writes` and `observations`, the phase of the handle, the first extension error | initialize, run, close; publish, observe, the aspects' after-run; callbacks of native extensions | three threads of control; rejections that nobody awaits |
| Task catalog and CLI (`cli/catalog.ts`, `index.ts`) | locator files of the local index | `task create`, open by name or by root | check-then-act between processes |
| Native start (`pi/host-module.ts`, `session-host.ts`) | per launch: resolved entry files, their owners, the adapters, what was loaded | preflight, validate, launch, load, bind | entry files that move between two resolutions; every throw crosses several catch clauses |
| Diagnostics (`core/failure/`) | trusted marks on errors | classifying, wrapping and sanitising errors | which of several failures the user is told of |
| Application definitions, data schemas (`core/application/`, `data-schema.ts`) | none | validation, selection of a Profile, composition of a Session | checks that only together make a definition usable; recursion over data |
| CLI (`cli/index.ts`, `host-binding.ts`) | the phase of `main`, the selected Host, `native-host.json` | every subcommand, exit code, diagnosis of native activity | processes on one Task root; which Host's code runs |

Interactions: the CLI and Agent clients open a store; `invoke` takes the lock
(exclusive clients only), inspects, resolves the request's requirements, creates a
host and calls `executeSession`, which drives the Pi host's handle and writes the
store; the Pi host writes the same store through its own queue; afterwards
`invoke` inspects the files again and derives the receipt from them. There is no
other synchronisation between processes than the lock and exclusive file creation.

Correctness, per component:

- lock: one call inside at a time; the lock disappears only by its own call, after
  a confirmed outcome, or by an operator.
- execution and store: a completed outcome has its evidence and is final; inputs
  are consumed after acceptance and before the run; only damaged files make a
  history unreadable.
- client: receipts are true, in both directions; uncertainty keeps the lock.
- requests: nothing is bound silently to something else.
- inspection: a snapshot of files read at different moments confirms only facts.
- Pi host: required writes are never lost silently; aspects stay optional.
- native start: a passed preflight is a passed production check; one failure is
  reported, and it is one that happened; Plugins do not share files unseen.
- definitions: what is accepted starts the Session its entry declares, over data that
  satisfies its Schema.
- catalog: names are unique, what opens is complete.
- CLI: only the Host that was chosen runs; exit codes and diagnoses are true.

## 2. Modules

| Module | Models | Lines of the code it stands for |
|---|---|---|
| `TaskWriter` | `withTaskWriter` with any callback | `core/task-writer.ts` |
| `TaskStore` | the governance files, one operator per file operation, the readers' conditions, the facts of a Session | `core/storage/index.ts`, `core/inspection.ts`, `core/agent-receipt.ts` |
| `AgentInvoke` (extends both) | `invoke` and `executeSession`, one action per await, and the mapping to `TaskOwnership` | `core/agent.ts`, `core/governance.ts`, `core/agent-receipt.ts` |
| `TaskOwnership` | the abstract specification: what exclusive clients promise about a Task | (none: a promise) |
| `Inspection` (extends `AgentInvoke`) | a reader that takes one step per file | `core/inspection.ts` |
| `Requirements` | a request, its schema, `check()` and the three resolutions | `core/invocation.ts`, `core/agent.ts`, `core/governance.ts`, `core/artifact/`, `core/storage/` |
| `PiHost` | one launched Pi handle under `executeSession` | `pi/application-host.ts`, `pi/session-host.ts`, `core/governance.ts` |
| `TaskCatalog` | concurrent `task create` commands | `cli/index.ts`, `cli/catalog.ts`, `cli/host-binding.ts`, `core/storage/index.ts` |
| `Diagnostics` | how an error gets its trusted mark, and what each wrapper and reader makes of it | `core/failure/` |
| `NativeStart` (extends `Diagnostics`) | preflight, validation and launch of a plan, up to the cleanup of its native session | `pi/host-module.ts`, `pi/session-host.ts`, `core/governance.ts`, `core/agent.ts`, `core/readiness.ts` |
| `DataSchema` | both validators of `data-schema.ts`, as recursive functions, and a reference definition | `core/data-schema.ts` |
| `Application` (extends `DataSchema`) | `validateApplication` and what becomes of an accepted definition | `core/application/`, `core/agent.ts`, `pi/host-module.ts`, `cli/index.ts` |
| `Cli` | the `loom` commands as processes on one Task root | `cli/index.ts`, `cli/host-binding.ts`, `cli/experience.ts` |
| `AgentInvokeProofs`, `InspectionProofs`, `TaskCatalogProofs`, `RequirementsProofs`, `ApplicationProofs`, `CliProofs`, `PiHostProofs`, `NativeStartProofs` | theorems | |
| `MC...` | constant values; `MCNativeStart` also has a restriction on when files move | |

Definitions keep the names of the source where that is possible; `PROJECT.json`
maps each to its lines. A definition marked `mutant` belongs to no behaviour: it
is a plausible bug of the definition after it.

### How the models read the code

- **A step ends at an await.** Between two awaits JavaScript runs alone, so what
  the code does there is one step. Between processes (clients, commands, readers)
  every file operation is a step of its own, with one exception: the
  registry line of `publishArtifact` and `recordConsumption` and the event that
  follows it are one step with a *pair* of outcomes. Nothing reads between the two
  in a way that any property distinguishes.
- **A write has four outcomes** (`TaskStore!Outcomes`): `ok`; `lost`, nothing
  happened; `torn`, a part was written; `late`, all was written and the call failed
  all the same. All but `ok` reach the caller as an error. A torn line makes the
  log unreadable for good, as the code's readers do. `session.json` is replaced by
  rename and is never torn after its creation.
- **A read** may fail at any time, with the code's consequence.
- **A process may die at any step**, by an action (`AgentInvoke!Crash`,
  `TaskCatalog!Crash`) or by taking no more steps (the reader and the client of
  `Inspection`, the process of `PiHost`). Death is the process's, not the machine's:
  what was written stays (no fsync is modelled).
- **Native code** (adapters, the Pi SDK) is an environment that answers or throws,
  and reports extension errors when it likes.
- **Ids** are `randomUUID()`: model values never used twice.
- **Timestamps** are model values. Two events may have the same one (`Times` has
  one or two members), which is the hard case for matching a terminal event with its
  record.

Left out of every model: error codes and wording beyond the distinctions named
below, shapes of identifiers and fields, paths, hashing.

### TaskWriter and AgentInvoke

`stage`, `lockOwner`, `lockText` and `keep` are the position of each call in
`withTaskWriter`, the file, its content and the `retainOnExit` flag. The callback
is open in `TaskWriter` and is `services.invoke` in `AgentInvoke`, whose
specification is proved to implement `TaskWriter`'s (`CallsRespectLock`).

`AgentInvoke` has one `pc` per client. `Exclusive` is the subset of clients with
`writer_policy: 'exclusive'`; the others start at `prepare`. `reached` holds the
one-way flags of the code (`hostEntered`, `recorded`, `domainStarted`, `closed`,
and being in the catch block), `verdict` the settlement in progress, `native` what
really happened in the host, which no code can see and the properties compare
receipts with. The Session id is drawn at `Begin`: until the launch nobody
can see it. Artifacts are published at `pc = "run"` only, as Pi's `publish` is
called from `run`. The event of a failed settlement also repeats the failure record;
since the record is derived from the same error, its comparison is folded into
type and timestamp. The operator of `OperatedSpec` removes locks of calls that have
ended, dead or not, as `manual/TROUBLESHOOTING.md:121` asks of one.

`Sessions` bounds the number of attempts of a behaviour, `Artifacts` the
publications.

### TaskOwnership

The abstract promise of `manual/AGENT_GUIDE.md`, "Attempts and cooperative Task
ownership": a Task is free, owned or retained; attempts are made only while owned
and while no earlier outcome is uncertain; and it becomes free only when nothing
is. `KeepsPromise` is this specification under the refinement mapping of
`AgentInvoke`, where an outcome is what the files confirm.

### Inspection

`Order` is the order in which `readInspectionRecords` awaits: directories,
`session.json` files (in any order, a `Promise.all`), artifacts, consumptions, logs.
`seen` is the copy of each file; `TaskStore`, instantiated with the copies, gives
the validators. They are applied at the end, while the code applies each as it goes:
that changes only how early a bad snapshot is known. An append is one step, so no
half-written line is seen that later becomes whole. The reader runs once.
`before` is a history variable.

### Requirements

What an Artifact must show besides its identity (type, version, assertion status,
producer) is one member of `Facts`, and a requirement is the set of facts it accepts
with an optional pin and name. A data schema is the set of values it accepts.
Other Sessions `Publish` at any time. `check` lists once and then resolves each
requirement against a fresh reading; `invoke` resolves in `prepare`, again in
`revalidate`, and again in `start`, where the bindings are recorded. I/O failures
are left to `AgentInvoke`. `ProfilesAssumption` is what `validateApplication`
guarantees.

### PiHost

`queue` is the chain `writes`, an operation per element with its lines, its waiters
and whether it was asked for before the flush (`due`); `rejected` is the stickiness
of the chain. `observations` is the chain of the same name, `linking` its link at
work, `reports` what extensions have reported so far. `pc` is the driver. `flushed`, `lost` and `threw` are history variables. Distinctions kept
between errors: `storage` or `native`. `executeSession`'s own records are one
step (`Consume`), its settlement always succeeds (see `AgentInvoke` for the
opposite), an artifact's line and event are one line of the log, and lines are not
torn. An extension error of unknown origin counts as the primary's, as in the code.
`MaxBatch` bounds a batch of publications, `MaxReports` the extension errors. The
queue rejects with a `StorageFailure` only: an error of another kind that a writer's
callback might throw is not distinguished from it.

### TaskCatalog

One command runs once, with any name and root; each step is one file operation.
The legacy-layout check can only fail, like any other failure. `EEXIST` on the
locator is success if it names the same root, as in `register`. A command that dies
inside `create` leaves a half-made root, which stays as it is: `create` refuses every
directory that is there (`HalfMadeStaysAsLeft`).

### Diagnostics and NativeStart

An error is its class and its mark; `failures` is a history of what really went
wrong, with the place, and `ReportIsAFailure` compares the diagnostic with it. A
behaviour is a preflight, an invocation, or the one after the other, over one local
configuration drawn in `Init`: what is wrong with the Host (`condition`), which
bindings and prompt directories exist, and where entry paths lead. Entry files are
removed, restored or relinked at most `MaxMoves` times, between any two steps of an
invocation (`MayMove` says of which, so that the state space stays finite in practice; a
check before the move would only repeat the same steps).
A raw `realpath` failure inside the preflight carries no mark of its own and is
reported as the host contract, as the code does. Extension errors reported between the
check after `run` and the one in `close` are counted as cleanup, which is where the
code meets them. The concurrency inside a running session is `PiHost`'s.

### DataSchema and Application

A Schema is the function of its keywords, a JSON value a record with its kind.
`Depth` is how deep each Schema is, which the code never computes: it says that Schemas
are finite. `MaxNodes` and `MaxDepth` stand for 1024 and 32: the run sets them to 4 and 2, so that
Schemas on both sides of each limit are among its values. `Satisfies` is the
reference, by keyword and path-free; `validateData` returns the diagnostics the code
returns. `Application` is a short life of one definition: it is validated, then
asked for a Session in one of the ways the system has (an entry by an Agent, a
Profile by a command, with data), and a later inspection puts the recorded Session
back under an entry. A Profile with requirements but no primary Plugin is accepted by
`validateApplication` and refused only at `prepareSession`: that is `CanPrepare`.

### Cli

A command goes from `parse` to an exit code. `check`, `invoke`, `executeSession` and
`LocalTaskStore.create` are single steps here, free to end in any way their own modules
allow. `native-host.json` is created exclusively and then filled, as two steps, while
another command opens the same root. `entered` is the history of modules whose code
ran, `settled` what the Session of a command became on disk.

## 3. What is checked

A pass covers every reachable state of the instance. The numbers are distinct states,
and the time on two cores where it exceeds a minute.

| Run | Instance | States | Shows |
|---|---|---|---|
| `exclusive` | 2 exclusive clients, 2 Sessions, 2 Artifacts that match the same requirement, 2 times | 1.5 M | free lock means nothing in doubt, uncertain receipts keep the lock, receipts are true and their denials are too, refinement of `TaskOwnership` |
| `operated` | the same with an operator, 1 Artifact, 1 time | 0.57 M | no host entry over an unconfirmed history even then; the lock is its creator's (`OwnerWhileHolding`), and disappears only by its creator after the read back, or by the operator (`OnlyOwnerReleases`) |
| `mixed` | an exclusive client and one without the lock | 2.3 M | what holds without the lock: consumption evidence, only damage blinds, terminal event first, confirmed outcomes are final |
| `fair` | 2 exclusive clients, the native work of one hangs | 0.41 M | every call returns, but the hung one |
| `inspection` | 1 client without the lock, 2 Sessions, 1 reader | 8.0 M, 2 to 3 min | a snapshot confirms only what is whole and still so; only Sessions created meanwhile disturb it |
| `requirements` | 20 profiles over 4 requirement lists, 54 requests, 3 Artifacts, 2 kinds of facts | 3.0 M | schema and run-time checks agree, no silent rebinding, selections honoured, named inputs last, candidates explain |
| `pi_host` | primary, an aspect with after-run and one without, batches of 2, 2 extension errors | 2.4 M, 2 min | queue drained before the terminal event, a Session settles as it went, complete participants, atomic refusal of batches, storage failures surface once the session is open; the Session is settled and the queue runs dry |
| `pi_host_surfaces` | as `pi_host` | violation | the statement about storage failures without the last restriction (section 5) |
| `catalog` | 3 commands, 2 names, 2 roots | 0.79 M | names are given out once, success opens by name, failure after creation opens by root, what opens is complete, half-made roots are never touched again |
| `native_start` | a domain Plugin alone and with an aspect, 2 binding keys, 2 files and a link, 2 moves | 2.9 M, 1 min | the report is a failure that happened, none that matters is hidden, a passed preflight is a passed production check, Plugins are kept apart |
| `definitions` | 8 Plugin lists, one or two Profiles; 32 Schemas over 97 values | 0.24 M, 1 min | accepted definitions start what they declare; accepted data satisfies its Schema |
| `cli` | 2 commands, all options that decide what runs, 2 Host modules | 0.45 M | only the chosen Host runs; exit codes and diagnoses are true |

The type invariants of `TaskWriter`, `TaskCatalog`, `Requirements`, `PiHost` and `Cli`
are theorems (section 4); only `AgentInvoke`'s is in a run as well.

Why the bounds are enough: two calls are what every race of this code takes, since
the properties relate a call with one other (or with its own past); two Sessions let
an attempt follow, or overlap, one of unknown outcome; two Artifacts that match one
requirement give ambiguity; two timestamps include both the equal and the different
case. Three commands let a third find what two racing ones left; in `Cli` two are
enough, since the creator of the Task is one of them and only it writes the binding. In
`PiHost` a second report arrives while a first is queued. In `NativeStart` two moves
let a file go away and come back, and the link change hands between two resolutions. The
definitions differ from a good one in any two places, which is how many of the checks
of `validateApplication` relate two items. Symmetry is used over model values
that only equality tells apart, in runs without liveness.

`CHECK_DEADLOCK FALSE` wherever ids or commands run out, or a call has no
successor: the system stops there rightly. In `PiHost` the specification cannot
stop early and deadlock is checked up to its final stuttering.

Fairness: `AgentInvoke` assumes weak fairness of `Continue(c)` of each client outside
`Hung`, no more than that Node runs what is ready and native calls settle. Of a client in
`Hung` nothing is assumed: there are no timeouts in the code, so a native call that
never settles leaves its Session running and its lock held, and what `fair` shows is
that the other call still returns. A call's death is a step of its own and no fairness is needed or assumed for
it. `PiHost` assumes weak fairness of its three threads, and nothing of extensions.

## 4. What is proved

All for arbitrary constants that satisfy the modules' assumptions.

- **`AgentInvokeProofs`**: of the lock by itself, type correctness, `OwnerWhileHolding`
  and `OnlyOwnerReleases`. The first is inductive with the types. The second needs
  `CheckedBeforeUnlink`: what the read back established is still so at the unlink, since
  nobody else can write the file of a call inside. Of invocations with an operator at
  work, type correctness (`TypeCorrect`), and `CallsRespectLock`, a refinement: every
  behaviour of `AgentInvoke` is one of `TaskWriter`. Then, for clients that take the
  lock and clients that do not, whatever dies: `TerminalEventFirst`,
  `ConfirmedOutcomesAreFinal`, `ConsumptionEvidence`, `CompletedReceiptIsTrue`,
  `DenialsAreTrue` and `OnlyDamageBlinds`. Their invariant is built in layers, each
  proved on top of those before it: `Flags` (what a call's flags say of the native
  side; no file of a Session the host never saw), `WritesWhileRunning` (a call writes to
  a Session that runs, and the terminal event is in the log before the state is
  published), `Inputs` (records are of declared, accepted inputs, and the loop leaves
  none out), `Progress` (what the files say of how far the native side got),
  `ReceiptsTrue` (a receipt, once given, stays right) and `HistorySound` (bindings are
  what the entry requires, registries repeat nothing). The lock plays no part in them:
  what carries them is that one call writes a Session's files, since its id is fresh, and
  that the shared registries only grow.
- **`AgentInvokeProofs`**, the part about clients that take the lock:
  `HostEntryOverConfirmed` (with the operator),
  `FreeLockMeansConfirmed`, `UncertainKeepsLock`, and `ExclusiveCallsKeepPromise`: when
  all clients take the lock, `AgentInvoke` implements `TaskOwnership`. None of these is
  inductive.
  The invariant adds `StageMatches` (the lock's stage follows from `pc`),
  `OnlyLockersLock`, `RetainedInside` (the flag is set before the host is entered),
  `EnteredBeforeExecution`, `OthersCertain` (while a call is inside, all Sessions but
  its own are confirmed), `LockGuardsDoubt` (doubt exists only while the lock file
  does) and `UncertainRetains`. `Footprint` is the lemma that carries it: a step
  touches only the files and the native side of its own Session. The refinement takes
  the conjunction of these parts with `Flags` and `WritesWhileRunning` and goes through
  the steps by what they are of the promise: those outside the execution change no
  outcome, the launch is the attempt, the replacement of `session.json` its outcome.
- **`InspectionProofs`**: both properties of the run, on the layers of
  `AgentInvokeProofs`, which hold since an inspected behaviour is one of `AgentInvoke`
  (`InspectedIsOperated`). For `ConfirmedInSnapshotIsWhole` the invariant is
  `SnapshotAgrees`: what was read of a settled Session is still in its files, and what was
  read of the registries after it holds all of its lines. It is kept because nobody
  touches a settled Session, nor adds lines of it to a registry (`SettledStays`); read
  before the `session.json`, the registries could miss lines. For
  `OnlyNewSessionsDisturb` it is `Disturbance`: `LogsFresh` (a log is intact only after
  its creation), `Known` (a Session that was whole at readdir stays recorded, and its log
  is not created again), `ReadSoFar` (what was read of each file still fits the files now,
  and the Artifacts hold the inputs of every Session read before them), and, once the
  history was unreadable, its cause, which lasts (`DisturbedStays`).
  `UndisturbedReads` is the argument itself: without damage and new Sessions the snapshot
  passes every validator.
- **`TaskCatalogProofs`**: all six properties of the run. The invariant:
  `SoleBuilder` (one command got past the exclusive mkdir of each root),
  `BuiltInOrder`, `TaskWritten`, `DoneIsLocated`.
- **`RequirementsProofs`**: all six properties of the run. The invariant:
  `Progress`, `ListedIsRegistered` (a listing is a prefix of the registry),
  `ReportIsFounded` (a satisfied input was once the only match, a blocked one with
  candidates has two matches), `Founded(plan)` and `Founded(agreed)` (what a resolution
  chose matched then, and agrees with the report). What carries them is that a
  registry only grows, so matches are never lost and ambiguity never ends.
- **`ApplicationProofs`**: both properties of the run. `StartedAsDeclared`, for any
  definitions, is not inductive; the invariant says what the verdict "accepted" stands
  for, and what of it the Session keeps. `DataMatchesSchema`, for any Schemas and data,
  is nearly inductive (`DataInv`); the work is in what `validateData` computes by
  recursion (`ValidateDataIsCorrect`, `ErrorsNameTheDeclared`). Of a Schema it takes only
  that its parts have a smaller `Depth`, which JSON has because it is finite
  (`SchemasAssumption`). Three steps lead there. The recursion has a solution:
  `RecursionExists` builds it for any step function that looks only at less deep parts
  (`IsLocal`), so that `Errors` is what its equation says (`ErrorsDefined`). One level of
  the code finds no error exactly when one level of the reference holds, keyword by
  keyword (`CleanIsMeant`). So the map of the data without an error solves the
  reference's equation too, and that equation has one solution. The induction on the
  depth (`DepthInduction`) is over a set, by its least counterexample, and needs no
  theorem with an operator for a parameter. The same machinery shows that the visit of
  `validateDataSchema` reaches every part (`AcceptedNames`), so that the names in a path
  are names the pattern admits; this uses of the Schema of an entry that the definition
  was accepted.
- **`CliProofs`**: types, `RunsTheChosenHost` and `ExitIsTrue`, for any number of
  commands. The invariant: `OnItsWay` (where a command can be with its options),
  `Chosen` (a selected module is one it may run), `RootIsTheirs` (one command creates
  the Task, and the binding is nothing, torn, or its Host).
- **`PiHostProofs`**: types and all the safety properties of the run `pi_host`, for any
  aspects, batches and number of reports. The first invariant, from which
  `DrainedBeforeTerminal`, `SettlesAsItWent` and `RejectionSurfacesOnceOpen` follow:
  `QueueOK` and `WaitersOK` (whoever awaits an operation of the queue is waiting; there
  is one waiter of each kind; in `finalize` the driver awaits the last operation that
  is due), `RelayOK` (the same for the reports), `PhaseOK` (where the
  driver can be before the native session and after the flush), `StickyOK` (a lost
  write has rejected the queue and the driver is told), `DrainedOK`, `CausesOK` (every
  failure has its cause and becomes the fault) and `RecordOK`. The steps of the driver
  are first reduced to what they do to the two chains (`QueueMove`, `RelayMove`).
  A second one, `Told`, is about the log and stands on the first: `OwnLinesOK` (a
  line about a participant or an Artifact is in an operation that the driver awaits,
  it is the last of its lines, and the driver goes on only when it is in the log),
  `ScriptOK` (the order in which the driver takes the participants), and `LogOK`:
  `NotEarly` and `OnceEach` (no line before its participant's turn, none twice),
  `StartedFirst`, `TurnsLeft` (a turn that is over left its outcome) and `RefusalsOK`.
  From it follow `RefusedBatchesLeaveNothing` and `CompletedParticipants`. A failed
  append may have written its line, and the invariant allows for that.
- **`NativeStartProofs`**: all four properties of the run, for any Profiles, binding
  keys, local configuration and entry files, and any number of moves of those files. Of
  the Profiles it takes what `validateApplication` guarantees: there is one, none is
  empty, and none names a Plugin twice (`ProfilesAssumption`). The invariant is built in
  layers. `Control` and `Local` are the types and say which steps each stage has.
  `Places`: the Plugins walked so far have files of their own that are charged to them.
  Files lead to themselves or nowhere, so a later link cannot take one over. `Steady`:
  while no entry moves, an entry is what its registration leads to, so that two Plugins
  of one plan cannot have one binding key, and the adapters made so far stay.
  `KeptApart` follows from these. `Told` is about errors: the error that a Session will
  report, and the one an extension left, each stand for one failure that was met, with
  its phase, Plugin, check and reason; before the handle exists nothing has failed yet;
  and a close without an error so far has met only failures of the cleanup. It rests on
  lemmas about each function of `Diagnostics`: what a first wrapper adds
  (`WrapAnnotates`), that a later one adds nothing (`WrapKeeps`, `TaggedStays`), and that
  the error which claims a diagnostic of its own is not believed (`ForgedSays`).
  `ReportIsAFailure` and `NothingHidden` follow. `Preflight` says what a check that has
  come so far knows: the Host is in order, all Plugins are registered, and the entries of
  each Profile walked so far resolve to files of their own. After it passed, no
  invocation can fail a check while the files stay (`WalkPasses`), and every other
  failure has no check: `PreflightIsProductionCheck`.

`HostEntryOverConfirmed` and `FreeLockMeansConfirmed` say `Exclusive = Clients`
themselves: a client outside the lock can do anything to an exclusive one's
certainty, as the guide says. `UncertainKeepsLock` holds beside such clients too.

Every safety property that a passing run checks is proved. Only model-checked: both
liveness properties, `EveryCallReturns` and `HostSettles` (liveness under fairness is
outside what the prover handles).

## 5. Finding

`pi/application-host.ts:69` says of the write queue: "A storage rejection remains
sticky and is surfaced before terminal settlement." It surfaces in `finalize`,
which `close` calls, and `close` returns before that when there is no native session
(`pi/session-host.ts:149`). When an adapter's `initialize` throws and the write of
the event `initialization-rejected` fails too, that rejection is swallowed
(`application-host.ts:97`, to keep the native failure), and the Session settles as
failed with the native failure only. `pi_host_surfaces` has the trace;
`RejectionSurfacesOnceOpen` says that it holds once the session exists. No
Session completes over a lost write in either case (`SettlesAsItWent`).

## 6. Not modelled

- The shapes of identifiers, versions, contracts and records (`record-validation.ts`),
  regular expressions, wording of diagnostics: membership in a set where a check
  depends on it, nothing elsewhere.
- `discover`, `describe`, `operationSummary`, the explanations and summaries of
  `cli/experience.ts`, rendering: projections of their input without state.
- Artifact file input (`pi/inputs.ts`): reads and hashes one file.
- The text of options of the CLI: `Cli` starts from options that parsed or not.
- Adapters, examples, packaging and scripts: bindings and tooling around the packages.
- Loss of data that the operating system had accepted, and hostile processes:
  `manual/AGENT_GUIDE.md` excludes the latter.

## 7. What could follow

`AgentInvoke` takes the native side as an environment and `PiHost` takes `executeSession`
as its caller. That the two agree (that what `PiHost` does is what `AgentInvoke` allows of
a native side) is stated by no theorem.
