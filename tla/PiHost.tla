------------------------------- MODULE PiHost -------------------------------
(***************************************************************************)
(* The Pi host of one launched Session: the lifecycle of its native handle *)
(* (runtime-pi, session-host.ts) around the domain run, the aspects and    *)
(* the governance writes of application-host.ts, driven by executeSession  *)
(* (container-core, governance.ts) from initialize to the settlement.      *)
(*                                                                         *)
(* Three threads of control meet.  The driver is executeSession with the   *)
(* handle methods it awaits.  The writer is the promise chain 'writes',    *)
(* one operation at a time.  The chain 'observations' relays the reports   *)
(* of native extensions, which arrive whenever they like.                  *)
(***************************************************************************)
EXTENDS Naturals, Sequences, FiniteSets

CONSTANTS
    Primary,        \* the plan's primary Plugin
    Aspects,        \* aspect_plugin_ids, in order
    Phased,         \* the aspects whose adapter has an afterRun
    MaxBatch,       \* bound: publications run or afterRun returns
    MaxReports      \* bound: reports of native extensions

AspectSet == {Aspects[i] : i \in DOMAIN Aspects}
Plugins == {Primary} \cup AspectSet

ASSUME PrimaryAssumption == Primary \notin AspectSet
ASSUME AspectsAssumption ==
    /\ Aspects \in Seq(AspectSet)
    /\ \A i, j \in DOMAIN Aspects : Aspects[i] = Aspects[j] => i = j
ASSUME PhasedAssumption == Phased \subseteq AspectSet
ASSUME BoundsAssumption == MaxBatch \in Nat /\ MaxReports \in Nat

VARIABLES
    \* the driver
    pc,
    answer,         \* of the promise the driver awaits
    sdkSession,     \* the native session object exists
    extensionError, \* the first error of a non-aspect extension, by when it came
    fault,          \* the error executeSession is going to record
    caught,         \* executeSession is in its catch block
    aspect,         \* 0 in the domain phase, then the loop's index
    batch,          \* the publications still to register
    class,          \* failureClass
    closeFailure,   \* the failure close has collected
    \* the governance writer
    queue, rejected, reading,
    \* the relay of native reports
    observations, linking, reports,
    \* the Session's record
    log, status,
    \* history, for the properties
    flushed,        \* close has awaited the queue
    lost,           \* a write asked for before that was rejected
    threw           \* the domain's own native work or record failed

driverVars == <<pc, answer, sdkSession, fault, caught, aspect, batch, class,
                closeFailure>>
writerVars == <<queue, rejected, reading, lost>>
relayVars == <<observations, linking, reports, extensionError>>
recordVars == <<log, status>>
vars == <<driverVars, writerVars, relayVars, recordVars, flushed, threw>>

Line(type, plugin, detail) == [type |-> type, plugin |-> plugin, detail |-> detail]

(* The lines one call of the application host's observe writes, in order.    *)
Observation(event, plugin) ==
    <<Line("runtime.pi", plugin, event)>> \o
    CASE event = "domain-completed"   -> <<Line("participant", plugin, "completed")>>
      [] event = "execution-rejected" -> <<Line("participant", plugin, "failed")>>
      [] event = "aspect-started"     -> <<Line("participant", plugin, "started")>>
      [] event = "aspect-completed"   -> <<Line("participant", plugin, "completed")>>
      [] event = "aspect-error"       -> <<Line("observer.failed", plugin, "native-hook")>>
      [] OTHER -> <<>>

AspectFailure(plugin, failureClass) ==
    <<Line("observer.failed", plugin, failureClass)>>

(* An artifacts.jsonl line with its artifact.published event.                *)
Registration(plugin) == <<Line("artifact", plugin, "published")>>

DriverSteps == {"initialize", "init-rejected", "load", "bind", "bound", "started",
    "consume", "domain", "publish", "register", "registering", "domain-completed",
    "rejected", "aspects", "aspect-started", "after-run", "aspect-threw",
    "aspect-failed", "aspect-completed", "drain", "close", "catch", "shutdown",
    "flush", "finalize", "settle", "settling", "ended"}

\* After the one check of extensionError that close makes.
AfterShutdownCheck == {"flush", "finalize", "settle", "settling", "ended"}

Lines == [type : {"runtime.pi", "runtime.loom.domain-started", "participant",
                  "observer.failed", "artifact", "session.completed", "session.failed"},
          plugin : Plugins,
          detail : {"initialization-rejected", "started", "shutdown", "domain-completed",
                    "execution-rejected", "aspect-started", "aspect-completed",
                    "aspect-error", "extension-error", "completed", "failed", "published",
                    "native-hook", "aspect-execution", "publication-validation",
                    "governance-storage"}]

Operations == [lines : Seq(Lines), waiters : SUBSET {"driver", "link"},
               due : BOOLEAN, doomed : BOOLEAN]

Links == [event : {"started", "shutdown", "aspect-error", "extension-error"},
          plugin : Plugins, awaited : BOOLEAN]

TypeOK ==
    /\ pc \in DriverSteps
    /\ answer \in {"none", "ok", "rejected"}
    /\ sdkSession \in BOOLEAN
    /\ extensionError \in {"none", "early", "late"}
    /\ fault \in {"none", "native", "storage"}
    /\ caught \in BOOLEAN
    /\ aspect \in 0 .. Len(Aspects) + 1
    /\ batch \in 0 .. MaxBatch
    /\ class \in {"aspect-execution", "publication-validation"}
    /\ closeFailure \in {"none", "native"}
    /\ queue \in Seq(Operations)
    /\ rejected \in BOOLEAN
    /\ reading \in BOOLEAN
    /\ observations \in Seq(Links)
    /\ linking \in BOOLEAN
    /\ reports \in 0 .. MaxReports
    /\ log \in Seq(Lines)
    /\ status \in {"running", "completed", "failed"}
    /\ flushed \in BOOLEAN
    /\ lost \in BOOLEAN
    /\ threw \in BOOLEAN

(* The Session has just been recorded and the handle launched.               *)
Init ==
    /\ pc = "initialize"
    /\ answer = "none"
    /\ sdkSession = FALSE
    /\ extensionError = "none"
    /\ fault = "none"
    /\ caught = FALSE
    /\ aspect = 0
    /\ batch = 0
    /\ class = "aspect-execution"
    /\ closeFailure = "none"
    /\ queue = <<>>
    /\ rejected = FALSE
    /\ reading = FALSE
    /\ observations = <<>>
    /\ linking = FALSE
    /\ reports = 0
    /\ log = <<>>
    /\ status = "running"
    /\ flushed = FALSE
    /\ lost = FALSE
    /\ threw = FALSE

-----------------------------------------------------------------------------
(* The governance writer.  enqueue chains an operation after 'writes'.       *)
Enqueue(lines, waiter) ==
    queue' = Append(queue, [lines |-> lines, waiters |-> {waiter},
                            due |-> ~flushed, doomed |-> FALSE])

ForgetsRejection(result) == FALSE   \* mutant: writes = next.catch(() => {})

(* Once an operation rejected, so does all that is chained after it.         *)
StaysRejected(result) == rejected \/ result = "rejected"

AbandonsLink(op, result) ==     \* mutant: a rejection does not reach the relay
    IF "link" \in op.waiters /\ result = "ok"
       THEN observations' = Tail(observations) /\ linking' = FALSE
       ELSE UNCHANGED <<observations, linking>>

(* The relay awaited the operation, and swallows its rejection.              *)
EndsLink(op, result) ==
    IF "link" \in op.waiters
       THEN observations' = Tail(observations) /\ linking' = FALSE
       ELSE UNCHANGED <<observations, linking>>

(* The first operation of the queue settles.                                 *)
Finish(result) ==
    LET op == Head(queue) IN
    /\ queue' = Tail(queue)
    /\ rejected' = StaysRejected(result)
    /\ lost' = (lost \/ (op.due /\ result = "rejected"))
    /\ reading' = FALSE
    /\ EndsLink(op, result)
    /\ answer' = IF "driver" \in op.waiters THEN result
                 ELSE IF "link" \in op.waiters /\ Head(observations).awaited THEN "ok"
                 ELSE answer

(* A failed publication of an aspect first tries to leave its diagnostic.    *)
Fail ==
    LET line == Head(Head(queue).lines) IN
    IF line.type = "artifact" /\ line.plugin # Primary
       THEN /\ queue' = [queue EXCEPT
                  ![1].lines = AspectFailure(line.plugin, "governance-storage"),
                  ![1].doomed = TRUE]
            /\ reading' = FALSE
            /\ UNCHANGED <<answer, rejected, lost, observations, linking>>
       ELSE Finish("rejected")

NotTheWriter == UNCHANGED <<pc, sdkSession, fault, caught, aspect, batch, class,
                            closeFailure, reports, extensionError, status, flushed, threw>>

Skip ==
    /\ queue # <<>>
    /\ rejected
    /\ Finish("rejected")
    /\ NotTheWriter /\ UNCHANGED log

(* Each line's write first reads the Session, which must still be running.   *)
Read ==
    /\ queue # <<>> /\ ~rejected /\ ~reading
    /\ \/ /\ status = "running"
          /\ reading' = TRUE
          /\ UNCHANGED <<answer, queue, rejected, lost, observations, linking>>
       \/ Fail
    /\ NotTheWriter /\ UNCHANGED log

(* An append that fails may have written its line all the same.              *)
Write ==
    /\ reading
    /\ LET op == Head(queue) IN
       \/ /\ log' = Append(log, Head(op.lines))
          /\ IF Len(op.lines) > 1
                THEN /\ queue' = [queue EXCEPT ![1].lines = Tail(op.lines)]
                     /\ reading' = FALSE
                     /\ UNCHANGED <<answer, rejected, lost, observations, linking>>
                ELSE Finish(IF op.doomed THEN "rejected" ELSE "ok")
       \/ /\ log' \in {log, Append(log, Head(op.lines))}
          /\ Fail
    /\ NotTheWriter

-----------------------------------------------------------------------------
(* The relay of the session host: observe chains a report after              *)
(* 'observations'; when its turn comes it is enqueued and awaited.           *)
Observe(event, plugin, awaited) ==
    observations' = Append(observations,
        [event |-> event, plugin |-> plugin, awaited |-> awaited])

StartLink ==
    /\ observations # <<>> /\ ~linking
    /\ linking' = TRUE
    /\ Enqueue(Observation(Head(observations).event, Head(observations).plugin), "link")
    /\ UNCHANGED <<driverVars, rejected, reading, lost, observations, reports,
                   extensionError, recordVars, flushed, threw>>

BlamesAspects(plugin) == TRUE   \* mutant: isAspect is not asked

IsFatal(plugin) == plugin \notin AspectSet

(* onError, called by a native extension at any time once it is bound.  An   *)
(* error of unknown origin is treated as the primary's.                      *)
ExtensionReports(plugin) ==
    /\ sdkSession
    /\ reports < MaxReports
    /\ reports' = reports + 1
    /\ extensionError' =
          IF extensionError # "none" \/ ~IsFatal(plugin) THEN extensionError
          ELSE IF pc \in AfterShutdownCheck THEN "late" ELSE "early"
    /\ Observe(IF plugin \in AspectSet THEN "aspect-error" ELSE "extension-error",
               plugin, FALSE)
    /\ threw' = (threw \/ plugin \notin AspectSet)
    /\ UNCHANGED <<driverVars, writerVars, linking, recordVars, flushed>>

-----------------------------------------------------------------------------
(* The driver.  A step ends where the code awaits; an awaited promise gives  *)
(* its answer at the next step.                                              *)
Goto(step) == pc' = step

AwaitEnqueued(lines, step) ==
    Enqueue(lines, "driver") /\ answer' = "none" /\ Goto(step)

(* 'await writes' awaits what is in the queue now.                           *)
AwaitWrites(step) ==
    /\ Goto(step)
    /\ IF queue = <<>>
          THEN /\ answer' = IF rejected THEN "rejected" ELSE "ok"
               /\ queue' = queue
          ELSE /\ answer' = "none"
               /\ queue' = [queue EXCEPT ![Len(queue)].waiters = @ \cup {"driver"}]

AwaitObservations(step) ==
    /\ Goto(step)
    /\ IF observations = <<>>
          THEN answer' = "ok" /\ observations' = observations
          ELSE /\ answer' = "none"
               /\ observations' = [observations EXCEPT ![Len(observations)].awaited = TRUE]

Answered(step) == pc = step /\ answer # "none"

\* Everything a driver's step may leave alone, by what it touches.
OnlyDriver == UNCHANGED <<closeFailure, writerVars, relayVars, recordVars, flushed>>
DriverAndQueue == UNCHANGED <<closeFailure, rejected, reading, lost, relayVars,
                              recordVars, flushed>>
DriverAndRelay == UNCHANGED <<writerVars, linking, reports, extensionError,
                              recordVars, flushed>>

Rest == UNCHANGED <<sdkSession, caught, aspect, batch, class>>

Throw(error) == fault' = error /\ Goto("catch")
NativeThrow == Throw("native") /\ threw' = TRUE

(* handle.initialize: the adapter's initialize, the resources, the native    *)
(* session, the extensions, and the 'started' observation.                   *)
Initialize ==
    /\ pc = "initialize"
    /\ \/ /\ Goto("load")
          /\ UNCHANGED <<answer, queue, threw>>
       \/ /\ AwaitEnqueued(Observation("initialization-rejected", Primary), "init-rejected")
          /\ threw' = TRUE
    /\ UNCHANGED fault
    /\ Rest /\ DriverAndQueue

InitializationRejected ==
    /\ Answered("init-rejected")
    /\ Throw("native")
    /\ UNCHANGED <<answer, threw>> /\ Rest /\ OnlyDriver

Load ==
    /\ pc = "load"
    /\ \/ sdkSession' = TRUE /\ Goto("bind") /\ UNCHANGED <<fault, threw>>
       \/ sdkSession' = FALSE /\ NativeThrow
    /\ UNCHANGED <<answer, caught, aspect, batch, class>> /\ OnlyDriver

Bind ==
    /\ pc = "bind"
    /\ \/ AwaitObservations("bound") /\ UNCHANGED <<fault, threw>>
       \/ NativeThrow /\ UNCHANGED <<answer, observations>>
    /\ UNCHANGED closeFailure /\ Rest /\ DriverAndRelay

Bound ==
    /\ Answered("bound")
    /\ IF extensionError # "none"
          THEN Throw("native") /\ UNCHANGED <<answer, observations>>
          ELSE /\ Observe("started", Primary, TRUE)
               /\ answer' = "none"
               /\ Goto("started")
               /\ UNCHANGED fault
    /\ UNCHANGED <<closeFailure, threw>> /\ Rest /\ DriverAndRelay

Started ==
    /\ Answered("started")
    /\ Goto("consume")
    /\ UNCHANGED <<answer, fault, threw>> /\ Rest /\ OnlyDriver

(* executeSession's own records, consumptions and the domain-started event,  *)
(* which do not go through the queue (see AgentInvoke for their steps).      *)
Consume ==
    /\ pc = "consume"
    /\ \/ /\ log' = Append(log, Line("runtime.loom.domain-started", Primary, "started"))
          /\ Goto("domain")
          /\ UNCHANGED <<fault, threw>>
       \/ log' = log /\ Throw("storage") /\ threw' = TRUE
    /\ UNCHANGED <<answer, closeFailure, status, writerVars, relayVars, flushed>>
    /\ Rest

(* options.run: the primary's run ... *)
DomainFails(error) ==
    /\ fault' = error
    /\ AwaitEnqueued(Observation("execution-rejected", Primary), "rejected")

RunDomain ==
    /\ pc = "domain"
    /\ \/ /\ batch' \in 0 .. MaxBatch
          /\ Goto("publish")
          /\ UNCHANGED <<answer, fault, queue, threw>>
       \/ DomainFails("native") /\ batch' = batch /\ threw' = TRUE
    /\ UNCHANGED <<sdkSession, caught, aspect, class>> /\ DriverAndQueue

(* ... and publish, for the primary or an aspect.  The whole batch is        *)
(* validated before any of it is enqueued.                                   *)
Publisher == IF aspect = 0 THEN Primary ELSE Aspects[aspect]

AspectThrows(failureClass) ==
    /\ class' = failureClass
    /\ AwaitWrites("aspect-threw")

PublishThrows(error) ==
    IF aspect = 0
       THEN DomainFails(error) /\ UNCHANGED class
       ELSE AspectThrows("publication-validation") /\ UNCHANGED fault

Validated ==
    /\ pc = "publish"
    /\ Goto("register")
    /\ UNCHANGED <<answer, fault, threw>> /\ Rest /\ OnlyDriver

ValidatesAsItGoes == {"publish", "register"}   \* mutant: one by one

Validating == {"publish"}

(* A publication of the batch is refused, or the Session cannot be read.  An *)
(* empty batch can be refused too: run may have returned no array at all.    *)
Refused ==
    /\ pc \in Validating
    /\ \E error \in {"native", "storage"} : PublishThrows(error)
    /\ threw' = (threw \/ aspect = 0)
    /\ UNCHANGED <<sdkSession, caught, aspect, batch>> /\ DriverAndQueue

MoreToRegister == batch > 0

Register ==
    /\ pc = "register"
    /\ IF MoreToRegister
          THEN /\ AwaitEnqueued(Registration(Publisher), "registering")
               /\ batch' = batch - 1
          ELSE /\ IF aspect = 0
                     THEN AwaitEnqueued(Observation("domain-completed", Primary),
                                        "domain-completed")
                     ELSE AwaitEnqueued(Observation("aspect-completed", Publisher),
                                        "aspect-completed")
               /\ batch' = batch
    /\ UNCHANGED <<fault, class, threw, sdkSession, caught, aspect>> /\ DriverAndQueue

(* The awaited registration rejected: publish throws its error.              *)
Registered ==
    /\ Answered("registering")
    /\ IF answer = "ok"
          THEN Goto("register") /\ UNCHANGED <<answer, fault, class, queue>>
          ELSE PublishThrows("storage")
    /\ UNCHANGED <<threw, sdkSession, caught, aspect, batch>> /\ DriverAndQueue

DomainCompleted ==
    /\ Answered("domain-completed")
    /\ IF answer = "ok"
          THEN Goto("aspects") /\ aspect' = 1 /\ UNCHANGED <<answer, fault, queue>>
          ELSE DomainFails("storage") /\ aspect' = aspect
    /\ UNCHANGED <<threw, sdkSession, caught, batch, class>> /\ DriverAndQueue

(* The rejection of 'execution-rejected' itself is swallowed.                *)
DomainRejected ==
    /\ Answered("rejected")
    /\ Goto("aspects")
    /\ aspect' = 1
    /\ UNCHANGED <<answer, fault, threw, sdkSession, caught, batch, class>>
    /\ OnlyDriver

-----------------------------------------------------------------------------
(* The aspects, after the domain whatever its outcome.                       *)
StartAspect ==
    /\ pc = "aspects"
    /\ aspect \in DOMAIN Aspects
    /\ IF Publisher \in Phased
          THEN /\ AwaitEnqueued(Observation("aspect-started", Publisher), "aspect-started")
               /\ aspect' = aspect
          ELSE /\ aspect' = aspect + 1
               /\ UNCHANGED <<pc, answer, queue>>
    /\ UNCHANGED <<fault, threw, sdkSession, caught, batch, class>> /\ DriverAndQueue

(* Outside the try block: a rejected observation ends the run.               *)
AspectStarted ==
    /\ Answered("aspect-started")
    /\ IF answer = "ok" THEN Goto("after-run") /\ UNCHANGED fault
                        ELSE Throw("storage")
    /\ UNCHANGED <<answer, threw>> /\ Rest /\ OnlyDriver

AfterRun ==
    /\ pc = "after-run"
    /\ \/ /\ batch' \in 0 .. MaxBatch
          /\ Goto("publish")
          /\ UNCHANGED <<answer, queue, class>>
       \/ /\ AspectThrows("aspect-execution")
          /\ batch' = batch
    /\ UNCHANGED <<fault, threw, sdkSession, caught, aspect>> /\ DriverAndQueue

ForgetsDiagnostic ==     \* mutant: a failed aspect is passed over
    /\ Answered("aspect-threw")
    /\ Goto("aspects") /\ aspect' = aspect + 1
    /\ UNCHANGED <<answer, queue, fault, threw, sdkSession, caught, batch, class>>
    /\ DriverAndQueue

(* "A rejected governance write must not become an optional aspect failure." *)
AspectThrew ==
    /\ Answered("aspect-threw")
    /\ IF answer = "ok"
          THEN /\ AwaitEnqueued(AspectFailure(Publisher, class), "aspect-failed")
               /\ UNCHANGED fault
          ELSE Throw("storage") /\ UNCHANGED <<answer, queue>>
    /\ UNCHANGED threw /\ Rest /\ DriverAndQueue

AspectEnds ==
    /\ Answered("aspect-failed") \/ Answered("aspect-completed")
    /\ IF answer = "ok" THEN Goto("aspects") /\ aspect' = aspect + 1 /\ UNCHANGED fault
                        ELSE Throw("storage") /\ aspect' = aspect
    /\ UNCHANGED <<answer, threw, sdkSession, caught, batch, class>> /\ OnlyDriver

AspectsDone ==
    /\ pc = "aspects"
    /\ aspect \notin DOMAIN Aspects
    /\ AwaitWrites("drain")
    /\ UNCHANGED <<fault, threw>> /\ Rest /\ DriverAndQueue

(* The end of options.run, then of handle.run.                               *)
Drained ==
    /\ Answered("drain")
    /\ IF answer = "rejected" THEN Throw("storage")
       ELSE IF fault # "none" THEN Throw(fault)
       ELSE IF extensionError # "none" THEN Throw("native")
       ELSE Goto("close") /\ UNCHANGED fault
    /\ UNCHANGED <<answer, threw>> /\ Rest /\ OnlyDriver

-----------------------------------------------------------------------------
(* handle.close, from the try block or, unless that one threw, from the      *)
(* catch block of executeSession, which replaces its own error only by a     *)
(* StorageFailure.                                                           *)
KeepsItsError(failure) ==       \* mutant: the catch block ignores the cleanup
    IF caught \/ failure = "none" THEN fault ELSE failure

FaultAfterClose(failure) ==
    IF caught /\ failure # "storage" THEN fault
    ELSE IF failure = "none" THEN fault ELSE failure

Close ==
    /\ pc \in {"close", "catch"}
    /\ caught' = (pc = "catch")
    /\ \/ /\ sdkSession
          /\ Observe("shutdown", Primary, TRUE)
          /\ answer' = "none"
          /\ Goto("shutdown")
          /\ UNCHANGED <<closeFailure, threw>>
       \/ /\ sdkSession                       \* emit throws
          /\ closeFailure' = "native"
          /\ threw' = TRUE
          /\ AwaitObservations("flush")
       \/ /\ ~sdkSession
          /\ Goto("settle")
          /\ UNCHANGED <<answer, observations, closeFailure, threw>>
    /\ UNCHANGED <<fault, sdkSession, aspect, batch, class>> /\ DriverAndRelay

ForgetsExtensionError == "none"    \* mutant: no check in close

ShutdownFailure == IF extensionError # "none" THEN "native" ELSE "none"

Shutdown ==
    /\ Answered("shutdown")
    /\ closeFailure' = ShutdownFailure
    /\ AwaitObservations("flush")
    /\ UNCHANGED <<fault, threw>> /\ Rest /\ DriverAndRelay

FinalizesNothing(step) ==       \* mutant: finalize is not called
    Goto(step) /\ answer' = "ok" /\ queue' = queue

FinalizeWrites(step) == AwaitWrites(step)

Flush ==
    /\ Answered("flush")
    /\ FinalizeWrites("finalize")
    /\ flushed' = TRUE
    /\ UNCHANGED <<fault, threw, closeFailure>> /\ Rest
    /\ UNCHANGED <<rejected, reading, lost, relayVars, recordVars>>

(* The answer of finalize, then dispose, then the end of handle.close.       *)
Finalize ==
    /\ Answered("finalize")
    /\ \E disposed \in BOOLEAN :
          LET failure == IF answer = "rejected" THEN "storage"
                         ELSE IF closeFailure = "none" /\ ~disposed THEN "native"
                         ELSE closeFailure
          IN /\ fault' = FaultAfterClose(failure)
             /\ threw' = (threw \/ ~disposed)
    /\ Goto("settle")
    /\ UNCHANGED answer /\ Rest /\ OnlyDriver

(* settleSession, whose own failures are in AgentInvoke.                     *)
Outcome == IF fault = "none" THEN "completed" ELSE "failed"
Terminal == IF fault = "none" THEN "session.completed" ELSE "session.failed"

Settle ==
    /\ pc = "settle"
    /\ log' = Append(log, Line(Terminal, Primary, Outcome))
    /\ Goto("settling")
    /\ UNCHANGED <<answer, fault, threw, closeFailure, status, writerVars, relayVars, flushed>>
    /\ Rest

SettleJson ==
    /\ pc = "settling"
    /\ status' = Outcome
    /\ Goto("ended")
    /\ UNCHANGED <<answer, fault, threw, closeFailure, log, writerVars, relayVars, flushed>>
    /\ Rest

Terminated ==
    /\ pc = "ended"
    /\ queue = <<>> /\ observations = <<>>
    /\ UNCHANGED vars

-----------------------------------------------------------------------------
Driver ==
    \/ Initialize \/ InitializationRejected \/ Load \/ Bind \/ Bound \/ Started
    \/ Consume \/ RunDomain \/ Validated \/ Refused \/ Register \/ Registered
    \/ DomainCompleted \/ DomainRejected \/ StartAspect \/ AspectStarted \/ AfterRun
    \/ AspectThrew \/ AspectEnds \/ AspectsDone \/ Drained \/ Close \/ Shutdown
    \/ Flush \/ Finalize \/ Settle \/ SettleJson

Writer == Skip \/ Read \/ Write

Next ==
    \/ Driver \/ Writer \/ StartLink
    \/ \E plugin \in Plugins : ExtensionReports(plugin)
    \/ Terminated

Spec == Init /\ [][Next]_vars

(* Node runs what is ready, and the native calls the driver makes settle.    *)
(* Nothing obliges an extension to report.                                   *)
Fairness == WF_vars(Driver) /\ WF_vars(Writer) /\ WF_vars(StartLink)

FairSpec == Spec /\ Fairness

-----------------------------------------------------------------------------
HasTerminal == \E i \in DOMAIN log : log[i].type \in {"session.completed", "session.failed"}

(* "Host observations and publications share a write queue, drained before   *)
(* terminal settlement" (runtime-pi README): when the terminal event enters  *)
(* the log, nothing asked for before the flush is still waiting.             *)
DrainedBeforeTerminal ==
    HasTerminal => \A i \in DOMAIN queue : ~queue[i].due

(* What the receipt makes of the log (agent-receipt.ts, participants).       *)
Says(i, plugin, detail) ==
    log[i].type = "participant" /\ log[i].plugin = plugin /\ log[i].detail = detail

Count(plugin, detail) == Cardinality({i \in DOMAIN log : Says(i, plugin, detail)})

PrimaryStatus ==
    IF Count(Primary, "failed") > 0 THEN "failed"
    ELSE IF Count(Primary, "completed") = 1 THEN "completed"
    ELSE IF \E i \in DOMAIN log : log[i].type = "runtime.loom.domain-started"
         THEN "started" ELSE "not-observed"

AspectStatus(plugin) ==
    IF \E i \in DOMAIN log : log[i].type = "observer.failed" /\ log[i].plugin = plugin
       THEN "failed"
    ELSE IF /\ Count(plugin, "started") = 1 /\ Count(plugin, "completed") = 1
            /\ \E i, j \in DOMAIN log :
                  i < j /\ Says(i, plugin, "started") /\ Says(j, plugin, "completed")
       THEN "completed"
    ELSE IF Count(plugin, "started") + Count(plugin, "completed") > 0 THEN "unconfirmed"
    ELSE IF \E i \in DOMAIN log : log[i].type = "artifact" /\ log[i].plugin = plugin
       THEN "publication-observed"
    ELSE "not-observed"

(* The participants of a completed Session's receipt: the primary completed, *)
(* and every aspect that has an afterRun completed or failed, none is left   *)
(* unconfirmed.                                                              *)
CompletedParticipants ==
    status = "completed" =>
        /\ PrimaryStatus = "completed"
        /\ \A plugin \in Phased : AspectStatus(plugin) \in {"completed", "failed"}

(* "Validate and read the whole batch before registering any of it"          *)
(* (application-host.ts, publish): a batch that was refused left no Artifact *)
(* of its aspect behind.                                                     *)
RefusedBatchesLeaveNothing ==
    \A i, j \in DOMAIN log :
        /\ log[i].type = "observer.failed"
        /\ log[i].detail \in {"publication-validation", "aspect-execution"}
        /\ log[j].type = "artifact"
        => log[i].plugin # log[j].plugin

(* A Session settles as it went.  "A failure to persist required governance  *)
(* remains fatal": one that completed lost none of the writes asked for      *)
(* before the flush, those of the relay included, whose rejections nobody    *)
(* sees, and no extension but an aspect's had reported an error by then.     *)
(* "Aspect execution and validation errors are recorded as observer.failed   *)
(* without failing the primary domain": one that failed did so for its       *)
(* domain, its native handle, or a write that was lost.                      *)
SettlesAsItWent ==
    /\ status = "completed" => ~lost /\ extensionError # "early"
    /\ status = "failed" => threw \/ lost

(* "A storage rejection remains sticky and is surfaced before terminal       *)
(* settlement" (application-host.ts): a lost write makes the Session fail    *)
(* as StorageFailure.                                                        *)
StorageRejectionSurfaces == status = "failed" /\ lost => fault = "storage"

(* The same once the native session exists, which close then flushes.        *)
RejectionSurfacesOnceOpen ==
    status = "failed" /\ lost /\ sdkSession => fault = "storage"

(* Whatever rejects, whatever extensions report and when: the Session is     *)
(* settled and the queue runs dry.                                           *)
HostSettles == <>(pc = "ended" /\ queue = <<>>)
=============================================================================
