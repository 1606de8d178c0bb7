----------------------------- MODULE AgentInvoke -----------------------------
(***************************************************************************)
(* invoke() of a connected Agent client (container-core, agent.ts) with    *)
(* the executeSession it drives (governance.ts), over the files of         *)
(* TaskStore and, for clients with writer_policy 'exclusive', under the    *)
(* lock of TaskWriter.                                                     *)
(*                                                                         *)
(* A client runs one invocation at a time; each of its steps ends at an    *)
(* await of the code.  Any read may fail, any write may fail having done   *)
(* nothing, a part or all of its work, every call of the native host may   *)
(* throw, and a client may die at any step.                                *)
(***************************************************************************)
EXTENDS TaskWriter, TaskStore

CONSTANTS
    Exclusive,      \* the clients that opted into the cooperative lock
    Produces,       \* per entry, the Artifact ids its Plugins may publish
    Hung,           \* the clients with a native call that may never settle
    NoSessionId

ASSUME ExclusiveAssumption == Exclusive \subseteq Clients
ASSUME HungAssumption == Hung \subseteq Clients
ASSUME ProducesAssumption == Produces \in [Entries -> SUBSET Artifacts]
ASSUME NoSessionIdAssumption == NoSessionId \notin Sessions

VARIABLES
    pc,             \* the next step of each client
    entry,          \* request.entry_id
    session,        \* the Session id of the invocation
    plan,           \* the resolved inputs of the SessionPlan
    reached,        \* the one-way flags of the invocation, see Milestones
    next,           \* the consumption loop's index
    verdict,        \* the settlement in progress
    receipt,        \* the AgentReceipt
    native          \* what the native host really did, per Session

callVars == <<entry, session, plan, next, verdict>>
vars == <<writerVars, storeVars, pc, callVars, reached, receipt, native>>

\* hostEntered, recorded, domainStarted, closed of the code; "caught" once in
\* executeSession's catch block.
Milestones == {"entered", "recorded", "domain", "closed", "caught"}

\* Facts about the native execution, of which the files are the evidence.
NativeFacts == {"launched", "accepted", "run", "completed", "closed"}

\* The steps of services.invoke, of which the outer invoke is the callback.
Executing == {"resolve", "mkdir", "json", "log", "started", "initialize",
              "consume", "domain", "run", "close", "settle", "settle-json",
              "confirm", "catch"}
Invoking == {"prepare", "enter", "validate", "launch", "receipt"} \cup Executing

Steps == {"idle", "open", "own", "inspect", "release", "unlink", "done", "dead"}
            \cup Invoking

Receipts == [execution : {"not-started", "completed", "failed", "unknown"},
             started : Tristate, confirmed : BOOLEAN]

NoReceipt == [execution |-> "not-started", started |-> "no", confirmed |-> TRUE]
Verdicts == [status : Settled, timestamp : Times \cup {NoTime}]
NoVerdict == [status |-> "failed", timestamp |-> NoTime]

TypeOK ==
    /\ WriterTypeOK
    /\ StoreTypeOK
    /\ pc \in [Clients -> Steps]
    /\ entry \in [Clients -> Entries \cup {NoEntry}]
    /\ session \in [Clients -> Sessions \cup {NoSessionId}]
    /\ plan \in [Clients -> Seq(Artifacts)]
    /\ reached \in [Clients -> SUBSET Milestones]
    /\ next \in [Clients -> Nat]
    /\ verdict \in [Clients -> Verdicts]
    /\ receipt \in [Clients -> Receipts]
    /\ native \in [Sessions -> SUBSET NativeFacts]

Init ==
    /\ WriterInit
    /\ StoreInit
    /\ pc = [c \in Clients |-> "idle"]
    /\ entry = [c \in Clients |-> NoEntry]
    /\ session = [c \in Clients |-> NoSessionId]
    /\ plan = [c \in Clients |-> <<>>]
    /\ reached = [c \in Clients |-> {}]
    /\ next = [c \in Clients |-> 1]
    /\ verdict = [c \in Clients |-> NoVerdict]
    /\ receipt = [c \in Clients |-> NoReceipt]
    /\ native = [s \in Sessions |-> {}]

-----------------------------------------------------------------------------
Goto(c, step) == pc' = [pc EXCEPT ![c] = step]
Reach(c, milestone) == reached' = [reached EXCEPT ![c] = @ \cup {milestone}]
Fact(s, fact) == native' = [native EXCEPT ![s] = @ \cup {fact}]

\* The local variables of a call, before it and after it.
FreshLocals(c) ==
    /\ plan' = [plan EXCEPT ![c] = <<>>]
    /\ reached' = [reached EXCEPT ![c] = {}]
    /\ next' = [next EXCEPT ![c] = 1]
    /\ verdict' = [verdict EXCEPT ![c] = NoVerdict]

(* A call starts.  Its Session id is drawn here rather than in               *)
(* executeSession: nobody sees it before, and an id no host saw is as new.   *)
Begin(c) ==
    /\ pc[c] = "idle"
    /\ \E s \in Sessions :
          /\ native[s] = {}
          /\ \A d \in Clients : session[d] # s
          /\ session' = [session EXCEPT ![c] = s]
    /\ \E e \in Entries : entry' = [entry EXCEPT ![c] = e]
    /\ FreshLocals(c)
    /\ receipt' = [receipt EXCEPT ![c] = NoReceipt]
    /\ Goto(c, IF c \in Exclusive THEN "open" ELSE "prepare")
    /\ UNCHANGED <<writerVars, storeVars, native>>

(* The receipt of an invocation that never got to services.invoke.           *)
NotAttempted(c) ==
    receipt' = [receipt EXCEPT ![c] = NoReceipt]

Acquire(c) ==
    /\ pc[c] = "open"
    /\ Open(c)
    /\ Goto(c, "own")
    /\ UNCHANGED <<storeVars, callVars, reached, receipt, native>>

WaitsForLock(c) ==      \* mutant: a busy lock is waited for
    /\ pc[c] = "open"
    /\ LockFree
    /\ NotAttempted(c)
    /\ Goto(c, "done")
    /\ UNCHANGED <<writerVars, storeVars, callVars, reached, native>>

(* TaskWriterBusy, or another failure of open.                               *)
TurnedAway(c) ==
    /\ pc[c] = "open"
    /\ NotAttempted(c)
    /\ Goto(c, "done")
    /\ UNCHANGED <<writerVars, storeVars, callVars, reached, native>>

PersistOwner(c) ==
    /\ pc[c] = "own"
    /\ \E ok \in BOOLEAN :
          /\ WriteOwner(c, ok)
          /\ Goto(c, IF ok THEN "inspect" ELSE "release")
    /\ NotAttempted(c)
    /\ UNCHANGED <<storeVars, callVars, reached, native>>

(* The inspection under the lock.  Only a readable history in which every    *)
(* Session is confirmed lets the invocation in, and then the lock is         *)
(* retained first.                                                           *)
AllConfirmed ==
    \A s \in Sessions : sessionFile[s].status # "absent" => Confirmed(s)

TrustsStatus ==     \* mutant: believes session.json alone
    /\ HistoryReadable
    /\ \A s \in Sessions : sessionFile[s].status # "running"

HistoryAdmits == HistoryReadable /\ AllConfirmed

EnterUnretained(c) == UNCHANGED writerVars     \* mutant: forgets retainOnExit

RetainLock(c) == Retain(c)

Inspect(c) ==
    /\ pc[c] = "inspect"
    /\ \/ /\ HistoryAdmits
          /\ RetainLock(c)
          /\ Goto(c, "prepare")
       \/ /\ Leave(c, keep[c])    \* unreadable, TaskOutcomeUnconfirmed
          /\ Goto(c, "release")
    /\ NotAttempted(c)
    /\ UNCHANGED <<storeVars, callVars, reached, native>>

-----------------------------------------------------------------------------
(* services.invoke: prepareSession resolves the inputs.  It fails, as does   *)
(* the check of the host's delivery, before the host is entered.             *)
Prepare(c) ==
    /\ pc[c] = "prepare"
    /\ \/ \E inputs \in Plans(entry[c]) :
             /\ Resolves(entry[c], inputs)
             /\ plan' = [plan EXCEPT ![c] = inputs]
             /\ Goto(c, "enter")
       \/ plan' = plan /\ Goto(c, "receipt")
    /\ UNCHANGED <<writerVars, storeVars, entry, session, reached, next, verdict,
                   receipt, native>>

(* binding.createHost: from here on native code has been entered.            *)
EnterHost(c) ==
    /\ pc[c] = "enter"
    /\ Reach(c, "entered")
    /\ \E ok \in BOOLEAN : Goto(c, IF ok THEN "validate" ELSE "receipt")
    /\ UNCHANGED <<writerVars, storeVars, callVars, receipt, native>>

(* executeSession resolves again, compares the plans, checks the runtime and *)
(* lets the host validate.                                                   *)
Validate(c) ==
    /\ pc[c] = "validate"
    /\ \/ Resolves(entry[c], plan[c]) /\ Goto(c, "launch")
       \/ Goto(c, "receipt")
    /\ UNCHANGED <<writerVars, storeVars, callVars, reached, receipt, native>>

(* host.launch may have opened a native session even when it throws.         *)
Launch(c) ==
    /\ pc[c] = "launch"
    /\ Fact(session[c], "launched")
    /\ \E ok \in BOOLEAN : Goto(c, IF ok THEN "resolve" ELSE "receipt")
    /\ UNCHANGED <<writerVars, storeVars, callVars, reached, receipt>>

(* startSession: the third resolution, against the bindings to be recorded.  *)
CheckInputs(c) ==
    /\ pc[c] = "resolve"
    /\ \/ Resolves(entry[c], plan[c]) /\ Goto(c, "mkdir")
       \/ Goto(c, "catch")
    /\ UNCHANGED <<writerVars, storeVars, callVars, reached, receipt, native>>

(* startSession's four writes.  The call knows of a Session, and will settle *)
(* it, only after the last of them.                                          *)
OrCatch(c, outcome, step) == Goto(c, IF outcome = "ok" THEN step ELSE "catch")

MakeDirectory(c) ==
    /\ pc[c] = "mkdir"
    /\ \E outcome \in Outcomes :
          MakeSessionDirectory(session[c], outcome) /\ OrCatch(c, outcome, "json")
    /\ UNCHANGED <<writerVars, callVars, reached, receipt, native>>

WriteSession(c) ==
    /\ pc[c] = "json"
    /\ \E outcome \in Outcomes :
          /\ CreateSessionJson(session[c], entry[c], plan[c], outcome)
          /\ OrCatch(c, outcome, "log")
    /\ UNCHANGED <<writerVars, callVars, reached, receipt, native>>

CreateLog(c) ==
    /\ pc[c] = "log"
    /\ \E outcome \in Outcomes :
          CreateEventLog(session[c], outcome) /\ OrCatch(c, outcome, "started")
    /\ UNCHANGED <<writerVars, callVars, reached, receipt, native>>

LogStarted(c) ==
    /\ pc[c] = "started"
    /\ \E outcome \in Outcomes :
          /\ AppendEvent(session[c], EventLine("session.started", NoTime), outcome)
          /\ OrCatch(c, outcome, "initialize")
          /\ IF outcome = "ok" THEN Reach(c, "recorded") ELSE reached' = reached
    /\ UNCHANGED <<writerVars, callVars, receipt, native>>

ConsumeFirst(c) ==      \* mutant: records before the initializer returns
    /\ pc[c] = "initialize"
    /\ Goto(c, "consume")
    /\ UNCHANGED <<writerVars, storeVars, callVars, reached, receipt, native>>

(* handle.initialize: the native side accepts the exact inputs, or throws.   *)
Initialize(c) ==
    /\ pc[c] = "initialize"
    /\ \/ Fact(session[c], "accepted") /\ Goto(c, "consume")
       \/ native' = native /\ Goto(c, "catch")
    /\ UNCHANGED <<writerVars, storeVars, callVars, reached, receipt>>

(* The loop over prepared.artifacts.  Two requirements may have resolved to  *)
(* the same Artifact: recordConsumption then finds its own record.           *)
Input(c) == plan[c][next[c]]

ConsumeAgain(c) == TRUE     \* mutant: no search for an existing binding

NeedsRecord(c) == ~AlreadyConsumed(session[c], Input(c))

Advance(c) == next' = [next EXCEPT ![c] = @ + 1]

Consume(c) ==
    /\ pc[c] = "consume"
    /\ next[c] \in DOMAIN plan[c]
    /\ \/ /\ MayConsume(session[c], Input(c))
          /\ ~NeedsRecord(c)
          /\ Advance(c)
          /\ UNCHANGED <<pc, storeVars>>
       \/ /\ MayConsume(session[c], Input(c))
          /\ NeedsRecord(c)
          /\ \E line, event \in Outcomes :
                /\ AppendConsumption(session[c], Input(c), line, event)
                /\ IF line = "ok" /\ event = "ok"
                      THEN Advance(c) /\ pc' = pc
                      ELSE next' = next /\ Goto(c, "catch")
       \/ Goto(c, "catch") /\ UNCHANGED <<next, storeVars>>
    /\ UNCHANGED <<writerVars, entry, session, plan, verdict, reached, receipt, native>>

ConsumedAll(c) ==
    /\ pc[c] = "consume"
    /\ next[c] \notin DOMAIN plan[c]
    /\ Goto(c, "domain")
    /\ UNCHANGED <<writerVars, storeVars, callVars, reached, receipt, native>>

(* The domain-started event, then, with no await between, handle.run().      *)
StartDomain(c) ==
    /\ pc[c] = "domain"
    /\ \/ /\ sessionFile[session[c]].status = "running"
          /\ events[session[c]].intact
          /\ \E outcome \in Outcomes :
                /\ AppendEvent(session[c],
                       EventLine("runtime.loom.domain-started", NoTime), outcome)
                /\ IF outcome = "ok"
                      THEN /\ Reach(c, "domain")
                           /\ Fact(session[c], "run")
                           /\ Goto(c, "run")
                      ELSE /\ UNCHANGED <<reached, native>>
                           /\ Goto(c, "catch")
       \/ Goto(c, "catch") /\ UNCHANGED <<storeVars, reached, native>>
    /\ UNCHANGED <<writerVars, callVars, receipt>>

(* While it runs, the host may publish through the store it was given.  A    *)
(* rejected publication is the host's to report: Run may still return.       *)
Publish(c) ==
    /\ pc[c] = "run"
    /\ \E a \in Produces[entry[c]], line, event \in Outcomes :
          PublishArtifact(session[c], a, line, event)
    /\ UNCHANGED <<writerVars, pc, callVars, reached, receipt, native>>

(* handle.run() returns a status, or throws. *)
Run(c) ==
    /\ pc[c] = "run"
    /\ \/ \E status \in Settled :
             /\ verdict' = [verdict EXCEPT ![c].status = status]
             /\ IF status = "completed" THEN Fact(session[c], "completed")
                                        ELSE native' = native
             /\ Goto(c, "close")
       \/ Goto(c, "catch") /\ UNCHANGED <<verdict, native>>
    /\ UNCHANGED <<writerVars, storeVars, entry, session, plan, reached, next, receipt>>

CloseQuietly(c) ==      \* mutant: a failing close is swallowed
    /\ pc[c] = "close"
    /\ Reach(c, "closed")
    /\ Fact(session[c], "closed") \/ native' = native
    /\ Goto(c, "settle")
    /\ UNCHANGED <<writerVars, storeVars, callVars, receipt>>

(* closed = true before handle.close() is awaited.  The fact "closed" is the *)
(* return of this close; one in the catch block saves nothing.               *)
Close(c) ==
    /\ pc[c] = "close"
    /\ Reach(c, "closed")
    /\ \/ Fact(session[c], "closed") /\ Goto(c, "settle")
       \/ native' = native /\ Goto(c, "catch")
    /\ UNCHANGED <<writerVars, storeVars, callVars, receipt>>

(* settleSession, from the try block or from the catch block: the terminal   *)
(* event first, then session.json.  A failure in the catch block ends the    *)
(* execution; one in the try block leads to the catch block.                 *)
SettleRetries(c) == Goto(c, "catch")    \* mutant: the catch block retries itself

SettleFails(c) == Goto(c, IF "caught" \in reached[c] THEN "receipt" ELSE "catch")

RunningOnceRecorded(c) == "recorded" \in reached[c]  \* mutant: status not re-read

StillRunning(c) == sessionFile[session[c]].status = "running"

StateFirst(c, outcome) == Goto(c, "settle-json")   \* mutant: event not required

AfterEvent(c, outcome) ==
    IF outcome = "ok" THEN Goto(c, "settle-json") ELSE SettleFails(c)

Settle(c) ==
    /\ pc[c] = "settle"
    /\ \/ /\ StillRunning(c)
          /\ \E t \in Times, outcome \in Outcomes :
                /\ verdict' = [verdict EXCEPT ![c].timestamp = t]
                /\ AppendEvent(session[c],
                       EventLine(TerminalType(verdict[c].status), t), outcome)
                /\ AfterEvent(c, outcome)
       \/ SettleFails(c) /\ UNCHANGED <<storeVars, verdict>>
    /\ UNCHANGED <<writerVars, entry, session, plan, next, reached, receipt, native>>

(* The failure recorded with "failed" carries domain_execution_started.      *)
StartedDiagnostic(c) ==
    IF verdict[c].status = "completed" THEN "unknown"
    ELSE IF "domain" \in reached[c] THEN "yes" ELSE "no"

SettleJson(c) ==
    /\ pc[c] = "settle-json"
    /\ \E outcome \in Outcomes :
          /\ ReplaceSessionJson(session[c], verdict[c].status, verdict[c].timestamp,
                                StartedDiagnostic(c), outcome)
          /\ IF outcome # "ok" THEN SettleFails(c)
             ELSE Goto(c, IF "caught" \in reached[c] THEN "receipt" ELSE "confirm")
    /\ UNCHANGED <<writerVars, callVars, reached, receipt, native>>

(* The final getSession of the try block. *)
Confirm(c) ==
    /\ pc[c] = "confirm"
    /\ Goto(c, "receipt") \/ Goto(c, "catch")
    /\ UNCHANGED <<writerVars, storeVars, callVars, reached, receipt, native>>

(* The catch block: close once, then settle as failed a recorded Session     *)
(* that still reads as running.                                              *)
Catch(c) ==
    /\ pc[c] = "catch"
    /\ reached' = [reached EXCEPT ![c] = @ \cup {"caught", "closed"}]
    /\ \/ /\ "recorded" \in reached[c]
          /\ StillRunning(c)
          /\ verdict' = [verdict EXCEPT ![c] = NoVerdict]
          /\ Goto(c, "settle")
       \/ verdict' = verdict /\ Goto(c, "receipt")
    /\ UNCHANGED <<writerVars, storeVars, entry, session, plan, next, receipt, native>>

-----------------------------------------------------------------------------
(* The receipt of services.invoke: projected from the Session's files when   *)
(* the history can be read and holds it, else from the call's own flags.     *)
FromSession(s) ==
    [execution |-> IF Confirmed(s) THEN sessionFile[s].status ELSE "unknown",
     started   |-> StartedFact(s),
     confirmed |-> Confirmed(s)]

DeniesStart(c) ==       \* mutant: an unreadable history reports no start
    [execution |-> IF "entered" \in reached[c] THEN "unknown" ELSE "not-started",
     started   |-> "no",
     confirmed |-> "entered" \notin reached[c]]

EnteredOnceRecorded(c) ==   \* mutant: an unrecorded launch is no attempt
    [execution |-> IF "recorded" \in reached[c] THEN "unknown" ELSE "not-started",
     started   |-> IF "domain" \in reached[c] THEN "yes" ELSE "no",
     confirmed |-> "recorded" \notin reached[c]]

FromCall(c) ==
    [execution |-> IF "entered" \in reached[c] THEN "unknown" ELSE "not-started",
     started   |-> IF "domain" \in reached[c] THEN "yes" ELSE "no",
     confirmed |-> "entered" \notin reached[c]]

ReceiptsFor(c) ==
    IF HistoryReadable /\ sessionFile[session[c]].status # "absent"
       THEN {FromSession(session[c]), FromCall(c)}
       ELSE {FromCall(c)}

ReleaseAnyway(c, r) == FALSE    \* mutant: releaseOnExit whatever the outcome

KeepsLock(c, r) == keep[c] /\ ~r.confirmed

(* The exclusive callback then permits the release only of a confirmed       *)
(* outcome, and exits.                                                       *)
TakeReceipt(c) ==
    /\ pc[c] = "receipt"
    /\ \E r \in ReceiptsFor(c) :
          /\ receipt' = [receipt EXCEPT ![c] = r]
          /\ IF c \in Exclusive
                THEN Leave(c, KeepsLock(c, r)) /\ Goto(c, "release")
                ELSE UNCHANGED writerVars /\ Goto(c, "done")
    /\ UNCHANGED <<storeVars, callVars, reached, native>>

(* The end of withTaskWriter.  A failed release changes the receipt's        *)
(* call_diagnostic only.                                                     *)
Release(c) ==
    /\ pc[c] = "release"
    /\ CheckOwner(c)
    /\ Goto(c, IF stage'[c] = "out" THEN "done" ELSE "unlink")
    /\ UNCHANGED <<storeVars, callVars, reached, receipt, native>>

RemoveLock(c) ==
    /\ pc[c] = "unlink"
    /\ Unlink(c)
    /\ Goto(c, "done")
    /\ UNCHANGED <<storeVars, callVars, reached, receipt, native>>

(* The caller has its receipt and may invoke again. *)
Return(c) ==
    /\ pc[c] = "done"
    /\ session' = [session EXCEPT ![c] = NoSessionId]
    /\ Goto(c, "idle")
    /\ entry' = [entry EXCEPT ![c] = NoEntry]
    /\ FreshLocals(c)
    /\ UNCHANGED <<writerVars, storeVars, receipt, native>>

(* The client's process dies during the call.  Nothing of it comes back.     *)
Crash(c) ==
    /\ pc[c] \notin {"idle", "done", "dead"}
    /\ Die(c)
    /\ Goto(c, "dead")
    /\ UNCHANGED <<storeVars, callVars, reached, receipt, native>>

OperatorIntervenes ==
    /\ OperatorRemovesLock
    /\ UNCHANGED <<storeVars, pc, callVars, reached, receipt, native>>

-----------------------------------------------------------------------------
\* The steps of a call once begun, up to its receipt.
Continue(c) ==
    \/ Acquire(c) \/ TurnedAway(c) \/ PersistOwner(c) \/ Inspect(c)
    \/ Prepare(c) \/ EnterHost(c) \/ Validate(c) \/ Launch(c) \/ CheckInputs(c)
    \/ MakeDirectory(c) \/ WriteSession(c) \/ CreateLog(c) \/ LogStarted(c)
    \/ Initialize(c) \/ Consume(c) \/ ConsumedAll(c) \/ StartDomain(c)
    \/ Publish(c) \/ Run(c) \/ Close(c) \/ Settle(c) \/ SettleJson(c)
    \/ Confirm(c) \/ Catch(c) \/ TakeReceipt(c) \/ Release(c) \/ RemoveLock(c)

Next == \E c \in Clients : Begin(c) \/ Continue(c) \/ Return(c) \/ Crash(c)

Spec == Init /\ [][Next]_vars

(* With an operator who clears the locks of calls that ended. *)
OperatedNext == Next \/ OperatorIntervenes

OperatedSpec == Init /\ [][OperatedNext]_vars

(* A started call keeps running, as Node runs its continuations, if the      *)
(* native calls settle.  The code has no timeout for those that do not: of a *)
(* Hung client nothing is assumed.                                           *)
Fairness == \A c \in Clients \ Hung : WF_vars(Continue(c))

FairSpec == Spec /\ Fairness

-----------------------------------------------------------------------------
(* Nothing is in doubt: the history can be read, it confirms every recorded  *)
(* Session, and every native session the host was asked for is among them.   *)
NothingInDoubt ==
    /\ HistoryReadable
    /\ AllConfirmed
    /\ \A s \in Sessions : native[s] # {} => Confirmed(s)

(* When every client is exclusive, a free lock means that nothing is in      *)
(* doubt, whatever writes failed and whoever died: an attempt of unknown     *)
(* outcome always leaves the lock behind (agent.ts, retainOnExit before the  *)
(* host is entered, releaseOnExit for a confirmed outcome only).             *)
FreeLockMeansConfirmed ==
    Exclusive = Clients /\ LockFree => NothingInDoubt

(* A client whose latest receipt is not confirmed still owns the lock file,  *)
(* also when the attempt left no record at all, so that the next inspection  *)
(* would find nothing to object to.                                          *)
UncertainKeepsLock ==
    \A c \in Exclusive : ~receipt[c].confirmed => lockOwner = c

(* Even when an operator removes the locks of calls that ended, no client    *)
(* gets to the host over a history that does not confirm every Session       *)
(* (agent.ts, the inspection under the lock).                                *)
HostEntryOverConfirmed ==
    Exclusive = Clients =>
        \A c \in Clients : pc[c] \in {"prepare", "enter", "validate", "launch"} =>
            HistoryReadable /\ AllConfirmed

HasReceipt(c) == pc[c] \in {"release", "unlink", "done"}

(* A receipt that says completed: the native run returned completed, its     *)
(* close returned, the initializer had accepted the inputs, each of them has *)
(* its consumption record, and the files say so now as they did when the     *)
(* receipt was taken.                                                        *)
CompletedReceiptIsTrue ==
    \A c \in Clients :
        HasReceipt(c) /\ receipt[c].execution = "completed" =>
            /\ native[session[c]] = NativeFacts
            /\ Confirmed(session[c])
            /\ sessionFile[session[c]].status = "completed"
            /\ \A i \in DOMAIN plan[c] : AlreadyConsumed(session[c], plan[c][i])

(* A receipt that denies is right: "not-started" means that the host saw     *)
(* nothing of this attempt and no file records it; domain_execution_started  *)
(* = false means that run() was not called, even when the call crashed into  *)
(* its catch block, or the Session's own files had to be believed.           *)
DenialsAreTrue ==
    \A c \in Clients : HasReceipt(c) =>
        /\ receipt[c].execution = "not-started" =>
              native[session[c]] = {} /\ sessionFile[session[c]].status = "absent"
        /\ receipt[c].started = "no" => "run" \notin native[session[c]]

(* Consumption records are evidence: each was written for an input of its    *)
(* Session that the native initializer had accepted, and run() is called     *)
(* only once every input has its record (governance.ts, executeSession).     *)
ConsumptionEvidence ==
    /\ \A line \in Lines(consumptions) :
          /\ "accepted" \in native[line.session]
          /\ \E i \in DOMAIN sessionFile[line.session].inputs :
                sessionFile[line.session].inputs[i] = line.artifact
    /\ \A s \in Sessions : "run" \in native[s] =>
          \A i \in DOMAIN sessionFile[s].inputs :
              AlreadyConsumed(s, sessionFile[s].inputs[i])

(* Only damage blinds: while every file that exists is whole, and no Session *)
(* was left half created, the history reads: no order of calls repeats an    *)
(* identity or a binding, or leaves a record without its producer.           *)
OnlyDamageBlinds ==
    (/\ artifacts.intact
     /\ consumptions.intact
     /\ \A s \in Sessions : sessionFile[s].status # "absent" =>
           SessionReadable(s) /\ events[s].intact)
    => HistoryReadable

(* "Publish the terminal state only after its required event is durable"     *)
(* (storage/index.ts, settleSession): a settled session.json has a terminal  *)
(* event of its status in the log, unless the log is damaged.                *)
TerminalEventFirst ==
    \A s \in Sessions :
        sessionFile[s].status \in Settled /\ events[s].intact =>
            \E i \in Terminals(s) :
                events[s].lines[i].type = TerminalType(sessionFile[s].status)

(* A confirmed outcome is final: no later step of any client, a retry of the *)
(* settlement in the catch block included, touches the Session's files.      *)
ConfirmedOutcomesAreFinal ==
    [][\A s \in Sessions : Confirmed(s) =>
          UNCHANGED <<sessionFile[s], events[s]>>]_vars

(* The Task as its exclusive clients see it, and what they promise: to       *)
(* implement TaskOwnership, in which attempts are made one at a time by the  *)
(* call that owns the Task, and it is given back without an uncertain one.   *)
Phase == IF LockFree THEN "free"
         ELSE IF stage[lockOwner] \in Holding THEN "owned" ELSE "retained"

OutcomeOf(s) == IF Confirmed(s) THEN sessionFile[s].status
                ELSE IF native[s] # {} THEN "uncertain" ELSE "none"

Promise == INSTANCE TaskOwnership WITH
    phase <- Phase, outcome <- [s \in Sessions |-> OutcomeOf(s)]

KeepsPromise == Promise!Spec

(* Every call whose native calls settle ends with a receipt, or with the     *)
(* death of its process: no failure of the host or of a file makes it wait   *)
(* or turn in circles, and neither does another client that hangs or died    *)
(* with the lock: "Contention fails immediately; it does not queue work"     *)
(* (manual, AGENT_GUIDE.md).                                                 *)
EveryCallReturns ==
    \A c \in Clients \ Hung :
        pc[c] \in {"open", "prepare"} ~> pc[c] \in {"done", "dead"}
=============================================================================
