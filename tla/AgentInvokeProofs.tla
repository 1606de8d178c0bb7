-------------------------- MODULE AgentInvokeProofs --------------------------
(* Proofs about AgentInvoke, for any clients, Sessions, entries and Artifacts. *)
EXTENDS AgentInvoke, TLAPS

-----------------------------------------------------------------------------
(* The lock, TaskWriter, by itself. *)
LEMMA WriterTypeStep ==
    ASSUME WriterTypeOK, [WriterNext]_writerVars
    PROVE  WriterTypeOK'
<1> USE DEF WriterTypeOK
<1>1. CASE OperatorRemovesLock
  BY <1>1 DEF OperatorRemovesLock
<1>2. ASSUME NEW c \in Clients, WriterStep(c)
      PROVE  WriterTypeOK'
  <2>1. CASE Open(c)
    BY <2>1 DEF Open, Texts, Stages
  <2>2. CASE \E ok \in BOOLEAN : WriteOwner(c, ok)
    BY <2>2 DEF WriteOwner, Stages
  <2>3. CASE Retain(c)
    BY <2>3 DEF Retain
  <2>4. CASE \E k \in BOOLEAN : Leave(c, k)
    BY <2>4 DEF Leave, Stages
  <2>5. CASE CheckOwner(c)
    BY <2>5 DEF CheckOwner, Stages
  <2>6. CASE Unlink(c)
    BY <2>6 DEF Unlink, Stages
  <2>7. CASE Die(c)
    BY <2>7 DEF Die, Stages
  <2> QED
    BY <1>2, <2>1, <2>2, <2>3, <2>4, <2>5, <2>6, <2>7 DEF WriterStep
<1>3. CASE UNCHANGED writerVars
  BY <1>3 DEF writerVars
<1> QED
  BY <1>1, <1>2, <1>3 DEF WriterNext

(* Every variable of the lock keeps its type. *)
THEOREM WriterTypeCorrect == WriterSpec => []WriterTypeOK
<1>1. WriterInit => WriterTypeOK
  BY DEF WriterInit, WriterTypeOK, Texts, Stages
<1> QED
  BY <1>1, WriterTypeStep, PTL DEF WriterSpec

(* The exclusive creation gives the lock file to one call, and only a call   *)
(* that has it, or an operator after that call ended, takes it away.         *)
LEMMA OwnerStep ==
    ASSUME WriterTypeOK, OwnerWhileHolding, [WriterNext]_writerVars
    PROVE  OwnerWhileHolding'
<1> USE NoClientAssumption DEF WriterTypeOK, OwnerWhileHolding, Holding
<1>1. CASE OperatorRemovesLock
  BY <1>1 DEF OperatorRemovesLock, LockFree
<1>2. ASSUME NEW c \in Clients, WriterStep(c)
      PROVE  OwnerWhileHolding'
  <2>1. CASE Open(c)
    BY <2>1 DEF Open, LockFree
  <2>2. CASE \E ok \in BOOLEAN : WriteOwner(c, ok)
    BY <2>2 DEF WriteOwner
  <2>3. CASE Retain(c)
    BY <2>3 DEF Retain
  <2>4. CASE \E k \in BOOLEAN : Leave(c, k)
    BY <2>4 DEF Leave
  <2>5. CASE CheckOwner(c)
    BY <2>5 DEF CheckOwner
  <2>6. CASE Unlink(c)
    BY <2>6 DEF Unlink
  <2>7. CASE Die(c)
    BY <2>7 DEF Die
  <2> QED
    BY <1>2, <2>1, <2>2, <2>3, <2>4, <2>5, <2>6, <2>7 DEF WriterStep
<1>3. CASE UNCHANGED writerVars
  BY <1>3 DEF writerVars
<1> QED
  BY <1>1, <1>2, <1>3 DEF WriterNext

(* At any moment at most one call of withTaskWriter is between its exclusive *)
(* open and its end, and the lock file is that call's own.                   *)
THEOREM OwnerWhileHoldingAlways == WriterSpec => []OwnerWhileHolding
<1>1. WriterInit => OwnerWhileHolding
  BY DEF WriterInit, OwnerWhileHolding, Holding
<1> QED
  BY <1>1, WriterTypeCorrect, OwnerStep, PTL DEF WriterSpec

(* What the read back established still holds when the file is unlinked.     *)
CheckedBeforeUnlink ==
    \A c \in Clients : stage[c] = "unlinking" => ~keep[c] /\ lockText = "full"

LEMMA CheckedStep ==
    ASSUME WriterTypeOK, OwnerWhileHolding, CheckedBeforeUnlink,
           [WriterNext]_writerVars
    PROVE  CheckedBeforeUnlink'
<1> USE NoClientAssumption
        DEF WriterTypeOK, OwnerWhileHolding, Holding, CheckedBeforeUnlink
<1>1. CASE OperatorRemovesLock
  BY <1>1 DEF OperatorRemovesLock, LockFree
<1>2. ASSUME NEW c \in Clients, WriterStep(c)
      PROVE  CheckedBeforeUnlink'
  <2>1. CASE Open(c)
    BY <2>1 DEF Open, LockFree
  <2>2. CASE \E ok \in BOOLEAN : WriteOwner(c, ok)
    BY <2>2 DEF WriteOwner
  <2>3. CASE Retain(c)
    BY <2>3 DEF Retain
  <2>4. CASE \E k \in BOOLEAN : Leave(c, k)
    BY <2>4 DEF Leave
  <2>5. CASE CheckOwner(c)
    BY <2>5 DEF CheckOwner
  <2>6. CASE Unlink(c)
    BY <2>6 DEF Unlink
  <2>7. CASE Die(c)
    BY <2>7 DEF Die
  <2> QED
    BY <1>2, <2>1, <2>2, <2>3, <2>4, <2>5, <2>6, <2>7 DEF WriterStep
<1>3. CASE UNCHANGED writerVars
  BY <1>3 DEF writerVars
<1> QED
  BY <1>1, <1>2, <1>3 DEF WriterNext

(* A lock that disappears was unlinked by the call that created it, after it *)
(* read its own line back and without a wish to retain it, or removed by an  *)
(* operator once that call had ended.                                        *)
THEOREM OnlyOwnerReleasesAlways == WriterSpec => OnlyOwnerReleases
<1> DEFINE Released == ~LockFree /\ LockFree' =>
          \/ stage[lockOwner] = "unlinking" /\ ~keep[lockOwner] /\ lockText = "full"
          \/ stage[lockOwner] \in {"out", "dead"} /\ stage' = stage
<1>1. WriterInit => CheckedBeforeUnlink
  BY DEF WriterInit, CheckedBeforeUnlink
<1>2. WriterSpec => []CheckedBeforeUnlink
  BY <1>1, WriterTypeCorrect, OwnerWhileHoldingAlways, CheckedStep, PTL DEF WriterSpec
<1>3. ASSUME WriterTypeOK, OwnerWhileHolding, CheckedBeforeUnlink,
             [WriterNext]_writerVars
      PROVE  [Released]_writerVars
  <2> SUFFICES ASSUME ~LockFree, LockFree'
               PROVE  Released
    OBVIOUS
  <2> USE <1>3 DEF LockFree, WriterTypeOK
  <2>1. CASE OperatorRemovesLock
    BY <2>1 DEF OperatorRemovesLock
  <2>2. ASSUME NEW c \in Clients, WriterStep(c)
        PROVE  Released
    <3>1. CASE Unlink(c)
      BY <3>1 DEF Unlink, OwnerWhileHolding, CheckedBeforeUnlink, Holding
    <3>2. CASE Open(c)
      BY <3>2 DEF Open
    <3> QED
      BY <2>2, <3>1, <3>2 DEF WriterStep, WriteOwner, Retain, Leave, CheckOwner, Die
  <2>3. CASE UNCHANGED writerVars
    BY <2>3 DEF writerVars
  <2> QED
    BY <2>1, <2>2, <2>3 DEF WriterNext
<1> QED
  BY <1>2, <1>3, WriterTypeCorrect, OwnerWhileHoldingAlways, PTL
     DEF WriterSpec, OnlyOwnerReleases

-----------------------------------------------------------------------------
(* The files keep their types through every operation of the store.          *)

LEMMA AppendedType ==
    ASSUME NEW Line, NEW log \in Log(Line), NEW line \in Line, NEW outcome
    PROVE  Appended(log, line, outcome) \in Log(Line)
<1>1. /\ log = [lines |-> log.lines, intact |-> log.intact]
      /\ log.lines \in Seq(Line)
      /\ log.intact \in BOOLEAN
  BY DEF Log
<1>2. Append(log.lines, line) \in Seq(Line)
  BY <1>1
<1>3. [log EXCEPT !.lines = Append(@, line)] \in Log(Line)
  BY <1>1, <1>2 DEF Log
<1>4. [log EXCEPT !.intact = FALSE] \in Log(Line)
  BY <1>1 DEF Log
<1> QED
  BY <1>3, <1>4 DEF Appended

LEMMA NoSessionType == NoSession \in SessionFiles
BY DEF NoSession, SessionFiles, FileStates, Tristate

LEMMA EmptyLogType == ASSUME NEW Line PROVE EmptyLog \in Log(Line) /\ NoLog \in Log(Line)
BY DEF Log, EmptyLog, NoLog

LEMMA EventLineType ==
    ASSUME NEW type \in CoreEvents, NEW t \in Times \cup {NoTime}
    PROVE  EventLine(type, t) \in EventLines
BY DEF EventLine, EventLines

LEMMA MakeSessionDirectoryType ==
    ASSUME StoreTypeOK, NEW s \in Sessions, NEW outcome,
           MakeSessionDirectory(s, outcome)
    PROVE  StoreTypeOK'
BY DEF StoreTypeOK, MakeSessionDirectory, SessionFiles, FileStates

LEMMA CreateSessionJsonType ==
    ASSUME StoreTypeOK, NEW s \in Sessions, NEW outcome, NEW e \in Entries,
           NEW inputs \in Seq(Artifacts), CreateSessionJson(s, e, inputs, outcome)
    PROVE  StoreTypeOK'
<1>1. [NoSession EXCEPT !.status = "running", !.entry = e, !.inputs = inputs]
         \in SessionFiles
  BY NoSessionType DEF SessionFiles, FileStates, Recorded
<1>2. [sessionFile[s] EXCEPT !.status = "partial"] \in SessionFiles
  BY DEF StoreTypeOK, SessionFiles, FileStates
<1> QED
  BY <1>1, <1>2 DEF StoreTypeOK, CreateSessionJson

LEMMA CreateEventLogType ==
    ASSUME StoreTypeOK, NEW s \in Sessions, NEW outcome, CreateEventLog(s, outcome)
    PROVE  StoreTypeOK'
BY EmptyLogType DEF StoreTypeOK, CreateEventLog

LEMMA AppendEventType ==
    ASSUME StoreTypeOK, NEW s \in Sessions, NEW outcome, NEW line \in EventLines,
           AppendEvent(s, line, outcome)
    PROVE  StoreTypeOK'
BY AppendedType DEF StoreTypeOK, AppendEvent

LEMMA PublishArtifactType ==
    ASSUME StoreTypeOK, NEW s \in Sessions, NEW a \in Artifacts, NEW o1, NEW o2,
           PublishArtifact(s, a, o1, o2)
    PROVE  StoreTypeOK'
<1>1. [id |-> a, session |-> s] \in ArtifactLines
  BY DEF ArtifactLines
<1>2. EventLine("artifact.published", NoTime) \in EventLines
  BY EventLineType DEF CoreEvents
<1> QED
  BY <1>1, <1>2, AppendedType DEF StoreTypeOK, PublishArtifact

LEMMA AppendConsumptionType ==
    ASSUME StoreTypeOK, NEW s \in Sessions, NEW a \in Artifacts, NEW o1, NEW o2,
           AppendConsumption(s, a, o1, o2)
    PROVE  StoreTypeOK'
<1>1. [session |-> s, artifact |-> a] \in ConsumptionLines
  BY DEF ConsumptionLines
<1>2. EventLine("artifact.consumed", NoTime) \in EventLines
  BY EventLineType DEF CoreEvents
<1> QED
  BY <1>1, <1>2, AppendedType DEF StoreTypeOK, AppendConsumption

LEMMA ReplaceSessionJsonType ==
    ASSUME StoreTypeOK, NEW s \in Sessions, NEW status \in Settled,
           NEW t \in Times \cup {NoTime}, NEW started \in Tristate, NEW outcome,
           ReplaceSessionJson(s, status, t, started, outcome)
    PROVE  StoreTypeOK'
<1>1. [sessionFile[s] EXCEPT !.status = status, !.finished = t, !.started = started]
         \in SessionFiles
  BY DEF StoreTypeOK, SessionFiles, FileStates, Recorded
<1> QED
  BY <1>1 DEF StoreTypeOK, ReplaceSessionJson

-----------------------------------------------------------------------------
(* Every step of a call is a step of the lock, or leaves the lock alone.     *)
LEMMA LockStep ==
    ASSUME TypeOK, [OperatedNext]_vars
    PROVE  [WriterNext]_writerVars
<1>1. \A c \in Clients : keep[c] \in BOOLEAN
  BY DEF TypeOK, WriterTypeOK
<1>2. ASSUME NEW c \in Clients, Continue(c)
      PROVE  WriterStep(c) \/ UNCHANGED writerVars
  <2>1. CASE Acquire(c) \/ TurnedAway(c) \/ PersistOwner(c) \/ Release(c) \/ RemoveLock(c)
    BY <2>1 DEF Acquire, TurnedAway, PersistOwner, Release, RemoveLock, WriterStep
  <2>2. CASE Inspect(c)
    <3>1. CASE RetainLock(c)
      BY <3>1 DEF RetainLock, WriterStep
    <3>2. CASE Leave(c, keep[c])
      BY <1>1, <3>2 DEF WriterStep
    <3> QED
      BY <2>2, <3>1, <3>2 DEF Inspect
  <2>3. CASE TakeReceipt(c)
    <3>1. PICK r \in ReceiptsFor(c) : Leave(c, KeepsLock(c, r)) \/ UNCHANGED writerVars
      BY <2>3 DEF TakeReceipt
    <3>2. KeepsLock(c, r) \in BOOLEAN
      BY DEF KeepsLock
    <3> QED
      BY <3>1, <3>2 DEF WriterStep
  <2>4. CASE UNCHANGED writerVars
    BY <2>4
  <2>5. \/ UNCHANGED writerVars
        \/ Acquire(c) \/ TurnedAway(c) \/ PersistOwner(c) \/ Inspect(c)
        \/ TakeReceipt(c) \/ Release(c) \/ RemoveLock(c)
    BY <1>2
       DEF Continue, Prepare, EnterHost, Validate, Launch, CheckInputs, MakeDirectory,
           WriteSession, CreateLog, LogStarted, Initialize, Consume, ConsumedAll,
           StartDomain, Publish, Run, Close, Settle, SettleJson, Confirm, Catch
  <2> QED
    BY <2>1, <2>2, <2>3, <2>4, <2>5
<1>3. ASSUME NEW c \in Clients, Begin(c) \/ Return(c) \/ Crash(c)
      PROVE  WriterStep(c) \/ UNCHANGED writerVars
  BY <1>3 DEF Begin, Return, Crash, WriterStep
<1>4. CASE OperatorIntervenes
  BY <1>4 DEF OperatorIntervenes, WriterNext
<1>5. CASE UNCHANGED vars
  BY <1>5 DEF vars
<1> QED
  BY <1>2, <1>3, <1>4, <1>5 DEF OperatedNext, Next, WriterNext
-----------------------------------------------------------------------------
(* A call that was begun has a Session id and an entry.                      *)
Attempting ==
    \A c \in Clients : pc[c] # "idle" => session[c] \in Sessions /\ entry[c] \in Entries

CallTypeOK ==
    /\ pc \in [Clients -> Steps]
    /\ entry \in [Clients -> Entries \cup {NoEntry}]
    /\ session \in [Clients -> Sessions \cup {NoSessionId}]
    /\ plan \in [Clients -> Seq(Artifacts)]
    /\ reached \in [Clients -> SUBSET Milestones]
    /\ next \in [Clients -> Nat]
    /\ verdict \in [Clients -> Verdicts]
    /\ receipt \in [Clients -> Receipts]
    /\ native \in [Sessions -> SUBSET NativeFacts]

LEMMA PlansType ==
    ASSUME NEW e \in Entries, NEW inputs \in Plans(e)
    PROVE  inputs \in Seq(Artifacts)
<1>1. Requires[e] \in Seq(SUBSET Artifacts)
  BY RequiresAssumption
<1>2. DOMAIN Requires[e] = 1 .. Len(Requires[e]) /\ Len(Requires[e]) \in Nat
  BY <1>1
<1>3. inputs \in [1 .. Len(Requires[e]) -> Artifacts]
  BY <1>2 DEF Plans
<1> QED
  BY <1>2, <1>3

LEMMA InputType ==
    ASSUME CallTypeOK, NEW c \in Clients, next[c] \in DOMAIN plan[c]
    PROVE  Input(c) \in Artifacts
<1>1. plan[c] \in Seq(Artifacts)
  BY DEF CallTypeOK
<1>2. \A i \in DOMAIN plan[c] : plan[c][i] \in Artifacts
  BY <1>1
<1> QED
  BY <1>2 DEF Input

LEMMA StartedType ==
    ASSUME NEW c \in Clients, NEW s \in Sessions, StoreTypeOK
    PROVE  StartedDiagnostic(c) \in Tristate /\ StartedFact(s) \in Tristate
BY DEF StartedDiagnostic, StartedFact, Tristate, StoreTypeOK, SessionFiles

LEMMA TerminalTypeType ==
    ASSUME NEW status
    PROVE  TerminalType(status) \in CoreEvents
BY DEF TerminalType, CoreEvents

(* The files keep their types through every step of a call.                  *)
LEMMA StoreTypeStep ==
    ASSUME TypeOK, Attempting, [OperatedNext]_vars
    PROVE  StoreTypeOK'
<1>1. StoreTypeOK /\ CallTypeOK
  BY DEF TypeOK, CallTypeOK
<1>2. ASSUME NEW c \in Clients, Continue(c)
      PROVE  StoreTypeOK'
  <2>1. CASE pc[c] = "idle" \/ UNCHANGED storeVars
    <3>1. UNCHANGED storeVars
      BY <1>2, <2>1
         DEF Continue, Acquire, TurnedAway, PersistOwner, Inspect, Prepare, EnterHost,
             Validate, Launch, CheckInputs, MakeDirectory, WriteSession, CreateLog,
             LogStarted, Initialize, Consume, ConsumedAll, StartDomain, Publish, Run,
             Close, Settle, SettleJson, Confirm, Catch, TakeReceipt, Release, RemoveLock
    <3> QED
      BY <1>1, <3>1 DEF StoreTypeOK, storeVars
  <2>2. CASE pc[c] # "idle" /\ ~UNCHANGED storeVars
    <3>1. session[c] \in Sessions /\ entry[c] \in Entries /\ plan[c] \in Seq(Artifacts)
      BY <1>1, <2>2 DEF Attempting, CallTypeOK
    <3>2. CASE MakeDirectory(c)
      BY <1>1, <3>1, <3>2, MakeSessionDirectoryType DEF MakeDirectory
    <3>3. CASE WriteSession(c)
      BY <1>1, <3>1, <3>3, CreateSessionJsonType DEF WriteSession
    <3>4. CASE CreateLog(c)
      BY <1>1, <3>1, <3>4, CreateEventLogType DEF CreateLog
    <3>5. CASE LogStarted(c)
      <4>1. EventLine("session.started", NoTime) \in EventLines
        BY EventLineType DEF CoreEvents
      <4> QED
        BY <1>1, <3>1, <3>5, <4>1, AppendEventType DEF LogStarted
    <3>6. CASE Consume(c)
      <4>1. Input(c) \in Artifacts
        BY <1>1, <3>6, InputType DEF Consume
      <4> QED
        BY <1>1, <2>2, <3>1, <3>6, <4>1, AppendConsumptionType DEF Consume
    <3>7. CASE StartDomain(c)
      <4>1. EventLine("runtime.loom.domain-started", NoTime) \in EventLines
        BY EventLineType DEF CoreEvents
      <4> QED
        BY <1>1, <2>2, <3>1, <3>7, <4>1, AppendEventType DEF StartDomain
    <3>8. CASE Publish(c)
      <4>1. Produces[entry[c]] \subseteq Artifacts
        BY <3>1, ProducesAssumption
      <4> QED
        BY <1>1, <3>1, <3>8, <4>1, PublishArtifactType DEF Publish
    <3>9. CASE Settle(c)
      <4>1. PICK t \in Times, outcome \in Outcomes :
               AppendEvent(session[c], EventLine(TerminalType(verdict[c].status), t), outcome)
        BY <2>2, <3>9 DEF Settle
      <4>2. EventLine(TerminalType(verdict[c].status), t) \in EventLines
        BY EventLineType, TerminalTypeType
      <4> QED
        BY <1>1, <3>1, <4>1, <4>2, AppendEventType
    <3>10. CASE SettleJson(c)
      <4>1. verdict[c].status \in Settled /\ verdict[c].timestamp \in Times \cup {NoTime}
        BY <1>1 DEF CallTypeOK, Verdicts
      <4> QED
        BY <1>1, <3>1, <3>10, <4>1, StartedType, ReplaceSessionJsonType DEF SettleJson
    <3> QED
      BY <1>2, <2>2, <3>2, <3>3, <3>4, <3>5, <3>6, <3>7, <3>8, <3>9, <3>10
         DEF Continue, Acquire, TurnedAway, PersistOwner, Inspect, Prepare, EnterHost,
             Validate, Launch, CheckInputs, Initialize, ConsumedAll, Run,
             Close, Confirm, Catch, TakeReceipt, Release, RemoveLock
  <2> QED
    BY <2>1, <2>2
<1>3. CASE UNCHANGED storeVars
  BY <1>1, <1>3 DEF StoreTypeOK, storeVars
<1> QED
  BY <1>2, <1>3 DEF OperatedNext, Next, Begin, Return, Crash, OperatorIntervenes, vars

LEMMA ReceiptsType ==
    ASSUME StoreTypeOK, NEW c \in Clients, session[c] \in Sessions, NEW r \in ReceiptsFor(c)
    PROVE  r \in Receipts
<1>1. FromCall(c) \in Receipts
  BY DEF FromCall, Receipts, Tristate
<1>2. Confirmed(session[c]) => sessionFile[session[c]].status \in Settled
  BY DEF Confirmed
<1>3. FromSession(session[c]) \in Receipts
  BY <1>2, StartedType DEF FromSession, Receipts, Settled, Confirmed
<1> QED
  BY <1>1, <1>3 DEF ReceiptsFor

LEMMA ReachType ==
    ASSUME CallTypeOK, NEW c \in Clients, NEW milestone \in Milestones,
           Reach(c, milestone)
    PROVE  reached' \in [Clients -> SUBSET Milestones]
BY DEF CallTypeOK, Reach

LEMMA FactType ==
    ASSUME CallTypeOK, NEW s \in Sessions, NEW fact \in NativeFacts, Fact(s, fact)
    PROVE  native' \in [Sessions -> SUBSET NativeFacts]
BY DEF CallTypeOK, Fact

LEMMA GotoType ==
    ASSUME CallTypeOK, NEW c \in Clients, NEW step \in Steps, Goto(c, step),
           pc[c] # "idle"
    PROVE  /\ pc' \in [Clients -> Steps]
           /\ \A d \in Clients : pc'[d] # "idle" => pc[d] # "idle"
BY DEF CallTypeOK, Goto

LEMMA VerdictType ==
    ASSUME CallTypeOK, NEW c \in Clients,
           \/ verdict' = verdict
           \/ \E status \in Settled : verdict' = [verdict EXCEPT ![c].status = status]
           \/ \E t \in Times : verdict' = [verdict EXCEPT ![c].timestamp = t]
    PROVE  verdict' \in [Clients -> Verdicts]
<1>1. verdict \in [Clients -> Verdicts]
  BY DEF CallTypeOK
<1>2. ASSUME NEW status \in Settled
      PROVE  [verdict EXCEPT ![c].status = status] \in [Clients -> Verdicts]
  BY <1>1 DEF Verdicts
<1>3. ASSUME NEW t \in Times
      PROVE  [verdict EXCEPT ![c].timestamp = t] \in [Clients -> Verdicts]
  BY <1>1 DEF Verdicts
<1> QED
  BY <1>1, <1>2, <1>3

LEMMA CallTypeStep ==
    ASSUME TypeOK, Attempting, [OperatedNext]_vars
    PROVE  CallTypeOK' /\ Attempting'
<1>1. StoreTypeOK /\ CallTypeOK
  BY DEF TypeOK, CallTypeOK
<1> USE <1>1 DEF CallTypeOK, Attempting, callVars
<1>2. ASSUME NEW c \in Clients, Begin(c)
      PROVE  CallTypeOK' /\ Attempting'
  <2>1. NoReceipt \in Receipts /\ NoVerdict \in Verdicts
    BY DEF NoReceipt, Receipts, Tristate, NoVerdict, Verdicts, Settled
  <2> QED
    BY <1>2, <2>1 DEF Begin, FreshLocals, Goto, Steps, Invoking
<1>3. ASSUME NEW c \in Clients, Continue(c)
      PROVE  CallTypeOK' /\ Attempting'
  <2>1. NoReceipt \in Receipts /\ NoVerdict \in Verdicts
    BY DEF NoReceipt, Receipts, Tristate, NoVerdict, Verdicts, Settled
  <2> USE <2>1 DEF Goto, Steps, Invoking, Executing, OrCatch, SettleFails
  <2>2. CASE Acquire(c)
    BY <2>2 DEF Acquire
  <2>3. CASE TurnedAway(c)
    BY <2>3 DEF TurnedAway, NotAttempted
  <2>4. CASE PersistOwner(c)
    BY <2>4 DEF PersistOwner, NotAttempted
  <2>5. CASE Inspect(c)
    BY <2>5 DEF Inspect, NotAttempted
  <2>6. CASE Prepare(c)
    <3>1. plan' \in [Clients -> Seq(Artifacts)]
      <4>1. entry[c] \in Entries
        BY <2>6 DEF Prepare
      <4>2. plan' = plan \/ \E inputs \in Plans(entry[c]) : plan' = [plan EXCEPT ![c] = inputs]
        BY <2>6 DEF Prepare
      <4> QED
        BY <4>1, <4>2, PlansType
    <3> QED
      BY <2>6, <3>1 DEF Prepare
  <2>7. CASE EnterHost(c)
    BY <2>7 DEF EnterHost, Reach, Milestones
  <2>8. CASE Validate(c)
    BY <2>8 DEF Validate
  <2>9. CASE Launch(c)
    BY <2>9 DEF Launch, Fact, NativeFacts
  <2>10. CASE CheckInputs(c)
    BY <2>10 DEF CheckInputs
  <2>11. CASE MakeDirectory(c)
    BY <2>11 DEF MakeDirectory
  <2>12. CASE WriteSession(c)
    BY <2>12 DEF WriteSession
  <2>13. CASE CreateLog(c)
    BY <2>13 DEF CreateLog
  <2>14. CASE LogStarted(c)
    <3>1. reached' \in [Clients -> SUBSET Milestones]
      BY <2>14, ReachType DEF LogStarted, Milestones
    <3> QED
      BY <2>14, <3>1 DEF LogStarted
  <2>15. CASE Initialize(c)
    <3>1. native' \in [Sessions -> SUBSET NativeFacts]
      BY <2>15, FactType DEF Initialize, NativeFacts
    <3> QED
      BY <2>15, <3>1 DEF Initialize
  <2>16. CASE Consume(c)
    <3>1. next' \in [Clients -> Nat]
      BY <2>16 DEF Consume, Advance
    <3>2. pc' \in [Clients -> Steps] /\ \A d \in Clients : pc'[d] # "idle" => pc[d] # "idle"
      BY <2>16 DEF Consume
    <3> QED
      BY <2>16, <3>1, <3>2 DEF Consume
  <2>17. CASE ConsumedAll(c)
    BY <2>17 DEF ConsumedAll
  <2>18. CASE StartDomain(c)
    <3>1. reached' \in [Clients -> SUBSET Milestones]
      BY <2>18, ReachType DEF StartDomain, Milestones
    <3>2. native' \in [Sessions -> SUBSET NativeFacts]
      BY <2>18, FactType DEF StartDomain, NativeFacts
    <3> QED
      BY <2>18, <3>1, <3>2 DEF StartDomain
  <2>19. CASE Publish(c)
    BY <2>19 DEF Publish
  <2>20. CASE Run(c)
    <3>1. native' \in [Sessions -> SUBSET NativeFacts]
      BY <2>20, FactType DEF Run, NativeFacts
    <3>2. verdict' \in [Clients -> Verdicts]
      <4>1. verdict' = verdict
             \/ \E status \in Settled : verdict' = [verdict EXCEPT ![c].status = status]
        BY <2>20 DEF Run
      <4> QED
        BY <4>1, VerdictType
    <3> QED
      BY <2>20, <3>1, <3>2 DEF Run
  <2>21. CASE Close(c)
    <3>1. reached' \in [Clients -> SUBSET Milestones]
      BY <2>21, ReachType DEF Close, Milestones
    <3>2. native' \in [Sessions -> SUBSET NativeFacts]
      BY <2>21, FactType DEF Close, NativeFacts
    <3> QED
      BY <2>21, <3>1, <3>2 DEF Close
  <2>22. CASE Settle(c)
    <3>1. verdict' \in [Clients -> Verdicts]
      <4>1. verdict' = verdict
             \/ \E t \in Times : verdict' = [verdict EXCEPT ![c].timestamp = t]
        BY <2>22 DEF Settle
      <4> QED
        BY <4>1, VerdictType
    <3>2. pc' \in [Clients -> Steps] /\ \A d \in Clients : pc'[d] # "idle" => pc[d] # "idle"
      BY <2>22 DEF Settle, AfterEvent
    <3> QED
      BY <2>22, <3>1, <3>2 DEF Settle
  <2>23. CASE SettleJson(c)
    BY <2>23 DEF SettleJson
  <2>24. CASE Confirm(c)
    BY <2>24 DEF Confirm
  <2>25. CASE Catch(c)
    <3>1. reached' \in [Clients -> SUBSET Milestones]
      BY <2>25 DEF Catch, Milestones
    <3>2. verdict' \in [Clients -> Verdicts]
      BY <2>25 DEF Catch
    <3> QED
      BY <2>25, <3>1, <3>2 DEF Catch
  <2>26. CASE TakeReceipt(c)
    <3>1. PICK r \in ReceiptsFor(c) :
            /\ receipt' = [receipt EXCEPT ![c] = r]
            /\ Goto(c, "release") \/ Goto(c, "done")
      BY <2>26 DEF TakeReceipt
    <3>2. session[c] \in Sessions
      BY <2>26 DEF TakeReceipt
    <3>3. r \in Receipts
      BY <3>1, <3>2, ReceiptsType
    <3>4. receipt' \in [Clients -> Receipts]
      BY <3>1, <3>3
    <3> QED
      BY <2>26, <3>4 DEF TakeReceipt
  <2>27. CASE Release(c)
    BY <2>27 DEF Release
  <2>28. CASE RemoveLock(c)
    BY <2>28 DEF RemoveLock
  <2> QED
    BY <1>3, <2>2, <2>3, <2>4, <2>5, <2>6, <2>7, <2>8, <2>9, <2>10, <2>11, <2>12,
       <2>13, <2>14, <2>15, <2>16, <2>17, <2>18, <2>19, <2>20, <2>21, <2>22, <2>23,
       <2>24, <2>25, <2>26, <2>27, <2>28 DEF Continue
<1>4. ASSUME NEW c \in Clients, Return(c) \/ Crash(c)
      PROVE  CallTypeOK' /\ Attempting'
  <2>1. NoVerdict \in Verdicts
    BY DEF NoVerdict, Verdicts, Settled
  <2>2. CASE Return(c)
    BY <2>1, <2>2 DEF Return, FreshLocals, Goto, Steps
  <2>3. CASE Crash(c)
    BY <2>3 DEF Crash, Goto, Steps
  <2> QED
    BY <1>4, <2>2, <2>3
<1>5. CASE OperatorIntervenes
  BY <1>5 DEF OperatorIntervenes
<1>6. CASE UNCHANGED vars
  BY <1>6 DEF vars
<1> QED
  BY <1>2, <1>3, <1>4, <1>5, <1>6 DEF OperatedNext, Next

LEMMA InitType == Init => TypeOK /\ Attempting
<1>1. WriterInit => WriterTypeOK
  BY DEF WriterInit, WriterTypeOK, Texts, Stages
<1>2. StoreInit => StoreTypeOK
  <2>1. EmptyLog \in Log(ArtifactLines) /\ EmptyLog \in Log(ConsumptionLines)
        /\ NoLog \in Log(EventLines)
    BY EmptyLogType
  <2> QED
    BY <2>1, NoSessionType DEF StoreInit, StoreTypeOK
<1>3. Init => CallTypeOK
  BY DEF Init, CallTypeOK, Steps, NoVerdict, Verdicts, NoReceipt, Receipts, Tristate, Settled
<1> QED
  BY <1>1, <1>2, <1>3 DEF Init, TypeOK, CallTypeOK, Attempting

LEMMA TypeStep ==
    ASSUME TypeOK, Attempting, [OperatedNext]_vars
    PROVE  TypeOK' /\ Attempting'
<1>1. WriterTypeOK'
  BY LockStep, WriterTypeStep DEF TypeOK
<1> QED
  BY <1>1, StoreTypeStep, CallTypeStep DEF TypeOK, CallTypeOK

(* Every variable keeps its type, also with an operator at work.             *)
THEOREM TypeCorrect == OperatedSpec => [](TypeOK /\ Attempting)
<1> QED
  BY InitType, TypeStep, PTL DEF OperatedSpec

(* The invocations respect the lock: their specification implements that of  *)
(* TaskWriter, of which they are the callbacks.                              *)
THEOREM CallsRespectLock == OperatedSpec => WriterSpec
<1>1. Init => WriterInit
  BY DEF Init
<1> QED
  BY <1>1, TypeCorrect, LockStep, PTL DEF OperatedSpec, WriterSpec

LEMMA SpecIsOperated == Spec => OperatedSpec
<1>1. [Next]_vars => [OperatedNext]_vars
  BY DEF OperatedNext
<1> QED
  BY <1>1, PTL DEF Spec, OperatedSpec

-----------------------------------------------------------------------------
(* The step of one client. *)
ClientStep(c) == Begin(c) \/ Continue(c) \/ Return(c) \/ Crash(c)

(* A client's step leaves what the others keep of their calls.               *)
LEMMA OthersKeepTheirs ==
    ASSUME TypeOK, NEW c \in Clients, ClientStep(c), NEW d \in Clients, d # c
    PROVE  /\ pc'[d] = pc[d] /\ session'[d] = session[d]
           /\ reached'[d] = reached[d] /\ receipt'[d] = receipt[d]
           /\ stage'[d] = stage[d] /\ keep'[d] = keep[d]
<1> USE DEF TypeOK, WriterTypeOK, Goto, Reach, callVars, writerVars
<1>1. CASE Begin(c) \/ Return(c) \/ Crash(c)
  BY <1>1 DEF Begin, FreshLocals, Return, Crash, Die
<1>2. CASE Continue(c)
  <2>1. CASE Acquire(c) \/ TurnedAway(c) \/ PersistOwner(c)
    BY <2>1 DEF Acquire, Open, TurnedAway, PersistOwner, WriteOwner, NotAttempted
  <2>2. CASE Inspect(c)
    BY <2>2 DEF Inspect, RetainLock, Retain, Leave, NotAttempted
  <2>3. CASE Prepare(c) \/ EnterHost(c) \/ Validate(c) \/ Launch(c) \/ CheckInputs(c)
    BY <2>3 DEF Prepare, EnterHost, Validate, Launch, CheckInputs
  <2>4. CASE MakeDirectory(c) \/ WriteSession(c) \/ CreateLog(c) \/ LogStarted(c)
    BY <2>4 DEF MakeDirectory, WriteSession, CreateLog, LogStarted, OrCatch
  <2>5. CASE Initialize(c) \/ Consume(c) \/ ConsumedAll(c) \/ StartDomain(c)
    BY <2>5 DEF Initialize, Consume, ConsumedAll, StartDomain
  <2>6. CASE Publish(c) \/ Run(c) \/ Close(c)
    BY <2>6 DEF Publish, Run, Close
  <2>7. CASE Settle(c) \/ SettleJson(c) \/ Confirm(c) \/ Catch(c)
    BY <2>7 DEF Settle, AfterEvent, SettleFails, SettleJson, Confirm, Catch
  <2>8. CASE TakeReceipt(c)
    BY <2>8 DEF TakeReceipt, Leave
  <2>9. CASE Release(c) \/ RemoveLock(c)
    BY <2>9 DEF Release, CheckOwner, RemoveLock, Unlink
  <2> QED
    BY <1>2, <2>1, <2>2, <2>3, <2>4, <2>5, <2>6, <2>7, <2>8, <2>9 DEF Continue
<1> QED
  BY <1>1, <1>2 DEF ClientStep

(* Only the steps of executeSession from the launch on touch files or the    *)
(* native side, and only what belongs to the call's own Session.             *)
LEMMA Footprint ==
    ASSUME TypeOK, NEW c \in Clients, ClientStep(c)
    PROVE  /\ pc[c] \notin Executing => UNCHANGED storeVars
           /\ pc[c] \notin Executing \cup {"launch"} => UNCHANGED native
           /\ \A s \in Sessions \ {session[c]} :
                 /\ sessionFile'[s] = sessionFile[s]
                 /\ events'[s] = events[s]
                 /\ native'[s] = native[s]
<1> USE DEF TypeOK, StoreTypeOK, Goto, Fact, storeVars, Executing
<1>1. CASE Begin(c) \/ Return(c) \/ Crash(c)
  BY <1>1 DEF Begin, Return, Crash
<1>2. CASE Continue(c)
  <2>1. CASE UNCHANGED <<storeVars, native>>
    BY <2>1
  <2>2. CASE Launch(c) \/ Initialize(c) \/ Close(c) \/ Run(c)
    BY <2>2 DEF Launch, Initialize, Close, Run
  <2>3. CASE MakeDirectory(c) \/ WriteSession(c) \/ CreateLog(c) \/ LogStarted(c)
    BY <2>3 DEF MakeDirectory, MakeSessionDirectory, WriteSession, CreateSessionJson,
                CreateLog, CreateEventLog, LogStarted, AppendEvent
  <2>4. CASE Consume(c)
    BY <2>4 DEF Consume, AppendConsumption
  <2>5. CASE StartDomain(c)
    BY <2>5 DEF StartDomain, AppendEvent
  <2>6. CASE Publish(c)
    BY <2>6 DEF Publish, PublishArtifact
  <2>7. CASE Settle(c) \/ SettleJson(c)
    BY <2>7 DEF Settle, AppendEvent, SettleJson, ReplaceSessionJson
  <2>8. \/ UNCHANGED <<storeVars, native>>
        \/ Launch(c) \/ Initialize(c) \/ Close(c) \/ Run(c)
        \/ MakeDirectory(c) \/ WriteSession(c) \/ CreateLog(c) \/ LogStarted(c)
        \/ Consume(c) \/ StartDomain(c) \/ Publish(c) \/ Settle(c) \/ SettleJson(c)
    BY <1>2
       DEF Continue, Acquire, TurnedAway, PersistOwner, Inspect, Prepare, EnterHost,
           Validate, CheckInputs, ConsumedAll, Confirm, Catch, TakeReceipt, Release,
           RemoveLock
  <2> QED
    BY <2>1, <2>2, <2>3, <2>4, <2>5, <2>6, <2>7, <2>8
<1> QED
  BY <1>1, <1>2 DEF ClientStep
(* A client's step leaves the other locals of the others alone as well.      *)
LEMMA OthersKeepLocals ==
    ASSUME TypeOK, NEW c \in Clients, ClientStep(c), NEW d \in Clients, d # c
    PROVE  /\ plan'[d] = plan[d] /\ next'[d] = next[d]
           /\ verdict'[d] = verdict[d] /\ entry'[d] = entry[d]
<1> USE DEF TypeOK, callVars
<1>1. CASE Begin(c) \/ Return(c) \/ Crash(c)
  BY <1>1 DEF Begin, FreshLocals, Return, Crash
<1>2. CASE Prepare(c)
  BY <1>2 DEF Prepare
<1>3. CASE Consume(c)
  BY <1>3 DEF Consume, Advance
<1>4. CASE Run(c) \/ Settle(c) \/ Catch(c)
  BY <1>4 DEF Run, Settle, Catch
<1>5. CASE UNCHANGED callVars
  BY <1>5
<1>6. \/ Begin(c) \/ Return(c) \/ Crash(c) \/ Prepare(c) \/ Consume(c)
      \/ Run(c) \/ Settle(c) \/ Catch(c) \/ UNCHANGED callVars
  BY DEF ClientStep, Continue, Acquire, TurnedAway, PersistOwner, Inspect, EnterHost,
         Validate, Launch, CheckInputs, MakeDirectory, WriteSession, CreateLog,
         LogStarted, Initialize, ConsumedAll, StartDomain, Publish, Close,
         SettleJson, Confirm, TakeReceipt, Release, RemoveLock
<1> QED
  BY <1>1, <1>2, <1>3, <1>4, <1>5, <1>6

LEMMA FactGrows ==
    ASSUME TypeOK, NEW s \in Sessions, NEW fact, Fact(s, fact)
    PROVE  /\ native'[s] = native[s] \cup {fact}
           /\ \A t \in Sessions : native[t] \subseteq native'[t]
<1>1. native \in [Sessions -> SUBSET NativeFacts]
  BY DEF TypeOK
<1> QED
  BY <1>1 DEF Fact

(* What happened on the native side stays.                                   *)
LEMMA NativeGrows ==
    ASSUME TypeOK, Attempting, NEW c \in Clients, ClientStep(c), NEW s \in Sessions
    PROVE  native[s] \subseteq native'[s]
<1>1. CASE native' = native
  BY <1>1
<1>2. CASE pc[c] # "idle" /\ \E fact \in NativeFacts : Fact(session[c], fact)
  BY <1>2, FactGrows DEF Attempting
<1>3. native' = native \/ (pc[c] # "idle" /\ \E fact \in NativeFacts : Fact(session[c], fact))
  BY DEF ClientStep, Continue, Begin, Return, Crash, Acquire, TurnedAway,
         PersistOwner, Inspect, Prepare, EnterHost, Validate, Launch, CheckInputs,
         MakeDirectory, WriteSession, CreateLog, LogStarted, Initialize, Consume,
         ConsumedAll, StartDomain, Publish, Run, Close, Settle, SettleJson, Confirm,
         Catch, TakeReceipt, Release, RemoveLock, callVars, NativeFacts
<1> QED
  BY <1>1, <1>2, <1>3

(* No two calls have the same Session.                                       *)
OneCallEach ==
    \A c, d \in Clients : session[c] = session[d] /\ session[c] \in Sessions => c = d

LEMMA OneCallStep ==
    ASSUME TypeOK, OneCallEach, [OperatedNext]_vars
    PROVE  OneCallEach'
<1>1. ASSUME NEW c \in Clients, ClientStep(c)
      PROVE  OneCallEach'
  <2>1. \/ session' = session
        \/ session'[c] = NoSessionId
        \/ \A d \in Clients : session[d] # session'[c]
    BY <1>1
       DEF TypeOK, ClientStep, Continue, Begin, Return, Crash, Acquire, TurnedAway,
           PersistOwner, Inspect, Prepare, EnterHost, Validate, Launch, CheckInputs,
           MakeDirectory, WriteSession, CreateLog, LogStarted, Initialize, Consume,
           ConsumedAll, StartDomain, Publish, Run, Close, Settle, SettleJson, Confirm,
           Catch, TakeReceipt, Release, RemoveLock, callVars
  <2> QED
    BY <1>1, <2>1, OthersKeepTheirs, NoSessionIdAssumption DEF OneCallEach
<1>2. CASE OperatorIntervenes
  BY <1>2 DEF OperatorIntervenes, callVars, OneCallEach
<1>3. CASE UNCHANGED vars
  BY <1>3 DEF vars, callVars, OneCallEach
<1> QED
  BY <1>1, <1>2, <1>3 DEF OperatedNext, Next, ClientStep

(* Nobody else touches the Session of a call.                                *)
LEMMA OthersKeepSession ==
    ASSUME TypeOK, Attempting, OneCallEach, NEW c \in Clients, ClientStep(c),
           NEW d \in Clients, d # c, pc[d] # "idle"
    PROVE  /\ sessionFile'[session[d]] = sessionFile[session[d]]
           /\ events'[session[d]] = events[session[d]]
           /\ native'[session[d]] = native[session[d]]
<1>1. session[d] \in Sessions /\ session[d] # session[c]
  BY DEF Attempting, OneCallEach
<1> QED
  BY <1>1, Footprint

(* From its execution on, a call has entered the host.                       *)
EnteredBeforeExecution ==
    \A c \in Clients :
        pc[c] \in {"validate", "launch"} \cup Executing => "entered" \in reached[c]

(* The steps of executeSession from the launch on.                           *)
LEMMA ExecutionStep ==
    ASSUME TypeOK, EnteredBeforeExecution, NEW c \in Clients, ClientStep(c),
           pc[c] \in Executing \cup {"launch"}
    PROVE  /\ pc'[c] \in Executing \cup {"receipt", "dead"}
           /\ lockOwner' = lockOwner
           /\ session'[c] = session[c]
           /\ "entered" \in reached'[c]
<1>0. "entered" \in reached[c]
  BY DEF EnteredBeforeExecution
<1> USE <1>0 DEF TypeOK, Goto, Reach, Executing, callVars, writerVars
<1>1. CASE Crash(c)
  BY <1>1 DEF Crash, Die
<1>2. CASE Launch(c) \/ CheckInputs(c)
  BY <1>2 DEF Launch, CheckInputs
<1>3. CASE MakeDirectory(c) \/ WriteSession(c) \/ CreateLog(c) \/ LogStarted(c)
  BY <1>3 DEF MakeDirectory, WriteSession, CreateLog, LogStarted, OrCatch
<1>4. CASE Initialize(c) \/ Consume(c) \/ ConsumedAll(c) \/ StartDomain(c)
  BY <1>4 DEF Initialize, Consume, ConsumedAll, StartDomain
<1>5. CASE Publish(c) \/ Run(c) \/ Close(c)
  BY <1>5 DEF Publish, Run, Close
<1>6. CASE Settle(c) \/ SettleJson(c)
  <2>1. /\ UNCHANGED <<writerVars, session, reached>>
        /\ \E step \in {"settle-json", "catch", "confirm", "receipt"} : Goto(c, step)
    BY <1>6 DEF Settle, AfterEvent, SettleFails, SettleJson
  <2> QED
    BY <2>1
<1>7. CASE Confirm(c) \/ Catch(c)
  BY <1>7 DEF Confirm, Catch
<1> QED
  BY <1>1, <1>2, <1>3, <1>4, <1>5, <1>6, <1>7
     DEF ClientStep, Continue, Begin, Return, Acquire, TurnedAway, PersistOwner, Inspect,
         Prepare, EnterHost, Validate, TakeReceipt, Release, RemoveLock

LEMMA EnteredStep ==
    ASSUME TypeOK, EnteredBeforeExecution, [OperatedNext]_vars
    PROVE  EnteredBeforeExecution'
<1>1. ASSUME NEW c \in Clients, ClientStep(c)
      PROVE  EnteredBeforeExecution'
  <2>1. CASE pc[c] \in Executing \cup {"launch"}
    BY <1>1, <2>1, ExecutionStep, OthersKeepTheirs DEF EnteredBeforeExecution
  <2>2. CASE pc[c] \notin Executing \cup {"launch"}
    <3>1. pc'[c] \in {"validate", "launch"} \cup Executing => "entered" \in reached'[c]
      <4> USE DEF TypeOK, Goto, Executing, callVars
      <4>1. CASE Begin(c) \/ Return(c) \/ Crash(c)
        BY <4>1 DEF Begin, Return, Crash
      <4>2. CASE Acquire(c) \/ TurnedAway(c) \/ PersistOwner(c) \/ Inspect(c) \/ Prepare(c)
        BY <4>2 DEF Acquire, TurnedAway, PersistOwner, Inspect, Prepare
      <4>3. CASE EnterHost(c)
        BY <4>3 DEF EnterHost, Reach
      <4>4. CASE Validate(c)
        BY <4>4 DEF Validate, EnteredBeforeExecution
      <4>5. CASE TakeReceipt(c) \/ Release(c) \/ RemoveLock(c)
        BY <4>5 DEF TakeReceipt, Release, RemoveLock
      <4> QED
        BY <1>1, <2>2, <4>1, <4>2, <4>3, <4>4, <4>5
           DEF ClientStep, Continue, Launch, CheckInputs, MakeDirectory, WriteSession,
               CreateLog, LogStarted, Initialize, Consume, ConsumedAll, StartDomain,
               Publish, Run, Close, Settle, SettleJson, Confirm, Catch
    <3> QED
      BY <1>1, <3>1, OthersKeepTheirs DEF EnteredBeforeExecution
  <2> QED
    BY <2>1, <2>2
<1>2. CASE OperatorIntervenes
  BY <1>2 DEF OperatorIntervenes, EnteredBeforeExecution
<1>3. CASE UNCHANGED vars
  BY <1>3 DEF vars, EnteredBeforeExecution
<1> QED
  BY <1>1, <1>2, <1>3 DEF OperatedNext, Next, ClientStep

-----------------------------------------------------------------------------
(* The first layer of the inductive invariant: what the flags of a call say  *)
(* of the native side, and that a Session the native side never saw has no   *)
(* file.                                                                     *)
BeforeConsuming ==
    {"open", "own", "inspect", "prepare", "enter", "validate", "launch", "resolve",
     "mkdir", "json", "log", "started", "initialize"}

FlagsTell(c) ==
    /\ pc[c] \in BeforeConsuming => next[c] = 1
    /\ next[c] >= 1
    /\ pc[c] \in {"open", "own", "inspect", "prepare", "enter"} => reached[c] = {}
    /\ pc[c] \in {"validate", "launch"} => native[session[c]] = {}
    /\ pc[c] \in Executing => "launched" \in native[session[c]]
    /\ pc[c] # "idle" =>
          /\ native[session[c]] # {} => "entered" \in reached[c]
          /\ "run" \in native[session[c]] => "domain" \in reached[c]

Unseen(s) == native[s] = {} => sessionFile[s].status = "absent"

Flags == /\ \A c \in Clients : FlagsTell(c)
         /\ \A s \in Sessions : Unseen(s)

LEMMA FlagsStep ==
    ASSUME TypeOK, Attempting, OneCallEach, EnteredBeforeExecution, Flags,
           [OperatedNext]_vars
    PROVE  Flags'
<1>1. ASSUME NEW c \in Clients, ClientStep(c)
      PROVE  Flags'
  <2>1. FlagsTell(c) /\ (pc[c] # "idle" => session[c] \in Sessions)
    BY DEF Flags, Attempting
  <2>2. FlagsTell(c)'
    <3> USE <2>1 DEF TypeOK, FlagsTell, BeforeConsuming, Goto, Executing, callVars
    <3>1. CASE Begin(c)
      BY <3>1 DEF Begin, FreshLocals
    <3>2. CASE Return(c) \/ Crash(c)
      BY <3>2 DEF Return, FreshLocals, Crash
    <3>3. CASE Acquire(c) \/ TurnedAway(c) \/ PersistOwner(c) \/ Inspect(c)
      BY <3>3 DEF Acquire, TurnedAway, PersistOwner, Inspect
    <3>4. CASE Prepare(c) \/ EnterHost(c) \/ Validate(c) \/ CheckInputs(c)
      BY <3>4 DEF Prepare, EnterHost, Reach, Validate, CheckInputs
    <3>5. CASE Launch(c)
      BY <3>5 DEF Launch, Fact, EnteredBeforeExecution
    <3>6. CASE MakeDirectory(c) \/ WriteSession(c) \/ CreateLog(c) \/ LogStarted(c)
      BY <3>6 DEF MakeDirectory, WriteSession, CreateLog, LogStarted, OrCatch, Reach
    <3>7. CASE Initialize(c)
      BY <2>1, <3>7, FactGrows DEF Initialize
    <3>8. CASE Consume(c) \/ ConsumedAll(c)
      BY <3>8 DEF Consume, Advance, ConsumedAll
    <3>9. CASE StartDomain(c)
      <4>1. CASE Reach(c, "domain") /\ Fact(session[c], "run") /\ Goto(c, "run")
        BY <2>1, <3>9, <4>1, FactGrows DEF StartDomain, Reach
      <4>2. CASE UNCHANGED <<reached, native>> /\ Goto(c, "catch")
        BY <3>9, <4>2 DEF StartDomain
      <4> QED
        BY <3>9, <4>1, <4>2 DEF StartDomain
    <3>10. CASE Publish(c) \/ Run(c) \/ Close(c)
      <4>1. \/ native' = native
            \/ Fact(session[c], "completed")
            \/ Fact(session[c], "closed")
        BY <3>10 DEF Publish, Run, Close
      <4>2. /\ native[session[c]] \subseteq native'[session[c]]
            /\ native'[session[c]] \subseteq native[session[c]] \cup {"completed", "closed"}
        BY <2>1, <3>10, <4>1, FactGrows DEF Publish, Run, Close
      <4>3. /\ UNCHANGED <<session, next>> /\ reached[c] \subseteq reached'[c]
            /\ pc[c] \in {"run", "close"} /\ pc'[c] \in {"run", "close", "settle", "catch"}
        BY <3>10 DEF Publish, Run, Close, Reach
      <4>4. "entered" \in reached[c]
        BY <4>3 DEF EnteredBeforeExecution
      <4> QED
        BY <4>2, <4>3, <4>4
    <3>11. CASE Settle(c) \/ SettleJson(c)
      <4>1. /\ UNCHANGED <<session, reached, next, native>> /\ pc[c] \in Executing
            /\ \E step \in {"settle-json", "catch", "confirm", "receipt"} : Goto(c, step)
        BY <3>11 DEF Settle, AfterEvent, SettleFails, SettleJson
      <4> QED
        BY <4>1
    <3>12. CASE Confirm(c) \/ Catch(c)
      BY <3>12 DEF Confirm, Catch
    <3>13. CASE TakeReceipt(c) \/ Release(c) \/ RemoveLock(c)
      BY <3>13 DEF TakeReceipt, Release, RemoveLock
    <3> QED
      BY <1>1, <3>1, <3>2, <3>3, <3>4, <3>5, <3>6, <3>7, <3>8, <3>9, <3>10, <3>11,
         <3>12, <3>13 DEF ClientStep, Continue
  <2>3. ASSUME NEW d \in Clients, d # c
        PROVE  FlagsTell(d)'
    <3>1. FlagsTell(d)
      BY DEF Flags
    <3> QED
      BY <1>1, <2>3, <3>1, OthersKeepTheirs, OthersKeepLocals, OthersKeepSession
         DEF FlagsTell, BeforeConsuming, Executing
  <2>4. ASSUME NEW s \in Sessions
        PROVE  Unseen(s)'
    <3>1. CASE s = session[c] /\ pc[c] \in Executing
      BY <1>1, <2>1, <3>1, NativeGrows DEF FlagsTell, Unseen
    <3>2. CASE s # session[c] \/ pc[c] \notin Executing
      BY <1>1, <3>2, Footprint, NativeGrows DEF Flags, Unseen, storeVars
    <3> QED
      BY <3>1, <3>2
  <2> QED
    BY <2>2, <2>3, <2>4 DEF Flags
<1>2. CASE OperatorIntervenes
  BY <1>2 DEF OperatorIntervenes, callVars, storeVars, Flags, FlagsTell, Unseen
<1>3. CASE UNCHANGED vars
  BY <1>3 DEF vars, callVars, storeVars, Flags, FlagsTell, Unseen
<1> QED
  BY <1>1, <1>2, <1>3 DEF OperatedNext, Next, ClientStep

LEMMA FlagsAlways ==
    OperatedSpec => [](OneCallEach /\ EnteredBeforeExecution /\ Flags)
<1>1. Init => OneCallEach /\ EnteredBeforeExecution /\ Flags
  BY NoSessionIdAssumption
     DEF Init, StoreInit, NoSession, OneCallEach, EnteredBeforeExecution, Executing,
         Flags, FlagsTell, Unseen
<1> QED
  BY <1>1, TypeCorrect, OneCallStep, EnteredStep, FlagsStep, PTL DEF OperatedSpec
(* What a step that leaves a Session's files alone leaves of its outcome.    *)
LEMMA ConfirmedSame ==
    ASSUME NEW s \in Sessions, sessionFile'[s] = sessionFile[s], events'[s] = events[s]
    PROVE  Confirmed(s)' <=> Confirmed(s)
BY DEF Confirmed, Terminals

-----------------------------------------------------------------------------
(* A log only grows: what was read stays, and damage is never repaired.      *)
Grows(before, after) ==
    after.intact =>
        /\ before.intact
        /\ \A i \in DOMAIN before.lines :
              i \in DOMAIN after.lines /\ after.lines[i] = before.lines[i]

LEMMA AppendedGrows ==
    ASSUME NEW Line, NEW log \in Log(Line), NEW line \in Line, NEW outcome \in Outcomes
    PROVE  /\ Grows(log, Appended(log, line, outcome))
           /\ outcome = "ok" /\ Appended(log, line, outcome).intact =>
                 \E i \in DOMAIN Appended(log, line, outcome).lines :
                     Appended(log, line, outcome).lines[i] = line
<1>1. /\ log = [lines |-> log.lines, intact |-> log.intact]
      /\ log.lines \in Seq(Line)
      /\ log.intact \in BOOLEAN
  BY DEF Log
<1>2. CASE Written(outcome) /\ log.intact
  <2>1. /\ Appended(log, line, outcome).lines = Append(log.lines, line)
        /\ Appended(log, line, outcome).intact = log.intact
    BY <1>1, <1>2 DEF Appended
  <2>2. /\ DOMAIN Append(log.lines, line) = 1 .. Len(log.lines) + 1
        /\ DOMAIN log.lines = 1 .. Len(log.lines) /\ Len(log.lines) \in Nat
        /\ \A i \in DOMAIN log.lines : Append(log.lines, line)[i] = log.lines[i]
        /\ Append(log.lines, line)[Len(log.lines) + 1] = line
    BY <1>1
  <2> QED
    BY <1>2, <2>1, <2>2 DEF Grows
<1>3. CASE ~(Written(outcome) /\ log.intact)
  BY <1>1, <1>3 DEF Appended, Grows, Written
<1> QED
  BY <1>2, <1>3

(* How a step of a call changes its Session's event log.                     *)
LEMMA EventsStep ==
    ASSUME TypeOK, Attempting, NEW c \in Clients, ClientStep(c), pc[c] \in Executing
    PROVE  \/ events' = events
           \/ pc[c] = "log"
           \/ /\ pc[c] \in {"started", "consume", "domain", "run", "settle"}
              /\ Grows(events[session[c]], events'[session[c]])
<1>0. session[c] \in Sessions /\ events[session[c]] \in Log(EventLines)
      /\ events \in [Sessions -> Log(EventLines)]
      /\ \A type \in CoreEvents, t \in Times \cup {NoTime} : EventLine(type, t) \in EventLines
  BY EventLineType DEF Attempting, Executing, TypeOK, StoreTypeOK
<1>1. ASSUME NEW type \in CoreEvents, NEW t \in Times \cup {NoTime}, NEW outcome \in Outcomes,
             events' = [events EXCEPT ![session[c]] = Appended(@, EventLine(type, t), outcome)]
      PROVE  Grows(events[session[c]], events'[session[c]])
  BY <1>0, <1>1, AppendedGrows
<1>2. CASE LogStarted(c)
  <2>1. "session.started" \in CoreEvents
    BY DEF CoreEvents
  <2> QED
    BY <1>1, <1>2, <2>1 DEF LogStarted, AppendEvent
<1>3. CASE Consume(c)
  <2>1. "artifact.consumed" \in CoreEvents
    BY DEF CoreEvents
  <2> QED
    BY <1>1, <1>3, <2>1 DEF Consume, AppendConsumption, storeVars
<1>4. CASE StartDomain(c)
  <2>1. "runtime.loom.domain-started" \in CoreEvents
    BY DEF CoreEvents
  <2> QED
    BY <1>1, <1>4, <2>1 DEF StartDomain, AppendEvent, storeVars
<1>5. CASE Publish(c)
  <2>1. "artifact.published" \in CoreEvents
    BY DEF CoreEvents
  <2> QED
    BY <1>1, <1>5, <2>1 DEF Publish, PublishArtifact
<1>6. CASE Settle(c)
  BY <1>1, <1>6, TerminalTypeType DEF Settle, AppendEvent, storeVars
<1>7. CASE events' = events
  BY <1>7
<1>8. CASE CreateLog(c)
  BY <1>8 DEF CreateLog
<1>9. \/ LogStarted(c) \/ Consume(c) \/ StartDomain(c) \/ Publish(c) \/ Settle(c)
      \/ CreateLog(c) \/ events' = events
  BY DEF ClientStep, Continue, Begin, Return, Crash, Acquire, TurnedAway, PersistOwner,
         Inspect, Prepare, EnterHost, Validate, Launch, CheckInputs, MakeDirectory,
         MakeSessionDirectory, WriteSession, CreateSessionJson, Initialize, ConsumedAll,
         Run, Close, SettleJson, ReplaceSessionJson, Confirm, Catch, TakeReceipt,
         Release, RemoveLock, storeVars
<1> QED
  BY <1>2, <1>3, <1>4, <1>5, <1>6, <1>7, <1>8, <1>9

(* How a step of a call changes its session.json.                            *)
LEMMA FileStep ==
    ASSUME TypeOK, Attempting, NEW c \in Clients, ClientStep(c), pc[c] \in Executing
    PROVE  \/ sessionFile'[session[c]] = sessionFile[session[c]]
           \/ /\ pc[c] = "mkdir"
              /\ sessionFile[session[c]].status = "absent"
              /\ sessionFile'[session[c]] =
                    [sessionFile[session[c]] EXCEPT !.status = "directory"]
           \/ /\ pc[c] = "json"
              /\ sessionFile[session[c]].status = "directory"
              /\ sessionFile'[session[c]] =
                    [sessionFile[session[c]] EXCEPT !.status = "partial"]
           \/ /\ pc[c] = "json"
              /\ sessionFile[session[c]].status = "directory"
              /\ sessionFile'[session[c]] =
                    [NoSession EXCEPT !.status = "running", !.entry = entry[c],
                                      !.inputs = plan[c]]
           \/ /\ pc[c] = "settle-json"
              /\ sessionFile'[session[c]] =
                    [sessionFile[session[c]] EXCEPT !.status = verdict[c].status,
                         !.finished = verdict[c].timestamp,
                         !.started = StartedDiagnostic(c)]
<1>0. session[c] \in Sessions /\ sessionFile \in [Sessions -> SessionFiles]
  BY DEF Attempting, Executing, TypeOK, StoreTypeOK
<1>1. CASE MakeDirectory(c)
  BY <1>0, <1>1 DEF MakeDirectory, MakeSessionDirectory
<1>2. CASE WriteSession(c)
  BY <1>0, <1>2 DEF WriteSession, CreateSessionJson
<1>3. CASE SettleJson(c)
  BY <1>0, <1>3 DEF SettleJson, ReplaceSessionJson
<1>4. CASE sessionFile' = sessionFile
  BY <1>4
<1>5. MakeDirectory(c) \/ WriteSession(c) \/ SettleJson(c) \/ sessionFile' = sessionFile
  BY DEF ClientStep, Continue, Begin, Return, Crash, Acquire, TurnedAway, PersistOwner,
         Inspect, Prepare, EnterHost, Validate, Launch, CheckInputs, CreateLog,
         CreateEventLog, LogStarted, AppendEvent, Initialize, Consume, AppendConsumption,
         ConsumedAll, StartDomain, Publish, PublishArtifact, Run, Close, Settle, Confirm,
         Catch, TakeReceipt, Release, RemoveLock, storeVars
<1> QED
  BY <1>1, <1>2, <1>3, <1>4, <1>5

-----------------------------------------------------------------------------
(* The second layer: a call writes to a Session that runs, and the state it  *)
(* is about to publish has its terminal event in the log.                    *)
Ends(log, status) ==
    \E i \in DOMAIN log.lines : log.lines[i].type = TerminalType(status)

WritesWhileRunning ==
    \A c \in Clients :
        /\ pc[c] \in {"log", "started", "settle-json"} =>
              sessionFile[session[c]].status = "running"
        /\ pc[c] = "settle-json" /\ events[session[c]].intact =>
              Ends(events[session[c]], verdict[c].status)

(* What a log that grew still shows.                                         *)
LEMMA EndStays ==
    ASSUME NEW before, NEW after, Grows(before, after), after.intact,
           NEW status, Ends(before, status)
    PROVE  Ends(after, status)
BY DEF Grows, Ends

LEMMA SettleLogs ==
    ASSUME TypeOK, Attempting, NEW c \in Clients, Settle(c), pc'[c] = "settle-json",
           events'[session[c]].intact
    PROVE  Ends(events'[session[c]], verdict'[c].status)
<1>1. /\ session[c] \in Sessions
      /\ events \in [Sessions -> Log(EventLines)]
      /\ verdict \in [Clients -> Verdicts]
      /\ pc \in [Clients -> Steps]
  BY DEF Settle, Attempting, TypeOK, StoreTypeOK
<1>2. PICK t \in Times, outcome \in Outcomes :
         /\ verdict' = [verdict EXCEPT ![c].timestamp = t]
         /\ AppendEvent(session[c], EventLine(TerminalType(verdict[c].status), t), outcome)
         /\ AfterEvent(c, outcome)
  BY <1>1 DEF Settle, SettleFails, Goto
<1>3. outcome = "ok"
  BY <1>1, <1>2 DEF AfterEvent, SettleFails, Goto
<1>4. verdict'[c].status = verdict[c].status /\ verdict[c].status \in Settled
  BY <1>1, <1>2 DEF Verdicts
<1> DEFINE line == EventLine(TerminalType(verdict[c].status), t)
<1>5. line \in EventLines
  BY EventLineType, TerminalTypeType
<1>6. events'[session[c]] = Appended(events[session[c]], line, outcome)
  BY <1>1, <1>2 DEF AppendEvent
<1>7. PICK i \in DOMAIN events'[session[c]].lines : events'[session[c]].lines[i] = line
  BY <1>1, <1>3, <1>5, <1>6, AppendedGrows
<1> QED
  BY <1>4, <1>7 DEF EventLine, Ends

LEMMA WritesStep ==
    ASSUME TypeOK, Attempting, OneCallEach, WritesWhileRunning, [OperatedNext]_vars
    PROVE  WritesWhileRunning'
<1>1. ASSUME NEW c \in Clients, ClientStep(c)
      PROVE  WritesWhileRunning'
  <2>1. pc'[c] \in {"log", "started", "settle-json"} =>
           /\ sessionFile'[session'[c]].status = "running"
           /\ pc'[c] = "settle-json" => Settle(c)
    <3> USE DEF TypeOK, StoreTypeOK, WritesWhileRunning, Goto, callVars
    <3>1. CASE Begin(c) \/ Return(c) \/ Crash(c)
      BY <3>1 DEF Begin, Return, Crash
    <3>2. CASE Acquire(c) \/ TurnedAway(c) \/ PersistOwner(c) \/ Inspect(c) \/ Prepare(c)
      BY <3>2 DEF Acquire, TurnedAway, PersistOwner, Inspect, Prepare
    <3>3. CASE EnterHost(c) \/ Validate(c) \/ Launch(c) \/ CheckInputs(c) \/ MakeDirectory(c)
      BY <3>3 DEF EnterHost, Validate, Launch, CheckInputs, MakeDirectory, OrCatch
    <3>4. CASE WriteSession(c)
      <4>1. CASE pc'[c] = "log"
        <5>1. session[c] \in Sessions /\ session' = session
          BY <3>4 DEF WriteSession, Attempting
        <5>2. CreateSessionJson(session[c], entry[c], plan[c], "ok")
          BY <3>4, <4>1 DEF WriteSession, OrCatch
        <5> QED
          BY <3>4, <4>1, <5>1, <5>2 DEF CreateSessionJson, Written
      <4>2. CASE pc'[c] # "log"
        BY <3>4, <4>2 DEF WriteSession, OrCatch
      <4> QED
        BY <4>1, <4>2
    <3>5. CASE CreateLog(c)
      BY <3>5 DEF CreateLog, CreateEventLog, OrCatch
    <3>6. CASE LogStarted(c) \/ Initialize(c) \/ ConsumedAll(c) \/ StartDomain(c)
      BY <3>6 DEF LogStarted, OrCatch, Initialize, ConsumedAll, StartDomain
    <3>7. CASE Consume(c) \/ Publish(c) \/ Run(c) \/ Close(c) \/ Confirm(c) \/ Catch(c)
      BY <3>7 DEF Consume, Publish, Run, Close, Confirm, Catch
    <3>8. CASE Settle(c)
      BY <3>8 DEF Settle, AfterEvent, SettleFails, AppendEvent, StillRunning
    <3>9. CASE SettleJson(c)
      BY <3>9 DEF SettleJson, SettleFails
    <3>10. CASE TakeReceipt(c) \/ Release(c) \/ RemoveLock(c)
      BY <3>10 DEF TakeReceipt, Release, RemoveLock
    <3> QED
      BY <1>1, <3>1, <3>2, <3>3, <3>4, <3>5, <3>6, <3>7, <3>8, <3>9, <3>10
         DEF ClientStep, Continue
  <2>2. ASSUME pc'[c] = "settle-json", events'[session'[c]].intact
        PROVE  Ends(events'[session'[c]], verdict'[c].status)
    <3>1. Settle(c) /\ session' = session
      BY <2>1, <2>2 DEF Settle
    <3> QED
      BY <2>2, <3>1, SettleLogs
  <2>3. ASSUME NEW d \in Clients, d # c, pc[d] \in {"log", "started", "settle-json"}
        PROVE  /\ session'[d] = session[d] /\ verdict'[d] = verdict[d] /\ pc'[d] = pc[d]
               /\ sessionFile'[session[d]] = sessionFile[session[d]]
               /\ events'[session[d]] = events[session[d]]
    BY <1>1, <2>3, OthersKeepTheirs, OthersKeepLocals, OthersKeepSession
  <2>4. ASSUME NEW d \in Clients, d # c
        PROVE  pc'[d] = pc[d]
    BY <1>1, <2>4, OthersKeepTheirs
  <2> SUFFICES ASSUME NEW d \in Clients
               PROVE  /\ pc'[d] \in {"log", "started", "settle-json"} =>
                            sessionFile'[session'[d]].status = "running"
                      /\ pc'[d] = "settle-json" /\ events'[session'[d]].intact =>
                            Ends(events'[session'[d]], verdict'[d].status)
    BY DEF WritesWhileRunning, Ends
  <2>5. CASE d = c
    BY <2>1, <2>2, <2>5
  <2>6. CASE d # c
    BY <2>3, <2>4, <2>6 DEF WritesWhileRunning
  <2> QED
    BY <2>5, <2>6
<1>2. CASE OperatorIntervenes
  BY <1>2 DEF OperatorIntervenes, callVars, storeVars, WritesWhileRunning, Ends
<1>3. CASE UNCHANGED vars
  BY <1>3 DEF vars, callVars, storeVars, WritesWhileRunning, Ends
<1> QED
  BY <1>1, <1>2, <1>3 DEF OperatedNext, Next, ClientStep

LEMMA TerminalStep ==
    ASSUME TypeOK, Attempting, WritesWhileRunning, TerminalEventFirst, [OperatedNext]_vars
    PROVE  TerminalEventFirst'
<1>1. ASSUME NEW c \in Clients, ClientStep(c), NEW s \in Sessions,
             sessionFile'[s].status \in Settled, events'[s].intact
      PROVE  \E i \in Terminals(s)' :
                 events'[s].lines[i].type = TerminalType(sessionFile'[s].status)
  <2>1. CASE s # session[c] \/ pc[c] \notin Executing
    <3>1. sessionFile'[s] = sessionFile[s] /\ events'[s] = events[s]
      BY <1>1, <2>1, Footprint DEF storeVars
    <3> QED
      BY <1>1, <3>1 DEF TerminalEventFirst, Terminals
  <2>2. CASE s = session[c] /\ pc[c] \in Executing
    <3>0. /\ sessionFile[s] \in SessionFiles
          /\ sessionFile[s].status \in FileStates /\ StartedDiagnostic(c) \in Tristate
      BY <2>2, StartedType DEF TypeOK, StoreTypeOK, SessionFiles
    <3>1. \/ sessionFile'[s] = sessionFile[s]
          \/ pc[c] = "settle-json" /\ sessionFile'[s].status = verdict[c].status
      BY <1>1, <2>2, <3>0, FileStep DEF SessionFiles, NoSession, Settled
    <3>2. pc[c] # "log"
      BY <1>1, <2>2, <3>1 DEF WritesWhileRunning, Settled
    <3>3. Grows(events[s], events'[s])
      BY <1>1, <2>2, <3>2, EventsStep DEF Grows
    <3>4. events[s].intact
      BY <1>1, <3>3 DEF Grows
    <3>5. Ends(events[s], sessionFile'[s].status)
      BY <1>1, <2>2, <3>1, <3>4 DEF WritesWhileRunning, TerminalEventFirst, Terminals, Ends
    <3>6. Ends(events'[s], sessionFile'[s].status)
      BY <1>1, <3>3, <3>5, EndStays
    <3> QED
      BY <1>1, <3>6 DEF Ends, Terminals, TerminalTypes
  <2> QED
    BY <2>1, <2>2
<1>2. CASE UNCHANGED storeVars
  BY <1>2 DEF storeVars, TerminalEventFirst, Terminals
<1> QED
  BY <1>1, <1>2
     DEF OperatedNext, Next, ClientStep, OperatorIntervenes, vars, TerminalEventFirst

(* A settled session.json has its terminal event in the log, unless the log  *)
(* is damaged, whatever writes failed and whoever died.                      *)
THEOREM TerminalEventFirstAlways == OperatedSpec => []TerminalEventFirst
<1>1. Init => WritesWhileRunning /\ TerminalEventFirst
  BY DEF Init, StoreInit, NoSession, WritesWhileRunning, TerminalEventFirst, Settled
<1> QED
  BY <1>1, TypeCorrect, FlagsAlways, WritesStep, TerminalStep, PTL DEF OperatedSpec

(* A confirmed outcome is final.                                             *)
LEMMA FinalStep ==
    ASSUME TypeOK, Attempting, WritesWhileRunning, [OperatedNext]_vars,
           NEW s \in Sessions, Confirmed(s)
    PROVE  UNCHANGED <<sessionFile[s], events[s]>>
<1>0. sessionFile[s].status \in Settled
  BY DEF Confirmed
<1>1. ASSUME NEW c \in Clients, ClientStep(c)
      PROVE  UNCHANGED <<sessionFile[s], events[s]>>
  <2>1. CASE s # session[c] \/ pc[c] \notin Executing
    BY <1>1, <2>1, Footprint DEF storeVars
  <2>2. CASE s = session[c] /\ pc[c] \in Executing
    <3>1. pc[c] \notin {"log", "started", "settle-json"}
      BY <1>0, <2>2 DEF WritesWhileRunning, Settled
    <3>2. sessionFile'[s] = sessionFile[s]
      BY <1>0, <1>1, <2>2, <3>1, FileStep DEF Settled
    <3>3. events' = events
      BY <1>0, <1>1, <2>2, <3>1
         DEF Settled, ClientStep, Continue, Begin, Return, Crash, Acquire, TurnedAway,
             PersistOwner, Inspect, Prepare, EnterHost, Validate, Launch, CheckInputs,
             MakeDirectory, MakeSessionDirectory, WriteSession, CreateSessionJson,
             CreateLog, LogStarted, Initialize, Consume, MayConsume, ConsumedAll,
             StartDomain, Publish, PublishArtifact, Run, Close, Settle, StillRunning,
             SettleJson, Confirm, Catch, TakeReceipt, Release, RemoveLock, storeVars
    <3> QED
      BY <3>2, <3>3
  <2> QED
    BY <2>1, <2>2
<1>2. CASE UNCHANGED storeVars
  BY <1>2 DEF storeVars
<1> QED
  BY <1>1, <1>2 DEF OperatedNext, Next, ClientStep, OperatorIntervenes, vars

(* No step of any client touches a Session whose outcome is confirmed.       *)
THEOREM ConfirmedOutcomesStayFinal == OperatedSpec => ConfirmedOutcomesAreFinal
<1>1. Init => WritesWhileRunning
  BY DEF Init, WritesWhileRunning
<1>2. TypeOK /\ Attempting /\ WritesWhileRunning /\ [OperatedNext]_vars =>
        [\A s \in Sessions : Confirmed(s) => UNCHANGED <<sessionFile[s], events[s]>>]_vars
  BY FinalStep
<1> QED
  BY <1>1, <1>2, TypeCorrect, FlagsAlways, WritesStep, PTL
     DEF OperatedSpec, ConfirmedOutcomesAreFinal
-----------------------------------------------------------------------------
LEMMA AppendedLines ==
    ASSUME NEW Line, NEW log \in Log(Line), NEW line \in Line, NEW outcome \in Outcomes
    PROVE  /\ Lines(log) \subseteq Lines(Appended(log, line, outcome))
           /\ Lines(Appended(log, line, outcome)) \subseteq Lines(log) \cup {line}
           /\ outcome = "ok" /\ log.intact => line \in Lines(Appended(log, line, outcome))
<1>1. /\ log = [lines |-> log.lines, intact |-> log.intact]
      /\ log.lines \in Seq(Line)
      /\ log.intact \in BOOLEAN
  BY DEF Log
<1>2. CASE Written(outcome) /\ log.intact
  <2>1. Appended(log, line, outcome).lines = Append(log.lines, line)
    BY <1>1, <1>2 DEF Appended
  <2>2. /\ DOMAIN Append(log.lines, line) = 1 .. Len(log.lines) + 1
        /\ DOMAIN log.lines = 1 .. Len(log.lines) /\ Len(log.lines) \in Nat
        /\ \A i \in DOMAIN log.lines : Append(log.lines, line)[i] = log.lines[i]
        /\ Append(log.lines, line)[Len(log.lines) + 1] = line
    BY <1>1
  <2>3. DOMAIN Append(log.lines, line) = DOMAIN log.lines \cup {Len(log.lines) + 1}
    BY <2>2
  <2> QED
    BY <2>1, <2>2, <2>3 DEF Lines
<1>3. CASE ~(Written(outcome) /\ log.intact)
  <2>1. Appended(log, line, outcome).lines = log.lines
    BY <1>1, <1>3 DEF Appended
  <2> QED
    BY <1>3, <2>1 DEF Lines, Written
<1> QED
  BY <1>2, <1>3

(* A call adds consumption records of its own Session's next input only.     *)
ConsumedLine(c) == [session |-> session[c], artifact |-> Input(c)]

Consumed(log, s, a) == [session |-> s, artifact |-> a] \in Lines(log)

LEMMA ConsumptionsStep ==
    ASSUME TypeOK, Attempting, NEW c \in Clients, ClientStep(c)
    PROVE  \/ Lines(consumptions') = Lines(consumptions)
           \/ /\ pc[c] = "consume"
              /\ next[c] \in DOMAIN plan[c]
              /\ sessionFile[session[c]].status = "running"
              /\ Lines(consumptions) \subseteq Lines(consumptions')
              /\ Lines(consumptions') \subseteq Lines(consumptions) \cup {ConsumedLine(c)}
<1>1. CASE Consume(c)
  <2>1. CASE consumptions' = consumptions
    BY <2>1 DEF Lines
  <2>2. CASE consumptions' # consumptions
    <3>1. PICK line, event \in Outcomes :
             /\ MayConsume(session[c], Input(c))
             /\ AppendConsumption(session[c], Input(c), line, event)
      BY <1>1, <2>2 DEF Consume, storeVars
    <3>2. /\ consumptions' = Appended(consumptions, ConsumedLine(c), line)
          /\ pc[c] = "consume" /\ next[c] \in DOMAIN plan[c]
          /\ sessionFile[session[c]].status = "running"
      BY <1>1, <3>1 DEF Consume, AppendConsumption, MayConsume, ConsumedLine
    <3>3. ConsumedLine(c) \in ConsumptionLines /\ consumptions \in Log(ConsumptionLines)
      BY <3>2, InputType
         DEF Attempting, TypeOK, CallTypeOK, StoreTypeOK, ConsumedLine, ConsumptionLines
    <3>4. /\ Lines(consumptions) \subseteq Lines(consumptions')
          /\ Lines(consumptions') \subseteq Lines(consumptions) \cup {ConsumedLine(c)}
      BY <3>2, <3>3, AppendedLines
    <3> QED
      BY <3>2, <3>4 DEF Lines
  <2> QED
    BY <2>1, <2>2
<1>2. CASE consumptions' = consumptions
  BY <1>2 DEF Lines
<1>3. Consume(c) \/ consumptions' = consumptions
  BY DEF ClientStep, Continue, Begin, Return, Crash, Acquire, TurnedAway, PersistOwner,
         Inspect, Prepare, EnterHost, Validate, Launch, CheckInputs, MakeDirectory,
         MakeSessionDirectory, WriteSession, CreateSessionJson, CreateLog, CreateEventLog,
         LogStarted, AppendEvent, Initialize, ConsumedAll, StartDomain, Publish,
         PublishArtifact, Run, Close, Settle, SettleJson, ReplaceSessionJson, Confirm,
         Catch, TakeReceipt, Release, RemoveLock, storeVars
<1> QED
  BY <1>1, <1>2, <1>3

LEMMA ConsumptionsGrow ==
    ASSUME TypeOK, Attempting, NEW c \in Clients, ClientStep(c),
           NEW s, NEW a, Consumed(consumptions, s, a)
    PROVE  Consumed(consumptions', s, a)
BY ConsumptionsStep DEF Consumed

(* The third layer: the records of a Session are of inputs it declared and   *)
(* the native side accepted, and the call's loop leaves none out.            *)
InputsTell(c) ==
    /\ pc[c] # "idle" /\ sessionFile[session[c]].status \in Recorded =>
          sessionFile[session[c]].inputs = plan[c]
    /\ pc[c] \in {"consume", "domain"} => "accepted" \in native[session[c]]
    /\ pc[c] = "consume" => \A i \in DOMAIN plan[c] :
          i < next[c] => Consumed(consumptions, session[c], plan[c][i])
    /\ pc[c] = "domain" => \A i \in DOMAIN plan[c] :
          Consumed(consumptions, session[c], plan[c][i])

RecordTrue(line) ==
    /\ sessionFile[line.session].status \in Recorded
    /\ "accepted" \in native[line.session]
    /\ \E i \in DOMAIN sessionFile[line.session].inputs :
          sessionFile[line.session].inputs[i] = line.artifact

RunConsumed(s) ==
    "run" \in native[s] =>
        /\ sessionFile[s].status \in Recorded
        /\ \A i \in DOMAIN sessionFile[s].inputs :
              Consumed(consumptions, s, sessionFile[s].inputs[i])

Inputs == /\ \A c \in Clients : InputsTell(c)
          /\ \A line \in Lines(consumptions) : RecordTrue(line)
          /\ \A s \in Sessions : RunConsumed(s)

(* Once recorded, a Session stays recorded and keeps its inputs.             *)
LEMMA InputsStay ==
    ASSUME TypeOK, Attempting, NEW c \in Clients, ClientStep(c), NEW s \in Sessions,
           sessionFile[s].status \in Recorded
    PROVE  sessionFile'[s].status \in Recorded /\ sessionFile'[s].inputs = sessionFile[s].inputs
<1>1. CASE s # session[c] \/ pc[c] \notin Executing
  BY <1>1, Footprint DEF storeVars
<1>2. CASE s = session[c] /\ pc[c] \in Executing
  <2>1. verdict[c].status \in Settled /\ sessionFile[s] \in SessionFiles
    BY DEF TypeOK, StoreTypeOK, Verdicts
  <2> QED
    BY <1>2, <2>1, FileStep DEF SessionFiles, Recorded, Settled
<1> QED
  BY <1>1, <1>2

LEMMA InputsTellStep ==
    ASSUME TypeOK, Attempting, Flags, WritesWhileRunning, Inputs,
           NEW c \in Clients, ClientStep(c)
    PROVE  InputsTell(c)'
<1>0. /\ InputsTell(c) /\ FlagsTell(c)
      /\ pc[c] # "idle" => session[c] \in Sessions
  BY DEF Inputs, Flags, Attempting
<1>1. pc'[c] # "idle" /\ sessionFile'[session'[c]].status \in Recorded =>
         sessionFile'[session'[c]].inputs = plan'[c]
  <2>1. CASE Begin(c) \/ Return(c) \/ Prepare(c)
    <3>1. pc'[c] # "idle" =>
             /\ session'[c] \in Sessions /\ native[session'[c]] = {}
             /\ sessionFile' = sessionFile
      BY <1>0, <2>1
         DEF TypeOK, Begin, Return, Prepare, FlagsTell, Goto, callVars, storeVars
    <3> QED
      BY <3>1 DEF Flags, Unseen, Recorded, Settled
  <2>2. CASE ~(Begin(c) \/ Return(c) \/ Prepare(c))
    <3>1. session' = session /\ plan' = plan /\ pc[c] # "idle"
      BY <2>2
         DEF ClientStep, Continue, Crash, Acquire, TurnedAway, PersistOwner, Inspect,
             EnterHost, Validate, Launch, CheckInputs, MakeDirectory, WriteSession,
             CreateLog, LogStarted, Initialize, Consume, ConsumedAll, StartDomain,
             Publish, Run, Close, Settle, SettleJson, Confirm, Catch, TakeReceipt,
             Release, RemoveLock, callVars
    <3>2. CASE pc[c] \notin Executing
      BY <1>0, <3>1, <3>2, Footprint DEF InputsTell, storeVars
    <3>3. CASE pc[c] \in Executing
      <4>1. CASE sessionFile[session[c]].status \in Recorded
        BY <1>0, <3>1, <4>1, InputsStay DEF InputsTell
      <4>2. CASE sessionFile[session[c]].status \notin Recorded
        <5>1. sessionFile[session[c]] \in SessionFiles
          BY <1>0, <3>1 DEF TypeOK, StoreTypeOK
        <5>2. CASE pc[c] # "settle-json"
          BY <3>1, <3>3, <4>2, <5>1, <5>2, FileStep
             DEF SessionFiles, NoSession, Recorded, Settled
        <5>3. CASE pc[c] = "settle-json"
          BY <4>2, <5>3 DEF WritesWhileRunning, Recorded
        <5> QED
          BY <5>2, <5>3
      <4> QED
        BY <4>1, <4>2
    <3> QED
      BY <3>2, <3>3
  <2> QED
    BY <2>1, <2>2
<1>2. ASSUME pc'[c] \in {"consume", "domain"}
      PROVE  /\ session'[c] = session[c] /\ plan'[c] = plan[c]
             /\ "accepted" \in native'[session[c]]
             /\ pc'[c] = "consume" => \A i \in DOMAIN plan[c] :
                   i < next'[c] => Consumed(consumptions', session[c], plan[c][i])
             /\ pc'[c] = "domain" => \A i \in DOMAIN plan[c] :
                   Consumed(consumptions', session[c], plan[c][i])
  <2>1. Initialize(c) \/ Consume(c) \/ ConsumedAll(c)
    <3> USE DEF TypeOK, Goto
    <3>1. ~Begin(c) /\ ~Return(c) /\ ~Crash(c) /\ ~Acquire(c) /\ ~TurnedAway(c)
          /\ ~PersistOwner(c) /\ ~Inspect(c)
      BY <1>2 DEF Begin, Return, Crash, Acquire, TurnedAway, PersistOwner, Inspect
    <3>2. ~Prepare(c) /\ ~EnterHost(c) /\ ~Validate(c) /\ ~Launch(c) /\ ~CheckInputs(c)
      BY <1>2 DEF Prepare, EnterHost, Validate, Launch, CheckInputs
    <3>3. ~MakeDirectory(c) /\ ~WriteSession(c) /\ ~CreateLog(c) /\ ~LogStarted(c)
      BY <1>2 DEF MakeDirectory, WriteSession, CreateLog, LogStarted, OrCatch
    <3>4. ~StartDomain(c) /\ ~Publish(c) /\ ~Run(c) /\ ~Close(c) /\ ~Confirm(c) /\ ~Catch(c)
      BY <1>2 DEF StartDomain, Publish, Run, Close, Confirm, Catch
    <3>5. ~Settle(c) /\ ~SettleJson(c)
      BY <1>2 DEF Settle, AfterEvent, SettleFails, SettleJson
    <3>6. ~TakeReceipt(c) /\ ~Release(c) /\ ~RemoveLock(c)
      BY <1>2 DEF TakeReceipt, Release, RemoveLock
    <3> QED
      BY <3>1, <3>2, <3>3, <3>4, <3>5, <3>6 DEF ClientStep, Continue
  <2>2. /\ session' = session /\ plan' = plan
        /\ session[c] \in Sessions /\ plan[c] \in Seq(Artifacts) /\ next[c] \in Nat
    BY <1>0, <2>1 DEF TypeOK, Initialize, Consume, ConsumedAll, callVars
  <2>3. \A i \in DOMAIN plan[c] : i \in Nat /\ i >= 1
    BY <2>2
  <2>4. CASE Initialize(c)
    <3>1. Fact(session[c], "accepted") /\ next' = next /\ pc[c] = "initialize"
          /\ pc'[c] = "consume"
      BY <1>2, <2>4 DEF TypeOK, Initialize, Goto, callVars
    <3>2. next[c] = 1
      BY <1>0, <3>1 DEF FlagsTell, BeforeConsuming
    <3>3. "accepted" \in native'[session[c]]
      BY <2>2, <3>1, FactGrows
    <3> QED
      BY <2>2, <2>3, <3>1, <3>2, <3>3
  <2>5. CASE Consume(c)
    <3>1. /\ pc[c] = "consume" /\ native' = native /\ pc'[c] = "consume"
          /\ next[c] \in DOMAIN plan[c]
      BY <1>2, <2>5 DEF TypeOK, Consume, Goto
    <3>2. /\ next'[c] = next[c] + 1
          /\ \/ Consumed(consumptions, session[c], Input(c))
             \/ AppendConsumption(session[c], Input(c), "ok", "ok") /\ consumptions.intact
      BY <1>2, <2>5
         DEF TypeOK, Consume, Goto, Advance, NeedsRecord, MayConsume,
             ConsumptionsReadable, AlreadyConsumed, Consumed
    <3>3. Consumed(consumptions', session[c], Input(c))
      <4>1. CASE Consumed(consumptions, session[c], Input(c))
        BY <4>1, ConsumptionsGrow
      <4>2. CASE AppendConsumption(session[c], Input(c), "ok", "ok") /\ consumptions.intact
        <5>1. ConsumedLine(c) \in ConsumptionLines /\ consumptions \in Log(ConsumptionLines)
          BY <2>2, <3>1, InputType
             DEF TypeOK, CallTypeOK, StoreTypeOK, ConsumedLine, ConsumptionLines
        <5>2. ConsumedLine(c) \in Lines(consumptions')
          BY <4>2, <5>1, AppendedLines DEF AppendConsumption, ConsumedLine, Outcomes
        <5> QED
          BY <5>2 DEF Consumed, ConsumedLine
      <4> QED
        BY <3>2, <4>1, <4>2
    <3>4. ASSUME NEW i \in DOMAIN plan[c], i < next'[c]
          PROVE  Consumed(consumptions', session[c], plan[c][i])
      <4>1. CASE i = next[c]
        BY <3>3, <4>1 DEF Input
      <4>2. CASE i < next[c]
        BY <1>0, <3>1, <4>2, ConsumptionsGrow DEF InputsTell
      <4> QED
        BY <2>2, <2>3, <3>2, <3>4, <4>1, <4>2
    <3> QED
      BY <1>0, <2>2, <3>1, <3>4 DEF InputsTell
  <2>6. CASE ConsumedAll(c)
    <3>1. /\ pc[c] = "consume" /\ native' = native /\ pc'[c] = "domain"
          /\ next[c] \notin DOMAIN plan[c]
      BY <2>6 DEF TypeOK, ConsumedAll, Goto
    <3>2. \A i \in DOMAIN plan[c] : i < next[c]
      BY <1>0, <2>2, <3>1 DEF FlagsTell
    <3>3. \A i \in DOMAIN plan[c] : Consumed(consumptions', session[c], plan[c][i])
      BY <1>0, <3>1, <3>2, ConsumptionsGrow DEF InputsTell
    <3> QED
      BY <1>0, <2>2, <3>1, <3>3 DEF InputsTell
  <2> QED
    BY <2>1, <2>4, <2>5, <2>6
<1> QED
  BY <1>1, <1>2 DEF InputsTell, Consumed

(* run() is called from "domain" only, of a Session that runs.               *)
LEMMA RunsFromDomain ==
    ASSUME TypeOK, Attempting, NEW c \in Clients, ClientStep(c), pc[c] \in Executing,
           "run" \in native'[session[c]], "run" \notin native[session[c]]
    PROVE  pc[c] = "domain" /\ sessionFile[session[c]].status = "running"
<1>0. session[c] \in Sessions
  BY DEF Attempting, Executing
<1>1. CASE native' = native
  BY <1>1
<1>2. CASE \E fact \in {"launched", "accepted", "completed", "closed"} : Fact(session[c], fact)
  BY <1>0, <1>2, FactGrows
<1>3. CASE StartDomain(c)
  BY <1>3 DEF StartDomain
<1> QED
  BY <1>1, <1>2, <1>3
     DEF ClientStep, Continue, Begin, Return, Crash, Acquire, TurnedAway, PersistOwner,
         Inspect, Prepare, EnterHost, Validate, Launch, CheckInputs, MakeDirectory,
         WriteSession, CreateLog, LogStarted, Initialize, Consume, ConsumedAll,
         Publish, Run, Close, Settle, SettleJson, Confirm, Catch, TakeReceipt, Release,
         RemoveLock, callVars

LEMMA InputsStep ==
    ASSUME TypeOK, Attempting, OneCallEach, Flags, WritesWhileRunning, Inputs,
           [OperatedNext]_vars
    PROVE  Inputs'
<1>1. ASSUME NEW c \in Clients, ClientStep(c)
      PROVE  Inputs'
  <2>1. InputsTell(c) /\ InputsTell(c)' /\ (pc[c] # "idle" => session[c] \in Sessions)
    BY <1>1, InputsTellStep DEF Inputs, Attempting
  <2>2. ASSUME NEW d \in Clients, d # c
        PROVE  InputsTell(d)'
    <3>1. /\ pc'[d] = pc[d] /\ session'[d] = session[d]
          /\ plan'[d] = plan[d] /\ next'[d] = next[d]
      BY <1>1, <2>2, OthersKeepTheirs, OthersKeepLocals
    <3>2. pc[d] # "idle" =>
             /\ sessionFile'[session[d]] = sessionFile[session[d]]
             /\ native'[session[d]] = native[session[d]]
      BY <1>1, <2>2, OthersKeepSession
    <3>3. \A s, a : Consumed(consumptions, s, a) => Consumed(consumptions', s, a)
      BY <1>1, ConsumptionsGrow
    <3>4. InputsTell(d)
      BY DEF Inputs
    <3>5. /\ pc'[d] = "consume" => \A i \in DOMAIN plan'[d] : i < next'[d] =>
                Consumed(consumptions', session'[d], plan'[d][i])
          /\ pc'[d] = "domain" => \A i \in DOMAIN plan'[d] :
                Consumed(consumptions', session'[d], plan'[d][i])
      BY <3>1, <3>3, <3>4 DEF InputsTell
    <3> QED
      BY <3>1, <3>2, <3>4, <3>5 DEF InputsTell, Consumed
  <2>3. ASSUME NEW line \in Lines(consumptions')
        PROVE  RecordTrue(line)'
    <3>1. CASE line \in Lines(consumptions)
      <4>1. RecordTrue(line)
        BY <3>1 DEF Inputs
      <4>2. line.session \in Sessions
        <5>1. consumptions.lines \in Seq(ConsumptionLines)
          BY DEF TypeOK, StoreTypeOK, Log
        <5>2. line \in ConsumptionLines
          BY <3>1, <5>1 DEF Lines
        <5> QED
          BY <5>2 DEF ConsumptionLines
      <4>3. "accepted" \in native'[line.session]
        BY <1>1, <4>1, <4>2, NativeGrows DEF RecordTrue
      <4> QED
        BY <1>1, <4>1, <4>2, <4>3, InputsStay DEF RecordTrue
    <3>2. CASE line \notin Lines(consumptions)
      <4>1. /\ line = ConsumedLine(c) /\ pc[c] = "consume" /\ next[c] \in DOMAIN plan[c]
            /\ sessionFile[session[c]].status = "running"
        BY <1>1, <2>3, <3>2, ConsumptionsStep
      <4>2. /\ session[c] \in Sessions
            /\ sessionFile[session[c]].status \in Recorded
            /\ sessionFile[session[c]].inputs = plan[c]
            /\ "accepted" \in native[session[c]]
        BY <2>1, <4>1 DEF InputsTell, Recorded
      <4>3. "accepted" \in native'[session[c]]
        BY <1>1, <4>2, NativeGrows
      <4>4. /\ sessionFile'[session[c]].status \in Recorded
            /\ sessionFile'[session[c]].inputs = plan[c]
        BY <1>1, <4>2, InputsStay
      <4>5. line.session = session[c] /\ line.artifact = plan[c][next[c]]
        BY <4>1 DEF ConsumedLine, Input
      <4> QED
        BY <4>1, <4>3, <4>4, <4>5 DEF RecordTrue
    <3> QED
      BY <3>1, <3>2
  <2>4. ASSUME NEW s \in Sessions, "run" \in native'[s]
        PROVE  /\ sessionFile'[s].status \in Recorded
               /\ \A i \in DOMAIN sessionFile'[s].inputs :
                     Consumed(consumptions', s, sessionFile'[s].inputs[i])
    <3>1. /\ sessionFile[s].status \in Recorded
          /\ \A i \in DOMAIN sessionFile[s].inputs :
                Consumed(consumptions, s, sessionFile[s].inputs[i])
      <4>1. CASE "run" \in native[s]
        BY <4>1 DEF Inputs, RunConsumed, Consumed, AlreadyConsumed
      <4>2. CASE "run" \notin native[s]
        <5>1. native'[s] # native[s]
          BY <2>4, <4>2
        <5>2. s = session[c]
          BY <1>1, <5>1, Footprint
        <5>3. pc[c] # "launch"
          <6>1. CASE pc[c] = "launch"
            <7>1. Fact(s, "launched") \/ native' = native
              BY <1>1, <5>2, <6>1
                 DEF ClientStep, Continue, Begin, Return, Crash, Acquire, TurnedAway,
                     PersistOwner, Inspect, Prepare, EnterHost, Validate, Launch,
                     CheckInputs, MakeDirectory, WriteSession, CreateLog, LogStarted,
                     Initialize, Consume, ConsumedAll, StartDomain, Publish, Run, Close,
                     Settle, SettleJson, Confirm, Catch, TakeReceipt, Release, RemoveLock
            <7>2. "run" \notin native'[s]
              BY <4>2, <7>1, FactGrows
            <7> QED
              BY <2>4, <7>2
          <6> QED
            BY <6>1
        <5>4. pc[c] \in Executing
          BY <1>1, <5>1, <5>3, Footprint
        <5>5. pc[c] = "domain" /\ sessionFile[session[c]].status = "running"
          BY <1>1, <2>4, <4>2, <5>2, <5>4, RunsFromDomain
        <5> QED
          BY <2>1, <5>2, <5>5 DEF InputsTell, Recorded
      <4> QED
        BY <4>1, <4>2
    <3>2. sessionFile'[s].status \in Recorded /\ sessionFile'[s].inputs = sessionFile[s].inputs
      BY <1>1, <3>1, InputsStay
    <3> QED
      BY <1>1, <3>1, <3>2, ConsumptionsGrow
  <2> QED
    BY <2>1, <2>2, <2>3, <2>4 DEF Inputs, RunConsumed, AlreadyConsumed, Consumed
<1>2. CASE UNCHANGED <<storeVars, pc, callVars, native>>
  <2> USE <1>2 DEF storeVars, callVars
  <2>1. \A c \in Clients : InputsTell(c) => InputsTell(c)'
    BY DEF InputsTell, Consumed, Lines
  <2>2. \A line : RecordTrue(line) => RecordTrue(line)'
    BY DEF RecordTrue
  <2>3. \A s \in Sessions : RunConsumed(s) => RunConsumed(s)'
    BY DEF RunConsumed, AlreadyConsumed, Lines
  <2>4. Lines(consumptions)' = Lines(consumptions)
    BY DEF Lines
  <2> QED
    BY <2>1, <2>2, <2>3, <2>4 DEF Inputs
<1> QED
  BY <1>1, <1>2 DEF OperatedNext, Next, ClientStep, OperatorIntervenes, vars

LEMMA InputsAlways == OperatedSpec => [](Flags /\ OneCallEach /\ WritesWhileRunning /\ Inputs)
<1>1. Init => WritesWhileRunning /\ Inputs
  BY DEF Init, StoreInit, EmptyLog, WritesWhileRunning, Inputs, InputsTell, RecordTrue,
         RunConsumed, Lines
<1> QED
  BY <1>1, TypeCorrect, FlagsAlways, WritesStep, InputsStep, PTL DEF OperatedSpec

(* Consumption records are evidence: of accepted inputs, and complete when   *)
(* run() is called.                                                          *)
THEOREM ConsumptionEvidenceAlways == OperatedSpec => []ConsumptionEvidence
<1>1. Inputs => ConsumptionEvidence
  <2> SUFFICES ASSUME Inputs
               PROVE  ConsumptionEvidence
    OBVIOUS
  <2>1. \A line \in Lines(consumptions) :
           /\ "accepted" \in native[line.session]
           /\ \E i \in DOMAIN sessionFile[line.session].inputs :
                 sessionFile[line.session].inputs[i] = line.artifact
    BY DEF Inputs, RecordTrue
  <2>2. ASSUME NEW s \in Sessions, "run" \in native[s],
               NEW i \in DOMAIN sessionFile[s].inputs
        PROVE  AlreadyConsumed(s, sessionFile[s].inputs[i])
    <3>1. RunConsumed(s)
      BY DEF Inputs
    <3> QED
      BY <2>2, <3>1 DEF RunConsumed, AlreadyConsumed, Consumed
  <2> QED
    BY <2>1, <2>2 DEF ConsumptionEvidence
<1> QED
  BY <1>1, InputsAlways, PTL
-----------------------------------------------------------------------------
(* The fourth layer: how far the native side has got at each step, and what  *)
(* the files made of it: completed is recorded of a complete execution only, *)
(* and that run() did not start only when it did not.                        *)
ProgressTells(c) ==
    /\ pc[c] \in {"run", "close"} => {"launched", "accepted", "run"} \subseteq native[session[c]]
    /\ pc[c] = "close" /\ verdict[c].status = "completed" =>
          "completed" \in native[session[c]]
    /\ pc[c] \in {"settle", "settle-json"} /\ verdict[c].status = "completed" =>
          native[session[c]] = NativeFacts

OutcomeTrue(s) ==
    /\ sessionFile[s].status \notin Settled => sessionFile[s].started = "unknown"
    /\ sessionFile[s].started = "no" => "run" \notin native[s]
    /\ sessionFile[s].status = "completed" => native[s] = NativeFacts

Progress == /\ \A c \in Clients : ProgressTells(c)
            /\ \A s \in Sessions : OutcomeTrue(s)

LEMMA ProgressTellsStep ==
    ASSUME TypeOK, Attempting, Flags, Inputs, Progress, NEW c \in Clients, ClientStep(c)
    PROVE  ProgressTells(c)'
<1>0. /\ ProgressTells(c) /\ FlagsTell(c) /\ InputsTell(c)
      /\ pc[c] # "idle" => session[c] \in Sessions
      /\ native \in [Sessions -> SUBSET NativeFacts] /\ verdict \in [Clients -> Verdicts]
      /\ pc \in [Clients -> Steps]
  BY DEF Progress, Flags, Inputs, Attempting, TypeOK
<1>1. CASE pc'[c] \notin {"run", "close", "settle", "settle-json"}
  BY <1>1 DEF ProgressTells
<1>2. CASE StartDomain(c) /\ pc'[c] \in {"run", "close", "settle", "settle-json"}
  <2>1. pc[c] = "domain" /\ Fact(session[c], "run") /\ session' = session /\ pc'[c] = "run"
    BY <1>0, <1>2 DEF StartDomain, Goto, callVars
  <2>2. native'[session[c]] = native[session[c]] \cup {"run"}
    BY <1>0, <2>1, FactGrows
  <2>3. {"launched", "accepted"} \subseteq native[session[c]]
    BY <1>0, <2>1 DEF FlagsTell, InputsTell, Executing
  <2> QED
    BY <2>1, <2>2, <2>3 DEF ProgressTells
<1>3. CASE Publish(c)
  BY <1>0, <1>3 DEF Publish, ProgressTells, callVars
<1>4. CASE Run(c)
  <2>1. /\ pc[c] = "run" /\ session' = session
        /\ pc'[c] = "close" \/ pc'[c] = "catch"
        /\ pc'[c] = "close" /\ verdict'[c].status = "completed" =>
              Fact(session[c], "completed")
    BY <1>0, <1>4 DEF Run, Goto, Verdicts, Settled
  <2>2. /\ native[session[c]] \subseteq native'[session[c]]
        /\ Fact(session[c], "completed") => "completed" \in native'[session[c]]
    BY <1>0, <2>1, FactGrows, NativeGrows
  <2> QED
    BY <1>0, <2>1, <2>2 DEF ProgressTells
<1>5. CASE Close(c) /\ pc'[c] \in {"run", "close", "settle", "settle-json"}
  <2>1. /\ pc[c] = "close" /\ session' = session /\ verdict' = verdict /\ pc'[c] = "settle"
        /\ Fact(session[c], "closed")
    BY <1>0, <1>5 DEF Close, Goto, callVars
  <2>2. native'[session[c]] = native[session[c]] \cup {"closed"}
    BY <1>0, <2>1, FactGrows
  <2>3. native[session[c]] \subseteq NativeFacts
    BY <1>0, <2>1
  <2> QED
    BY <1>0, <2>1, <2>2, <2>3 DEF ProgressTells, NativeFacts
<1>6. CASE Settle(c)
  <2>1. /\ pc[c] = "settle" /\ UNCHANGED <<session, native>>
        /\ pc'[c] \in {"settle-json", "catch", "receipt"}
        /\ verdict'[c].status = verdict[c].status
    BY <1>0, <1>6 DEF Settle, AfterEvent, SettleFails, Goto, Verdicts
  <2> QED
    BY <1>0, <2>1 DEF ProgressTells
<1>7. CASE Catch(c)
  BY <1>0, <1>7 DEF Catch, Goto, NoVerdict, ProgressTells
<1>8. \/ StartDomain(c) \/ Publish(c) \/ Run(c) \/ Close(c) \/ Settle(c) \/ Catch(c)
      \/ pc'[c] \notin {"run", "close", "settle", "settle-json"}
  <2> USE <1>0 DEF Goto
  <2>1. CASE Begin(c) \/ Return(c) \/ Crash(c) \/ Acquire(c) \/ TurnedAway(c) \/ PersistOwner(c)
             \/ Inspect(c)
    BY <2>1 DEF Begin, Return, Crash, Acquire, TurnedAway, PersistOwner, Inspect
  <2>2. CASE Prepare(c) \/ EnterHost(c) \/ Validate(c) \/ Launch(c) \/ CheckInputs(c)
    BY <2>2 DEF Prepare, EnterHost, Validate, Launch, CheckInputs
  <2>3. CASE MakeDirectory(c) \/ WriteSession(c) \/ CreateLog(c) \/ LogStarted(c)
    BY <2>3 DEF MakeDirectory, WriteSession, CreateLog, LogStarted, OrCatch
  <2>4. CASE Initialize(c) \/ Consume(c) \/ ConsumedAll(c)
    BY <2>4 DEF Initialize, Consume, ConsumedAll
  <2>5. CASE SettleJson(c) \/ Confirm(c) \/ TakeReceipt(c) \/ Release(c) \/ RemoveLock(c)
    BY <2>5 DEF SettleJson, SettleFails, Confirm, TakeReceipt, Release, RemoveLock
  <2> QED
    BY <2>1, <2>2, <2>3, <2>4, <2>5 DEF ClientStep, Continue
<1> QED
  BY <1>1, <1>2, <1>3, <1>4, <1>5, <1>6, <1>7, <1>8

LEMMA OutcomeStep ==
    ASSUME TypeOK, Attempting, Flags, WritesWhileRunning, Progress,
           NEW c \in Clients, ClientStep(c), NEW s \in Sessions
    PROVE  OutcomeTrue(s)'
<1>0. /\ OutcomeTrue(s) /\ ProgressTells(c) /\ FlagsTell(c)
      /\ sessionFile[s] \in SessionFiles /\ native[s] \in SUBSET NativeFacts
      /\ native'[s] \in SUBSET NativeFacts
  <2>1. TypeOK'
    BY TypeStep DEF OperatedNext, Next, ClientStep
  <2> QED
    BY <2>1 DEF Progress, Flags, TypeOK, StoreTypeOK
<1>1. CASE s # session[c] \/ pc[c] \notin Executing \cup {"launch"}
  BY <1>0, <1>1, Footprint DEF OutcomeTrue, storeVars
<1>2. CASE s = session[c] /\ pc[c] = "launch"
  <2>1. sessionFile'[s] = sessionFile[s]
    BY <1>2, Footprint DEF Executing, storeVars
  <2>2. Fact(s, "launched") \/ native' = native
    BY <1>2
       DEF ClientStep, Continue, Begin, Return, Crash, Acquire, TurnedAway,
           PersistOwner, Inspect, Prepare, EnterHost, Validate, Launch,
           CheckInputs, MakeDirectory, WriteSession, CreateLog, LogStarted,
           Initialize, Consume, ConsumedAll, StartDomain, Publish, Run, Close,
           Settle, SettleJson, Confirm, Catch, TakeReceipt, Release, RemoveLock
  <2>3. native'[s] = native[s] \/ native'[s] = native[s] \cup {"launched"}
    BY <2>2, FactGrows
  <2> QED
    BY <1>0, <2>1, <2>3 DEF OutcomeTrue, NativeFacts
<1>3. CASE s = session[c] /\ pc[c] \in Executing
  <2>1. native[s] \subseteq native'[s]
    BY NativeGrows
  <2>2. "run" \in native'[s] /\ "run" \notin native[s] =>
           pc[c] = "domain" /\ sessionFile[s].status = "running"
    BY <1>3, RunsFromDomain
  <2>3. CASE sessionFile'[s] = sessionFile[s]
    BY <1>0, <2>1, <2>2, <2>3 DEF OutcomeTrue, Settled
  <2>4. CASE /\ sessionFile'[s] # sessionFile[s]
             /\ pc[c] # "settle-json"
    <3>1. /\ sessionFile[s].status \in {"absent", "directory"}
          /\ sessionFile'[s].status \in {"directory", "partial", "running"}
          /\ sessionFile'[s].started = "unknown"
      BY <1>0, <1>3, <2>4, FileStep DEF SessionFiles, NoSession, OutcomeTrue, Settled
    <3> QED
      BY <3>1 DEF OutcomeTrue, Settled
  <2>5. CASE /\ sessionFile'[s] # sessionFile[s]
             /\ pc[c] = "settle-json"
    <3>1. /\ sessionFile'[s].status = verdict[c].status
          /\ sessionFile'[s].started = StartedDiagnostic(c)
          /\ verdict[c].status \in Settled
      BY <1>0, <1>3, <2>5, FileStep DEF SessionFiles, TypeOK, Verdicts
    <3>2. "run" \in native'[s] => "run" \in native[s]
      BY <2>2, <2>5
    <3>3. StartedDiagnostic(c) = "no" => "run" \notin native[s]
      BY <1>0, <1>3, <2>5 DEF StartedDiagnostic, FlagsTell
    <3>4. verdict[c].status = "completed" => native[s] = NativeFacts
      BY <1>0, <1>3, <2>5 DEF ProgressTells
    <3> QED
      BY <1>0, <2>1, <3>1, <3>2, <3>3, <3>4 DEF OutcomeTrue
  <2> QED
    BY <2>3, <2>4, <2>5
<1> QED
  BY <1>1, <1>2, <1>3

LEMMA ProgressStep ==
    ASSUME TypeOK, Attempting, OneCallEach, Flags, WritesWhileRunning, Inputs, Progress,
           [OperatedNext]_vars
    PROVE  Progress'
<1>1. ASSUME NEW c \in Clients, ClientStep(c)
      PROVE  Progress'
  <2>1. ASSUME NEW d \in Clients, d # c
        PROVE  ProgressTells(d)'
    <3>1. ProgressTells(d)
      BY DEF Progress
    <3> QED
      BY <1>1, <2>1, <3>1, OthersKeepTheirs, OthersKeepLocals, OthersKeepSession
         DEF ProgressTells
  <2> QED
    BY <1>1, <2>1, ProgressTellsStep, OutcomeStep DEF Progress
<1>2. CASE UNCHANGED <<storeVars, pc, callVars, native>>
  BY <1>2 DEF storeVars, callVars, Progress, ProgressTells, OutcomeTrue
<1> QED
  BY <1>1, <1>2 DEF OperatedNext, Next, ClientStep, OperatorIntervenes, vars

-----------------------------------------------------------------------------
(* What a receipt that the caller holds says of the Session and the host.    *)
ReceiptTrue(r, s, inputs) ==
    /\ r.execution = "not-started" =>
          native[s] = {} /\ sessionFile[s].status = "absent"
    /\ r.started = "no" => "run" \notin native[s]
    /\ r.execution = "completed" =>
          /\ native[s] = NativeFacts
          /\ Confirmed(s)
          /\ sessionFile[s].status = "completed"
          /\ \A i \in DOMAIN inputs : AlreadyConsumed(s, inputs[i])

ReceiptsTrue ==
    \A c \in Clients, r \in Receipts, s \in Sessions, inputs \in Seq(Artifacts) :
        HasReceipt(c) /\ r = receipt[c] /\ s = session[c] /\ inputs = plan[c] =>
            ReceiptTrue(r, s, inputs)

(* Every receipt services.invoke may give is true.                           *)
LEMMA ReceiptsForTrue ==
    ASSUME TypeOK, Attempting, Flags, Inputs, Progress, NEW c \in Clients,
           pc[c] = "receipt", NEW r \in ReceiptsFor(c)
    PROVE  ReceiptTrue(r, session[c], plan[c])
<1>0. /\ session[c] \in Sessions /\ FlagsTell(c) /\ InputsTell(c)
      /\ Unseen(session[c]) /\ OutcomeTrue(session[c]) /\ RunConsumed(session[c])
      /\ sessionFile[session[c]] \in SessionFiles
  BY DEF Attempting, Flags, Inputs, Progress, TypeOK, StoreTypeOK
<1>1. CASE r = FromCall(c)
  BY <1>0, <1>1 DEF FromCall, ReceiptTrue, FlagsTell, Unseen
<1>2. CASE r = FromSession(session[c])
  <2>1. r.execution # "not-started"
    BY <1>2 DEF FromSession, Confirmed, Settled
  <2>2. r.started = "no" => "run" \notin native[session[c]]
    BY <1>0, <1>2 DEF FromSession, StartedFact, OutcomeTrue
  <2>3. ASSUME r.execution = "completed"
        PROVE  /\ native[session[c]] = NativeFacts
               /\ Confirmed(session[c])
               /\ sessionFile[session[c]].status = "completed"
               /\ \A i \in DOMAIN plan[c] : AlreadyConsumed(session[c], plan[c][i])
    <3>1. Confirmed(session[c]) /\ sessionFile[session[c]].status = "completed"
      BY <1>2, <2>3 DEF FromSession
    <3>2. native[session[c]] = NativeFacts
      BY <1>0, <3>1 DEF OutcomeTrue
    <3>3. sessionFile[session[c]].inputs = plan[c]
      BY <1>0, <3>1 DEF InputsTell, Recorded, Settled
    <3>4. \A i \in DOMAIN plan[c] : AlreadyConsumed(session[c], plan[c][i])
      BY <1>0, <3>2, <3>3 DEF RunConsumed, NativeFacts, Consumed, AlreadyConsumed
    <3> QED
      BY <3>1, <3>2, <3>4
  <2> QED
    BY <2>1, <2>2, <2>3 DEF ReceiptTrue
<1> QED
  BY <1>1, <1>2 DEF ReceiptsFor

(* A receipt stays true while its Session and the native side stay.          *)
LEMMA ReceiptStays ==
    ASSUME TypeOK, Attempting, NEW c \in Clients, ClientStep(c), NEW s \in Sessions,
           sessionFile'[s] = sessionFile[s], events'[s] = events[s],
           native'[s] = native[s], NEW r, NEW inputs, ReceiptTrue(r, s, inputs)
    PROVE  ReceiptTrue(r, s, inputs)'
<1>1. Confirmed(s)' <=> Confirmed(s)
  BY ConfirmedSame
<1>2. \A a : AlreadyConsumed(s, a) => AlreadyConsumed(s, a)'
  BY ConsumptionsGrow DEF AlreadyConsumed, Consumed
<1> QED
  BY <1>1, <1>2 DEF ReceiptTrue

LEMMA ReceiptsStep ==
    ASSUME TypeOK, Attempting, OneCallEach, Flags, Inputs, Progress, ReceiptsTrue,
           [OperatedNext]_vars
    PROVE  ReceiptsTrue'
<1>1. ASSUME NEW c \in Clients, ClientStep(c), NEW d \in Clients, HasReceipt(d)',
             NEW r \in Receipts, NEW s \in Sessions, NEW inputs \in Seq(Artifacts),
             r = receipt'[d], s = session'[d], inputs = plan'[d]
      PROVE  ReceiptTrue(r, s, inputs)'
  <2>1. CASE d # c
    <3>1. /\ pc'[d] = pc[d] /\ session'[d] = session[d] /\ receipt'[d] = receipt[d]
          /\ plan'[d] = plan[d]
      BY <1>1, <2>1, OthersKeepTheirs, OthersKeepLocals
    <3>2. ReceiptTrue(r, s, inputs) /\ pc[d] # "idle"
      BY <1>1, <3>1 DEF HasReceipt, ReceiptsTrue
    <3>3. sessionFile'[s] = sessionFile[s] /\ events'[s] = events[s] /\ native'[s] = native[s]
      BY <1>1, <2>1, <3>1, <3>2, OthersKeepSession
    <3> QED
      BY <1>1, <3>2, <3>3, ReceiptStays
  <2>2. CASE d = c
    <3>1. /\ pc[c] \in {"open", "own", "inspect", "receipt", "release", "unlink"}
          /\ UNCHANGED <<session, plan, storeVars, native>>
          /\ \/ receipt' = [receipt EXCEPT ![c] = NoReceipt]
                /\ pc[c] \in {"open", "own", "inspect"}
             \/ pc[c] = "receipt"
                /\ \E q \in ReceiptsFor(c) : receipt' = [receipt EXCEPT ![c] = q]
             \/ receipt' = receipt /\ pc[c] \in {"release", "unlink"}
      <4> USE <1>1, <2>2 DEF TypeOK, HasReceipt, Goto, callVars
      <4>1. ~Begin(c) /\ ~Return(c) /\ ~Crash(c) /\ ~Acquire(c)
        BY DEF Begin, Return, Crash, Acquire
      <4>2. ~Prepare(c) /\ ~EnterHost(c) /\ ~Validate(c) /\ ~Launch(c) /\ ~CheckInputs(c)
        BY DEF Prepare, EnterHost, Validate, Launch, CheckInputs
      <4>3. ~MakeDirectory(c) /\ ~WriteSession(c) /\ ~CreateLog(c) /\ ~LogStarted(c)
        BY DEF MakeDirectory, WriteSession, CreateLog, LogStarted, OrCatch
      <4>4. ~Initialize(c) /\ ~Consume(c) /\ ~ConsumedAll(c) /\ ~StartDomain(c)
        BY DEF Initialize, Consume, ConsumedAll, StartDomain
      <4>5. ~Publish(c) /\ ~Run(c) /\ ~Close(c) /\ ~Confirm(c) /\ ~Catch(c)
        BY DEF Publish, Run, Close, Confirm, Catch
      <4>6. ~Settle(c) /\ ~SettleJson(c)
        BY DEF Settle, AfterEvent, SettleFails, SettleJson
      <4>7. TurnedAway(c) \/ PersistOwner(c) \/ Inspect(c) \/ TakeReceipt(c) \/ Release(c)
            \/ RemoveLock(c)
        BY <4>1, <4>2, <4>3, <4>4, <4>5, <4>6 DEF ClientStep, Continue
      <4> QED
        BY <4>7 DEF TurnedAway, PersistOwner, Inspect, NotAttempted, TakeReceipt, Release,
                    RemoveLock
    <3>2. s = session[c] /\ inputs = plan[c]
      BY <1>1, <2>2, <3>1
    <3>3. ReceiptTrue(r, s, inputs)
      <4>1. CASE r = NoReceipt /\ pc[c] \in {"open", "own", "inspect"}
        <5>1. reached[c] = {} /\ native[s] = {}
          BY <3>2, <4>1 DEF Flags, FlagsTell
        <5>2. sessionFile[s].status = "absent"
          BY <5>1 DEF Flags, Unseen
        <5> QED
          BY <4>1, <5>1, <5>2 DEF ReceiptTrue, NoReceipt
      <4>2. CASE pc[c] = "receipt" /\ r \in ReceiptsFor(c)
        BY <3>2, <4>2, ReceiptsForTrue
      <4>3. CASE r = receipt[c] /\ pc[c] \in {"release", "unlink"}
        BY <3>2, <4>3 DEF ReceiptsTrue, HasReceipt
      <4> QED
        BY <1>1, <2>2, <3>1, <4>1, <4>2, <4>3 DEF TypeOK
    <3> QED
      BY <1>1, <3>1, <3>3, ReceiptStays DEF storeVars
  <2> QED
    BY <2>1, <2>2
<1>2. CASE UNCHANGED <<storeVars, pc, callVars, receipt, native>>
  <2> USE <1>2 DEF storeVars, callVars
  <2>1. ASSUME NEW r, NEW s, NEW inputs, ReceiptTrue(r, s, inputs)
        PROVE  ReceiptTrue(r, s, inputs)'
    BY <2>1 DEF ReceiptTrue, Confirmed, Terminals, AlreadyConsumed, Lines
  <2> QED
    BY <2>1 DEF ReceiptsTrue, HasReceipt
<1>3. CASE \E c \in Clients : ClientStep(c)
  BY <1>1, <1>3 DEF ReceiptsTrue
<1> QED
  BY <1>2, <1>3 DEF OperatedNext, Next, ClientStep, OperatorIntervenes, vars

LEMMA ReceiptsAlways == OperatedSpec => []ReceiptsTrue
<1>1. Init => Progress /\ ReceiptsTrue
  BY DEF Init, StoreInit, NoSession, NoVerdict, Progress, ProgressTells, OutcomeTrue,
         ReceiptsTrue, HasReceipt
<1> QED
  BY <1>1, TypeCorrect, InputsAlways, ProgressStep, ReceiptsStep, PTL DEF OperatedSpec

(* A receipt that says completed is of a Session whose native run was whole, *)
(* whose outcome the files confirm, and whose inputs are all recorded.       *)
THEOREM CompletedReceiptIsTrueAlways == OperatedSpec => []CompletedReceiptIsTrue
<1>1. TypeOK /\ Attempting /\ ReceiptsTrue => CompletedReceiptIsTrue
  <2> SUFFICES ASSUME TypeOK, Attempting, ReceiptsTrue, NEW c \in Clients,
                      HasReceipt(c), receipt[c].execution = "completed"
               PROVE  /\ native[session[c]] = NativeFacts
                      /\ Confirmed(session[c])
                      /\ sessionFile[session[c]].status = "completed"
                      /\ \A i \in DOMAIN plan[c] : AlreadyConsumed(session[c], plan[c][i])
    BY DEF CompletedReceiptIsTrue
  <2>1. ReceiptTrue(receipt[c], session[c], plan[c])
    BY DEF ReceiptsTrue, HasReceipt, Attempting, TypeOK
  <2> QED
    BY <2>1 DEF ReceiptTrue
<1> QED
  BY <1>1, TypeCorrect, ReceiptsAlways, PTL

(* A receipt that denies an attempt, or the start of its domain, is right.   *)
THEOREM DenialsAreTrueAlways == OperatedSpec => []DenialsAreTrue
<1>1. TypeOK /\ Attempting /\ ReceiptsTrue => DenialsAreTrue
  <2> SUFFICES ASSUME TypeOK, Attempting, ReceiptsTrue, NEW c \in Clients, HasReceipt(c)
               PROVE  /\ receipt[c].execution = "not-started" =>
                            native[session[c]] = {}
                            /\ sessionFile[session[c]].status = "absent"
                      /\ receipt[c].started = "no" => "run" \notin native[session[c]]
    BY DEF DenialsAreTrue
  <2>1. ReceiptTrue(receipt[c], session[c], plan[c])
    BY DEF ReceiptsTrue, HasReceipt, Attempting, TypeOK
  <2> QED
    BY <2>1 DEF ReceiptTrue
<1> QED
  BY <1>1, TypeCorrect, ReceiptsAlways, PTL

-----------------------------------------------------------------------------
(* The bindings of a Session are what its entry requires and what was        *)
(* published; no registry repeats a line or lacks the producer.              *)
BoundTo(e, inputs) ==
    /\ DOMAIN inputs = DOMAIN Requires[e]
    /\ \A i \in DOMAIN inputs : inputs[i] \in Published \cap Requires[e][i]

PlanBound(c) ==
    /\ pc[c] \in {"enter", "validate", "launch", "resolve", "mkdir", "json"} =>
          DOMAIN plan[c] = DOMAIN Requires[entry[c]]
    /\ pc[c] \in {"mkdir", "json"} => BoundTo(entry[c], plan[c])

FileBound(s) ==
    sessionFile[s].status \in Recorded =>
        BoundTo(sessionFile[s].entry, sessionFile[s].inputs)

RegistriesSound ==
    /\ \A i, j \in DOMAIN artifacts.lines :
          artifacts.lines[i].id = artifacts.lines[j].id => i = j
    /\ \A line \in Lines(artifacts) : sessionFile[line.session].status \in Recorded
    /\ \A i, j \in DOMAIN consumptions.lines :
          consumptions.lines[i] = consumptions.lines[j] => i = j
    /\ \A line \in Lines(consumptions) : line.artifact \in Published

HistorySound == /\ \A c \in Clients : PlanBound(c)
                /\ \A s \in Sessions : FileBound(s)
                /\ RegistriesSound

LEMMA AppendedIndices ==
    ASSUME NEW Line, NEW log \in Log(Line), NEW line \in Line, NEW outcome
    PROVE  \/ Appended(log, line, outcome).lines = log.lines
           \/ /\ Len(log.lines) \in Nat
              /\ DOMAIN log.lines = 1 .. Len(log.lines)
              /\ DOMAIN Appended(log, line, outcome).lines = 1 .. Len(log.lines) + 1
              /\ \A i \in DOMAIN log.lines : Appended(log, line, outcome).lines[i] = log.lines[i]
              /\ Appended(log, line, outcome).lines[Len(log.lines) + 1] = line
<1>1. /\ log = [lines |-> log.lines, intact |-> log.intact]
      /\ log.lines \in Seq(Line)
      /\ log.intact \in BOOLEAN
  BY DEF Log
<1>2. CASE Written(outcome) /\ log.intact
  <2>1. Appended(log, line, outcome).lines = Append(log.lines, line)
    BY <1>1, <1>2 DEF Appended
  <2> QED
    BY <1>1, <2>1
<1>3. CASE ~(Written(outcome) /\ log.intact)
  BY <1>1, <1>3 DEF Appended
<1> QED
  BY <1>2, <1>3

(* How a step changes the registry of Artifacts, and of consumptions.        *)
LEMMA RegistryStep ==
    ASSUME TypeOK, Attempting, NEW c \in Clients, ClientStep(c)
    PROVE  \/ artifacts' = artifacts
           \/ \E a \in Artifacts \ Published, outcome \in Outcomes :
                 /\ sessionFile[session[c]].status = "running"
                 /\ session[c] \in Sessions
                 /\ artifacts' = Appended(artifacts, [id |-> a, session |-> session[c]], outcome)
<1>1. CASE Publish(c)
  <2>1. session[c] \in Sessions /\ entry[c] \in Entries
    BY <1>1 DEF Publish, Attempting
  <2>2. Produces[entry[c]] \subseteq Artifacts
    BY <2>1, ProducesAssumption
  <2> QED
    BY <1>1, <2>1, <2>2 DEF Publish, PublishArtifact
<1>2. CASE artifacts' = artifacts
  BY <1>2
<1>3. Publish(c) \/ artifacts' = artifacts
  BY DEF ClientStep, Continue, Begin, Return, Crash, Acquire, TurnedAway, PersistOwner,
         Inspect, Prepare, EnterHost, Validate, Launch, CheckInputs, MakeDirectory,
         MakeSessionDirectory, WriteSession, CreateSessionJson, CreateLog, CreateEventLog,
         LogStarted, AppendEvent, Initialize, Consume, AppendConsumption, ConsumedAll,
         StartDomain, Run, Close, Settle, SettleJson, ReplaceSessionJson, Confirm,
         Catch, TakeReceipt, Release, RemoveLock, storeVars
<1> QED
  BY <1>1, <1>2, <1>3

LEMMA RecordStep ==
    ASSUME TypeOK, Attempting, NEW c \in Clients, ClientStep(c)
    PROVE  \/ consumptions' = consumptions
           \/ \E outcome \in Outcomes :
                 /\ ConsumedLine(c) \in ConsumptionLines \ Lines(consumptions)
                 /\ Input(c) \in Published
                 /\ consumptions' = Appended(consumptions, ConsumedLine(c), outcome)
<1>1. CASE Consume(c)
  <2>1. CASE consumptions' = consumptions
    BY <2>1
  <2>2. CASE consumptions' # consumptions
    <3>1. PICK line, event \in Outcomes :
             /\ MayConsume(session[c], Input(c)) /\ NeedsRecord(c)
             /\ AppendConsumption(session[c], Input(c), line, event)
      BY <1>1, <2>2 DEF Consume, storeVars
    <3>2. session[c] \in Sessions /\ Input(c) \in Artifacts
      BY <1>1, InputType DEF Consume, Attempting, TypeOK, CallTypeOK
    <3> QED
      BY <3>1, <3>2
         DEF AppendConsumption, MayConsume, NeedsRecord, AlreadyConsumed, ConsumedLine,
             ConsumptionLines
  <2> QED
    BY <2>1, <2>2
<1>2. CASE consumptions' = consumptions
  BY <1>2
<1>3. Consume(c) \/ consumptions' = consumptions
  BY DEF ClientStep, Continue, Begin, Return, Crash, Acquire, TurnedAway, PersistOwner,
         Inspect, Prepare, EnterHost, Validate, Launch, CheckInputs, MakeDirectory,
         MakeSessionDirectory, WriteSession, CreateSessionJson, CreateLog, CreateEventLog,
         LogStarted, AppendEvent, Initialize, ConsumedAll, StartDomain, Publish,
         PublishArtifact, Run, Close, Settle, SettleJson, ReplaceSessionJson, Confirm,
         Catch, TakeReceipt, Release, RemoveLock, storeVars
<1> QED
  BY <1>1, <1>2, <1>3

LEMMA PublishedGrows ==
    ASSUME TypeOK, Attempting, NEW c \in Clients, ClientStep(c)
    PROVE  Published \subseteq Published'
<1>1. CASE artifacts' = artifacts
  BY <1>1 DEF Published, Lines
<1>2. CASE artifacts' # artifacts
  <2>1. PICK a \in Artifacts \ Published, outcome \in Outcomes :
           /\ session[c] \in Sessions
           /\ artifacts' = Appended(artifacts, [id |-> a, session |-> session[c]], outcome)
    BY <1>2, RegistryStep
  <2>2. [id |-> a, session |-> session[c]] \in ArtifactLines /\ artifacts \in Log(ArtifactLines)
    BY <2>1 DEF TypeOK, StoreTypeOK, ArtifactLines
  <2>3. Lines(artifacts) \subseteq Lines(artifacts')
    BY <2>1, <2>2, AppendedLines
  <2> QED
    BY <2>3 DEF Published, Lines
<1> QED
  BY <1>1, <1>2

LEMMA BoundStays ==
    ASSUME TypeOK, Attempting, NEW c \in Clients, ClientStep(c), NEW e, NEW inputs,
           BoundTo(e, inputs)
    PROVE  BoundTo(e, inputs)'
BY PublishedGrows DEF BoundTo

LEMMA PlanBoundStep ==
    ASSUME TypeOK, Attempting, HistorySound, NEW c \in Clients, ClientStep(c),
           NEW e \in Entries, NEW inputs \in Seq(Artifacts),
           e = entry'[c], inputs = plan'[c]
    PROVE  /\ pc'[c] \in {"enter", "validate", "launch", "resolve", "mkdir", "json"} =>
                 DOMAIN inputs = DOMAIN Requires[e]
           /\ pc'[c] \in {"mkdir", "json"} => BoundTo(e, inputs)'
<1>0. PlanBound(c)
  BY DEF HistorySound
<1>1. CASE pc'[c] \notin {"enter", "validate", "launch", "resolve", "mkdir", "json"}
  BY <1>1
<1>2. CASE Prepare(c) /\ pc'[c] = "enter"
  <2>1. PICK in \in Plans(entry[c]) : plan' = [plan EXCEPT ![c] = in]
    BY <1>2 DEF TypeOK, Prepare, Goto
  <2>2. entry' = entry /\ plan'[c] = in
    BY <1>2, <2>1 DEF TypeOK, Prepare
  <2>3. Len(Requires[e]) \in Nat /\ DOMAIN Requires[e] = 1 .. Len(Requires[e])
    BY RequiresAssumption
  <2> QED
    BY <1>2, <2>1, <2>2, <2>3 DEF Plans
<1>3. CASE EnterHost(c) \/ Validate(c) \/ Launch(c)
  BY <1>0, <1>3 DEF TypeOK, EnterHost, Validate, Launch, Goto, callVars, PlanBound
<1>4. CASE CheckInputs(c)
  <2>1. entry' = entry /\ plan' = plan /\ artifacts' = artifacts /\ pc[c] = "resolve"
        /\ \/ pc'[c] = "mkdir" /\ Resolves(entry[c], plan[c])
           \/ pc'[c] = "catch"
    BY <1>4 DEF TypeOK, CheckInputs, Goto, callVars, storeVars
  <2>2. DOMAIN inputs = DOMAIN Requires[e]
    BY <1>0, <2>1 DEF PlanBound
  <2>3. pc'[c] = "mkdir" => BoundTo(e, inputs)
    BY <2>1, <2>2 DEF Resolves, BoundTo
  <2> QED
    BY <2>1, <2>2, <2>3, BoundStays
<1>5. CASE MakeDirectory(c)
  <2>1. entry' = entry /\ plan' = plan /\ pc[c] = "mkdir" /\ pc'[c] \in {"json", "catch"}
    BY <1>5 DEF TypeOK, MakeDirectory, OrCatch, Goto, callVars
  <2>2. BoundTo(e, inputs)
    BY <1>0, <2>1 DEF PlanBound
  <2> QED
    BY <2>1, <2>2, BoundStays DEF BoundTo
<1>6. \/ Prepare(c) /\ pc'[c] = "enter"
      \/ EnterHost(c) \/ Validate(c) \/ Launch(c) \/ CheckInputs(c) \/ MakeDirectory(c)
      \/ pc'[c] \notin {"enter", "validate", "launch", "resolve", "mkdir", "json"}
  <2> USE DEF TypeOK, Goto
  <2>1. CASE Begin(c) \/ Return(c) \/ Crash(c) \/ Acquire(c) \/ TurnedAway(c) \/ PersistOwner(c)
             \/ Inspect(c) \/ Prepare(c)
    BY <2>1 DEF Begin, Return, Crash, Acquire, TurnedAway, PersistOwner, Inspect, Prepare
  <2>2. CASE WriteSession(c) \/ CreateLog(c) \/ LogStarted(c)
    BY <2>2 DEF WriteSession, CreateLog, LogStarted, OrCatch
  <2>3. CASE Initialize(c) \/ Consume(c) \/ ConsumedAll(c) \/ StartDomain(c)
    BY <2>3 DEF Initialize, Consume, ConsumedAll, StartDomain
  <2>4. CASE Publish(c) \/ Run(c) \/ Close(c) \/ Confirm(c) \/ Catch(c)
    BY <2>4 DEF Publish, Run, Close, Confirm, Catch
  <2>5. CASE Settle(c) \/ SettleJson(c)
    BY <2>5 DEF Settle, AfterEvent, SettleFails, SettleJson
  <2>6. CASE TakeReceipt(c) \/ Release(c) \/ RemoveLock(c)
    BY <2>6 DEF TakeReceipt, Release, RemoveLock
  <2> QED
    BY <2>1, <2>2, <2>3, <2>4, <2>5, <2>6 DEF ClientStep, Continue
<1> QED
  BY <1>1, <1>2, <1>3, <1>4, <1>5, <1>6

LEMMA FileBoundStep ==
    ASSUME TypeOK, Attempting, WritesWhileRunning, HistorySound, NEW c \in Clients,
           ClientStep(c), NEW s \in Sessions
    PROVE  FileBound(s)'
<1>0. FileBound(s) /\ PlanBound(c) /\ sessionFile[s] \in SessionFiles
  BY DEF HistorySound, TypeOK, StoreTypeOK
<1>1. CASE sessionFile'[s].status \notin Recorded
  BY <1>1 DEF FileBound
<1>2. CASE /\ sessionFile'[s].status \in Recorded
           /\ sessionFile[s].status \in Recorded
           /\ sessionFile'[s].entry = sessionFile[s].entry
           /\ sessionFile'[s].inputs = sessionFile[s].inputs
  <2>1. BoundTo(sessionFile[s].entry, sessionFile[s].inputs)
    BY <1>0, <1>2 DEF FileBound
  <2> QED
    BY <1>2, <2>1, PublishedGrows DEF FileBound, BoundTo
<1>3. CASE /\ pc[c] = "json" /\ s = session[c]
           /\ sessionFile'[s].entry = entry[c]
           /\ sessionFile'[s].inputs = plan[c]
  <2>1. BoundTo(entry[c], plan[c])
    BY <1>0, <1>3 DEF PlanBound
  <2> QED
    BY <1>3, <2>1, PublishedGrows DEF FileBound, BoundTo
<1>4. CASE s # session[c] \/ pc[c] \notin Executing
  <2>1. sessionFile'[s] = sessionFile[s]
    BY <1>4, Footprint DEF storeVars
  <2> QED
    BY <1>1, <1>2, <2>1
<1>5. CASE s = session[c] /\ pc[c] \in Executing
  <2>1. pc[c] = "settle-json" => sessionFile[s].status \in Recorded
    BY <1>5 DEF WritesWhileRunning, Recorded
  <2> QED
    BY <1>0, <1>1, <1>2, <1>3, <1>5, <2>1, FileStep
       DEF SessionFiles, NoSession, Recorded, Settled
<1> QED
  BY <1>4, <1>5

LEMMA RegistriesStep ==
    ASSUME TypeOK, Attempting, HistorySound, NEW c \in Clients, ClientStep(c)
    PROVE  RegistriesSound'
<1>0. /\ RegistriesSound
      /\ artifacts \in Log(ArtifactLines) /\ consumptions \in Log(ConsumptionLines)
      /\ artifacts.lines \in Seq(ArtifactLines)
      /\ consumptions.lines \in Seq(ConsumptionLines)
  BY DEF HistorySound, TypeOK, StoreTypeOK, Log
<1>1. ASSUME NEW i \in DOMAIN artifacts'.lines, NEW j \in DOMAIN artifacts'.lines,
             artifacts'.lines[i].id = artifacts'.lines[j].id
      PROVE  i = j
  <2>1. CASE artifacts' = artifacts
    BY <1>0, <1>1, <2>1 DEF RegistriesSound
  <2>2. CASE artifacts' # artifacts
    <3>1. PICK a \in Artifacts \ Published, outcome \in Outcomes :
             /\ session[c] \in Sessions
             /\ artifacts' = Appended(artifacts, [id |-> a, session |-> session[c]], outcome)
      BY <2>2, RegistryStep
    <3>2. [id |-> a, session |-> session[c]] \in ArtifactLines
      BY <3>1 DEF ArtifactLines
    <3>3. \A k \in DOMAIN artifacts.lines : artifacts.lines[k].id # a
      BY <3>1 DEF Published, Lines
    <3> DEFINE n == Len(artifacts.lines)
    <3>4. \/ artifacts'.lines = artifacts.lines
          \/ /\ n \in Nat
             /\ DOMAIN artifacts.lines = 1 .. n
             /\ DOMAIN artifacts'.lines = 1 .. n + 1
             /\ \A k \in DOMAIN artifacts.lines : artifacts'.lines[k] = artifacts.lines[k]
             /\ artifacts'.lines[n + 1] = [id |-> a, session |-> session[c]]
      BY <1>0, <3>1, <3>2, AppendedIndices
    <3> QED
      BY <1>0, <1>1, <3>3, <3>4 DEF RegistriesSound
  <2> QED
    BY <2>1, <2>2
<1>2. ASSUME NEW line \in Lines(artifacts')
      PROVE  sessionFile'[line.session].status \in Recorded
  <2>1. CASE line \in Lines(artifacts)
    <3>1. line \in ArtifactLines
      BY <1>0, <2>1 DEF Lines
    <3>2. sessionFile[line.session].status \in Recorded /\ line.session \in Sessions
      BY <1>0, <2>1, <3>1 DEF RegistriesSound, ArtifactLines
    <3> QED
      BY <3>2, InputsStay
  <2>2. CASE line \notin Lines(artifacts)
    <3>1. PICK a \in Artifacts \ Published, outcome \in Outcomes :
             /\ session[c] \in Sessions
             /\ sessionFile[session[c]].status = "running"
             /\ artifacts' = Appended(artifacts, [id |-> a, session |-> session[c]], outcome)
      BY <1>2, <2>2, RegistryStep
    <3>2. [id |-> a, session |-> session[c]] \in ArtifactLines
      BY <3>1 DEF ArtifactLines
    <3>3. line = [id |-> a, session |-> session[c]]
      BY <1>0, <1>2, <2>2, <3>1, <3>2, AppendedLines
    <3> QED
      BY <3>1, <3>3, InputsStay DEF Recorded
  <2> QED
    BY <2>1, <2>2
<1>3. ASSUME NEW i \in DOMAIN consumptions'.lines, NEW j \in DOMAIN consumptions'.lines,
             consumptions'.lines[i] = consumptions'.lines[j]
      PROVE  i = j
  <2>1. CASE consumptions' = consumptions
    BY <1>0, <1>3, <2>1 DEF RegistriesSound
  <2>2. CASE consumptions' # consumptions
    <3>1. PICK outcome \in Outcomes :
             /\ ConsumedLine(c) \in ConsumptionLines \ Lines(consumptions)
             /\ consumptions' = Appended(consumptions, ConsumedLine(c), outcome)
      BY <2>2, RecordStep
    <3>2. \A k \in DOMAIN consumptions.lines : consumptions.lines[k] # ConsumedLine(c)
      BY <3>1 DEF Lines
    <3> DEFINE n == Len(consumptions.lines)
    <3>3. \/ consumptions'.lines = consumptions.lines
          \/ /\ n \in Nat
             /\ DOMAIN consumptions.lines = 1 .. n
             /\ DOMAIN consumptions'.lines = 1 .. n + 1
             /\ \A k \in DOMAIN consumptions.lines :
                   consumptions'.lines[k] = consumptions.lines[k]
             /\ consumptions'.lines[n + 1] = ConsumedLine(c)
      BY <1>0, <3>1, AppendedIndices
    <3> QED
      BY <1>0, <1>3, <3>2, <3>3 DEF RegistriesSound
  <2> QED
    BY <2>1, <2>2
<1>4. ASSUME NEW line \in Lines(consumptions')
      PROVE  line.artifact \in Published'
  <2>1. CASE line \in Lines(consumptions)
    BY <1>0, <2>1, PublishedGrows DEF RegistriesSound
  <2>2. CASE line \notin Lines(consumptions)
    <3>1. PICK outcome \in Outcomes :
             /\ ConsumedLine(c) \in ConsumptionLines
             /\ Input(c) \in Published
             /\ consumptions' = Appended(consumptions, ConsumedLine(c), outcome)
      BY <1>4, <2>2, RecordStep
    <3>2. line = ConsumedLine(c)
      BY <1>0, <1>4, <2>2, <3>1, AppendedLines
    <3> QED
      BY <3>1, <3>2, PublishedGrows DEF ConsumedLine
  <2> QED
    BY <2>1, <2>2
<1> QED
  BY <1>1, <1>2, <1>3, <1>4 DEF RegistriesSound, Lines

LEMMA HistoryStep ==
    ASSUME TypeOK, Attempting, WritesWhileRunning, HistorySound, [OperatedNext]_vars
    PROVE  HistorySound'
<1>0. TypeOK' /\ Attempting'
  BY TypeStep
<1>1. ASSUME NEW c \in Clients, ClientStep(c)
      PROVE  HistorySound'
  <2>1. ASSUME NEW d \in Clients
        PROVE  PlanBound(d)'
    <3>1. CASE d = c
      <4>1. CASE pc'[d] = "idle"
        BY <4>1 DEF PlanBound
      <4>2. CASE pc'[d] # "idle"
        <5>1. entry'[c] \in Entries /\ plan'[c] \in Seq(Artifacts)
          BY <1>0, <3>1, <4>2 DEF Attempting, TypeOK
        <5> QED
          BY <1>1, <3>1, <5>1, PlanBoundStep DEF PlanBound, BoundTo
      <4> QED
        BY <4>1, <4>2
    <3>2. CASE d # c
      <4>1. pc'[d] = pc[d] /\ entry'[d] = entry[d] /\ plan'[d] = plan[d]
        BY <1>1, <3>2, OthersKeepTheirs, OthersKeepLocals
      <4>2. PlanBound(d)
        BY DEF HistorySound
      <4> QED
        BY <1>1, <4>1, <4>2, PublishedGrows DEF PlanBound, BoundTo
    <3> QED
      BY <3>1, <3>2
  <2> QED
    BY <1>1, <2>1, FileBoundStep, RegistriesStep DEF HistorySound
<1>2. CASE UNCHANGED <<storeVars, pc, callVars>>
  <2> USE <1>2 DEF storeVars, callVars
  <2>1. Published' = Published /\ Lines(artifacts)' = Lines(artifacts)
        /\ Lines(consumptions)' = Lines(consumptions)
    BY DEF Published, Lines
  <2>2. ASSUME NEW c \in Clients, PlanBound(c)
        PROVE  PlanBound(c)'
    BY <2>1, <2>2 DEF PlanBound, BoundTo
  <2>3. ASSUME NEW s \in Sessions, FileBound(s)
        PROVE  FileBound(s)'
    BY <2>1, <2>3 DEF FileBound, BoundTo
  <2>4. RegistriesSound => RegistriesSound'
    BY <2>1 DEF RegistriesSound
  <2> QED
    BY <2>2, <2>3, <2>4 DEF HistorySound
<1> QED
  BY <1>1, <1>2 DEF OperatedNext, Next, ClientStep, OperatorIntervenes, vars

(* While no file is damaged and no Session half created, the history reads.  *)
THEOREM OnlyDamageBlindsAlways == OperatedSpec => []OnlyDamageBlinds
<1>1. Init => HistorySound
  BY DEF Init, StoreInit, NoSession, EmptyLog, HistorySound, PlanBound, FileBound,
         RegistriesSound, Lines, Recorded, Settled
<1>2. Inputs /\ HistorySound => OnlyDamageBlinds
  <2> SUFFICES ASSUME Inputs, HistorySound, artifacts.intact, consumptions.intact,
                      \A s \in Sessions : sessionFile[s].status # "absent" =>
                          SessionReadable(s) /\ events[s].intact
               PROVE  HistoryReadable
    BY DEF OnlyDamageBlinds
  <2>1. ASSUME NEW s \in Sessions, sessionFile[s].status # "absent"
        PROVE  SessionReadable(s) /\ events[s].intact /\ BindingsValid(sessionFile[s])
    BY <2>1 DEF HistorySound, FileBound, BoundTo, BindingsValid, SessionReadable
  <2>2. ArtifactsReadable
    BY DEF HistorySound, RegistriesSound, ArtifactsReadable, SessionReadable
  <2>3. \A line \in Lines(consumptions) : SessionReadable(line.session)
    BY DEF Inputs, RecordTrue, SessionReadable
  <2>4. ConsumptionsReadable
    BY <2>2, <2>3 DEF HistorySound, RegistriesSound, ConsumptionsReadable
  <2> QED
    BY <2>1, <2>4 DEF HistoryReadable
<1> QED
  BY <1>1, <1>2, TypeCorrect, InputsAlways, HistoryStep, PTL DEF OperatedSpec

-----------------------------------------------------------------------------
(* What the lock guarantees the clients that take it, for any clients,       *)
(* Sessions, entries and Artifacts.                                          *)

(* Where the call of withTaskWriter is, for each step of its callback.       *)
StageOf(step) ==
    IF step \in {"idle", "open", "done"} THEN "out"
    ELSE IF step = "own" THEN "write"
    ELSE IF step = "release" THEN "closing"
    ELSE IF step = "unlink" THEN "unlinking"
    ELSE IF step = "dead" THEN "dead"
    ELSE "inside"

StageMatches == \A c \in Exclusive : stage[c] = StageOf(pc[c])

OnlyLockersLock ==
    \A c \in Clients \ Exclusive :
        pc[c] \notin {"open", "own", "inspect", "release", "unlink"}

(* From the inspection on, the lock will stay unless the call says otherwise. *)
RetainedInside == \A c \in Exclusive : pc[c] \in Invoking => keep[c]

(* Every Session but the one of this call is out of doubt.                   *)
OthersCertain(c) ==
    \A s \in Sessions \ {session[c]} :
        sessionFile[s].status # "absent" \/ native[s] # {} => Confirmed(s)

BeforeLaunch == {"own", "inspect", "prepare", "enter", "validate", "launch"}

(* The inductive invariant of exclusive clients: when the lock is free and   *)
(* at every step of its owner before the launch nothing is in doubt, from    *)
(* the launch on only the owner's own Session can be, and a call that is     *)
(* about to remove the lock has nothing in doubt again.                      *)
LockGuardsDoubt ==
    /\ LockFree => NothingInDoubt
    /\ \A c \in Clients :
          /\ pc[c] \in BeforeLaunch => NothingInDoubt
          /\ pc[c] \in Executing \cup {"receipt"} => OthersCertain(c)
          /\ pc[c] = "receipt" /\ "entered" \notin reached[c] => NothingInDoubt
          /\ pc[c] = "release" /\ ~keep[c] => NothingInDoubt
          /\ pc[c] = "unlink" => NothingInDoubt

UncertainRetains ==
    \A c \in Exclusive : ~receipt[c].confirmed =>
        /\ lockOwner = c
        /\ pc[c] \in {"release", "done", "idle", "dead"}
        /\ pc[c] = "release" => keep[c]

-----------------------------------------------------------------------------
(* The steps that the lock's stages follow, and what they do to it.          *)
Bookkeeping == StageMatches /\ OnlyLockersLock /\ RetainedInside

LEMMA BookkeepingStep ==
    ASSUME TypeOK, Bookkeeping, [OperatedNext]_vars
    PROVE  Bookkeeping'
<1> USE ExclusiveAssumption
        DEF TypeOK, WriterTypeOK, Bookkeeping, StageMatches, OnlyLockersLock,
            RetainedInside
<1>1. ASSUME NEW c \in Clients, ClientStep(c)
      PROVE  Bookkeeping'
  <2>1. /\ c \in Exclusive => stage'[c] = StageOf(pc'[c]) /\ (pc'[c] \in Invoking => keep'[c])
        /\ c \notin Exclusive =>
              pc'[c] \notin {"open", "own", "inspect", "release", "unlink"}
    <3> USE DEF StageOf, Goto, writerVars, Invoking, Executing
    <3>1. CASE Begin(c) \/ Return(c) \/ Crash(c)
      BY <3>1 DEF Begin, Return, Crash, Die
    <3>2. CASE Acquire(c) \/ TurnedAway(c) \/ PersistOwner(c)
      BY <3>2 DEF Acquire, Open, TurnedAway, PersistOwner, WriteOwner
    <3>3. CASE Inspect(c)
      BY <3>3 DEF Inspect, RetainLock, Retain, Leave
    <3>4. CASE Prepare(c) \/ EnterHost(c) \/ Validate(c) \/ Launch(c) \/ CheckInputs(c)
      BY <3>4 DEF Prepare, EnterHost, Validate, Launch, CheckInputs
    <3>5. CASE MakeDirectory(c) \/ WriteSession(c) \/ CreateLog(c) \/ LogStarted(c)
      BY <3>5 DEF MakeDirectory, WriteSession, CreateLog, LogStarted, OrCatch
    <3>6. CASE Initialize(c) \/ Consume(c) \/ ConsumedAll(c) \/ StartDomain(c)
      BY <3>6 DEF Initialize, Consume, ConsumedAll, StartDomain
    <3>7. CASE Publish(c) \/ Run(c) \/ Close(c)
      BY <3>7 DEF Publish, Run, Close
    <3>8. CASE Settle(c) \/ SettleJson(c)
      <4>1. /\ pc[c] \in Executing /\ UNCHANGED writerVars
            /\ \E step \in {"settle-json", "catch", "confirm", "receipt"} : Goto(c, step)
        BY <3>8 DEF Settle, AfterEvent, SettleFails, SettleJson
      <4> QED
        BY <4>1
    <3>11. CASE Confirm(c) \/ Catch(c)
      BY <3>11 DEF Confirm, Catch
    <3>9. CASE TakeReceipt(c)
      BY <3>9 DEF TakeReceipt, Leave
    <3>10. CASE Release(c) \/ RemoveLock(c)
      BY <3>10 DEF Release, CheckOwner, RemoveLock, Unlink
    <3> QED
      BY <1>1, <3>1, <3>2, <3>3, <3>4, <3>5, <3>6, <3>7, <3>8, <3>9, <3>10, <3>11
         DEF ClientStep, Continue
  <2> QED
    BY <1>1, <2>1, OthersKeepTheirs
<1>2. CASE OperatorIntervenes
  BY <1>2 DEF OperatorIntervenes, OperatorRemovesLock
<1>3. CASE UNCHANGED vars
  BY <1>3 DEF vars, writerVars
<1> QED
  BY <1>1, <1>2, <1>3 DEF OperatedNext, Next, ClientStep

LEMMA BookkeepingAlways == OperatedSpec => []Bookkeeping
<1>1. Init => Bookkeeping
  BY ExclusiveAssumption
     DEF Init, WriterInit, Bookkeeping, StageMatches, StageOf, OnlyLockersLock,
         RetainedInside, Invoking, Executing
<1> QED
  BY <1>1, TypeCorrect, BookkeepingStep, PTL DEF OperatedSpec

(* Two exclusive calls are never both inside.                                *)
LEMMA OneInside ==
    ASSUME Bookkeeping, OwnerWhileHolding, NEW c \in Exclusive,
           pc[c] \in {"own", "inspect", "release", "unlink"} \cup Invoking
    PROVE  lockOwner = c
BY ExclusiveAssumption
   DEF Bookkeeping, StageMatches, StageOf, OwnerWhileHolding, Holding, Invoking, Executing

LEMMA EntryStep ==
    ASSUME TypeOK, Bookkeeping, OwnerWhileHolding, HostEntryOverConfirmed,
           [OperatedNext]_vars
    PROVE  HostEntryOverConfirmed'
<1> SUFFICES ASSUME Exclusive = Clients, NEW d \in Clients,
                    pc'[d] \in {"prepare", "enter", "validate", "launch"}
             PROVE  (HistoryReadable /\ AllConfirmed)'
  BY DEF HostEntryOverConfirmed
<1>1. ASSUME UNCHANGED storeVars, HistoryReadable, AllConfirmed
      PROVE  (HistoryReadable /\ AllConfirmed)'
  BY <1>1
     DEF storeVars, HistoryReadable, AllConfirmed, Confirmed, SessionReadable, Terminals,
         BindingsValid, ConsumptionsReadable, ArtifactsReadable, Published, Lines
<1>2. CASE pc'[d] = pc[d]
  <2>1. HistoryReadable /\ AllConfirmed /\ lockOwner = d
    BY <1>2, OneInside DEF HostEntryOverConfirmed, Invoking
  <2>2. UNCHANGED storeVars
    <3>1. ASSUME NEW c \in Clients, ClientStep(c)
          PROVE  UNCHANGED storeVars
      BY <1>2, <2>1, <3>1, Footprint, OneInside DEF Executing, Invoking
    <3> QED
      BY <3>1 DEF OperatedNext, Next, ClientStep, OperatorIntervenes, vars
  <2> QED
    BY <1>1, <2>1, <2>2
<1>3. CASE pc'[d] # pc[d]
  <2>1. ClientStep(d)
    BY <1>3, OthersKeepTheirs
       DEF OperatedNext, Next, ClientStep, OperatorIntervenes, vars
  <2>2. Inspect(d) \/ Prepare(d) \/ EnterHost(d) \/ Validate(d)
    <3> USE DEF TypeOK, Goto
    <3>1. CASE Begin(d) \/ Return(d) \/ Crash(d)
      BY <3>1 DEF Begin, Return, Crash
    <3>2. CASE Acquire(d) \/ TurnedAway(d) \/ PersistOwner(d)
      BY <3>2 DEF Acquire, TurnedAway, PersistOwner
    <3>4. CASE Launch(d) \/ CheckInputs(d) \/ Initialize(d) \/ Consume(d) \/ ConsumedAll(d)
               \/ StartDomain(d) \/ Publish(d) \/ Run(d) \/ Close(d)
      BY <3>4 DEF Launch, CheckInputs, Initialize, Consume, ConsumedAll, StartDomain,
                  Publish, Run, Close
    <3>5. CASE MakeDirectory(d) \/ WriteSession(d) \/ CreateLog(d) \/ LogStarted(d)
      BY <3>5 DEF MakeDirectory, WriteSession, CreateLog, LogStarted, OrCatch
    <3>6. CASE Settle(d) \/ SettleJson(d) \/ Confirm(d) \/ Catch(d)
      BY <3>6 DEF Settle, AfterEvent, SettleFails, SettleJson, Confirm, Catch
    <3>7. CASE TakeReceipt(d) \/ Release(d) \/ RemoveLock(d)
      BY <3>7 DEF TakeReceipt, Release, RemoveLock
    <3> QED
      BY <2>1, <3>1, <3>2, <3>4, <3>5, <3>6, <3>7 DEF ClientStep, Continue
  <2>3. pc[d] \notin Executing
    BY <2>2 DEF Inspect, Prepare, EnterHost, Validate, Executing
  <2>4. HistoryReadable /\ AllConfirmed
    <3>1. CASE Inspect(d)
      BY <3>1 DEF TypeOK, Inspect, Goto, HistoryAdmits
    <3>2. CASE Prepare(d) \/ EnterHost(d) \/ Validate(d)
      BY <3>2 DEF Prepare, EnterHost, Validate, HostEntryOverConfirmed
    <3> QED
      BY <2>2, <3>1, <3>2
  <2> QED
    BY <1>1, <2>1, <2>3, <2>4, Footprint
<1> QED
  BY <1>2, <1>3

(* No exclusive client gets to the host over a history that does not confirm *)
(* every Session, whatever locks an operator removed.                        *)
THEOREM HostEntryOverConfirmedAlways == OperatedSpec => []HostEntryOverConfirmed
<1>1. Init => HostEntryOverConfirmed
  BY DEF Init, HostEntryOverConfirmed
<1>2. OperatedSpec => []OwnerWhileHolding
  BY CallsRespectLock, OwnerWhileHoldingAlways, PTL
<1> QED
  BY <1>1, <1>2, TypeCorrect, BookkeepingAlways, EntryStep, PTL DEF OperatedSpec
-----------------------------------------------------------------------------
LEMMA DoubtSame ==
    ASSUME UNCHANGED <<storeVars, native>>
    PROVE  NothingInDoubt' <=> NothingInDoubt
BY DEF storeVars, NothingInDoubt, HistoryReadable, AllConfirmed, Confirmed,
       SessionReadable, Terminals, BindingsValid, ConsumptionsReadable,
       ArtifactsReadable, Published, Lines

LEMMA OthersCertainSame ==
    ASSUME NEW c \in Clients, OthersCertain(c), session'[c] = session[c],
           \A s \in Sessions \ {session[c]} :
               /\ sessionFile'[s] = sessionFile[s]
               /\ events'[s] = events[s]
               /\ native'[s] = native[s]
    PROVE  OthersCertain(c)'
BY ConfirmedSame DEF OthersCertain

LEMMA CertainWithoutDoubt ==
    ASSUME NothingInDoubt, NEW c \in Clients
    PROVE  OthersCertain(c)
BY DEF NothingInDoubt, AllConfirmed, OthersCertain

(* A confirmed receipt leaves nothing in doubt.                              *)
LEMMA ConfirmedReceipt ==
    ASSUME NEW c \in Clients, pc[c] = "receipt", LockGuardsDoubt,
           NEW r \in ReceiptsFor(c), r.confirmed
    PROVE  NothingInDoubt
<1>1. CASE r = FromCall(c)
  BY <1>1 DEF FromCall, LockGuardsDoubt
<1>2. CASE r # FromCall(c)
  <2>1. r = FromSession(session[c]) /\ HistoryReadable
    BY <1>2 DEF ReceiptsFor
  <2>2. Confirmed(session[c])
    BY <2>1 DEF FromSession
  <2>3. OthersCertain(c)
    BY DEF LockGuardsDoubt
  <2> QED
    BY <2>1, <2>2, <2>3 DEF OthersCertain, NothingInDoubt, AllConfirmed
<1> QED
  BY <1>1, <1>2

(* The steps of a call that change neither files nor the native side.        *)
LEMMA QuietStep ==
    ASSUME TypeOK, Bookkeeping, LockGuardsDoubt, Exclusive = Clients,
           NEW c \in Clients, ClientStep(c), pc[c] \notin Executing \cup {"launch"}
    PROVE  /\ LockFree' => NothingInDoubt
           /\ pc'[c] \in BeforeLaunch => NothingInDoubt
           /\ pc'[c] \in Executing \cup {"receipt"} => NothingInDoubt
           /\ pc'[c] = "release" /\ ~keep'[c] => NothingInDoubt
           /\ pc'[c] = "unlink" => NothingInDoubt
<1> USE DEF TypeOK, WriterTypeOK, Goto, BeforeLaunch, Executing, LockFree, writerVars
<1>1. CASE Begin(c) \/ Return(c) \/ Crash(c)
  BY <1>1 DEF Begin, Return, Crash, Die, LockGuardsDoubt
<1>2. CASE Acquire(c)
  BY <1>2 DEF Acquire, Open, LockGuardsDoubt
<1>3. CASE TurnedAway(c)
  BY <1>3 DEF TurnedAway, LockGuardsDoubt
<1>4. CASE PersistOwner(c)
  BY <1>4 DEF PersistOwner, WriteOwner, LockGuardsDoubt
<1>5. CASE Inspect(c)
  BY <1>5 DEF Inspect, LockGuardsDoubt
<1>6. CASE Prepare(c) \/ EnterHost(c) \/ Validate(c)
  BY <1>6 DEF Prepare, EnterHost, Validate, LockGuardsDoubt
<1>7. CASE TakeReceipt(c)
  <2>1. PICK r \in ReceiptsFor(c) : Leave(c, KeepsLock(c, r)) /\ Goto(c, "release")
    BY <1>7 DEF TakeReceipt
  <2>2. keep[c] /\ pc[c] = "receipt"
    BY <1>7 DEF TakeReceipt, Bookkeeping, RetainedInside, Invoking
  <2>3. ~keep'[c] => r.confirmed
    BY <2>1, <2>2 DEF Leave, KeepsLock
  <2>4. ~keep'[c] => NothingInDoubt
    BY <2>2, <2>3, ConfirmedReceipt
  <2> QED
    BY <2>1, <2>4 DEF Leave, LockGuardsDoubt
<1>8. CASE Release(c)
  BY <1>8 DEF Release, CheckOwner, LockGuardsDoubt
<1>9. CASE RemoveLock(c)
  BY <1>9 DEF RemoveLock, LockGuardsDoubt
<1> QED
  BY <1>1, <1>2, <1>3, <1>4, <1>5, <1>6, <1>7, <1>8, <1>9
     DEF ClientStep, Continue, Launch, CheckInputs, MakeDirectory, WriteSession,
         CreateLog, LogStarted, Initialize, Consume, ConsumedAll, StartDomain, Publish,
         Run, Close, Settle, SettleJson, Confirm, Catch

(* The lock keeps doubt inside: one step.                                    *)
LEMMA GuardStep ==
    ASSUME TypeOK, Bookkeeping, EnteredBeforeExecution, OwnerWhileHolding,
           LockGuardsDoubt, Exclusive = Clients, [Next]_vars
    PROVE  LockGuardsDoubt'
<1>1. ASSUME NEW c \in Clients, ClientStep(c)
      PROVE  LockGuardsDoubt'
  <2>1. CASE pc[c] \notin Executing \cup {"launch"}
    <3>1. UNCHANGED <<storeVars, native>>
      BY <1>1, <2>1, Footprint
    <3>2. NothingInDoubt' <=> NothingInDoubt
      BY <3>1, DoubtSame
    <3>3. /\ LockFree' => NothingInDoubt
          /\ pc'[c] \in BeforeLaunch => NothingInDoubt
          /\ pc'[c] \in Executing \cup {"receipt"} => NothingInDoubt
          /\ pc'[c] = "release" /\ ~keep'[c] => NothingInDoubt
          /\ pc'[c] = "unlink" => NothingInDoubt
      BY <1>1, <2>1, QuietStep
    <3>4. pc'[c] \in Executing \cup {"receipt"} => OthersCertain(c)'
      BY <3>2, <3>3, CertainWithoutDoubt DEF NothingInDoubt, AllConfirmed, OthersCertain
    <3>5. ASSUME NEW d \in Clients, d # c, OthersCertain(d)
          PROVE  OthersCertain(d)'
      BY <1>1, <3>1, <3>5, OthersKeepTheirs, OthersCertainSame DEF storeVars
    <3> QED
      BY <1>1, <3>2, <3>3, <3>4, <3>5, OthersKeepTheirs DEF LockGuardsDoubt
  <2>2. CASE pc[c] \in Executing \cup {"launch"}
    <3>1. /\ pc'[c] \in Executing \cup {"receipt", "dead"}
          /\ lockOwner' = lockOwner
          /\ session'[c] = session[c]
          /\ "entered" \in reached'[c]
      BY <1>1, <2>2, ExecutionStep
    <3>2. lockOwner = c
      BY <2>2, OneInside DEF Invoking
    <3>3. ~LockFree'
      BY <3>1, <3>2, NoClientAssumption DEF LockFree
    <3>4. OthersCertain(c)
      BY <2>2, CertainWithoutDoubt DEF LockGuardsDoubt, BeforeLaunch
    <3>5. OthersCertain(c)'
      BY <1>1, <3>1, <3>4, Footprint, OthersCertainSame
    <3>6. ASSUME NEW d \in Clients, d # c
          PROVE  /\ pc'[d] = pc[d]
                 /\ pc[d] \notin {"own", "inspect", "release", "unlink"} \cup Invoking
      BY <1>1, <3>2, <3>6, OthersKeepTheirs, OneInside
    <3> QED
      BY <3>1, <3>3, <3>5, <3>6 DEF LockGuardsDoubt, BeforeLaunch, Invoking, Executing
  <2> QED
    BY <2>1, <2>2
<1>2. CASE UNCHANGED vars
  <2>1. UNCHANGED <<storeVars, native, pc, session, reached, keep, lockOwner>>
    BY <1>2 DEF vars, writerVars, callVars
  <2>2. NothingInDoubt' <=> NothingInDoubt
    BY <2>1, DoubtSame
  <2>3. ASSUME NEW d \in Clients, OthersCertain(d)
        PROVE  OthersCertain(d)'
    BY <2>1, <2>3, OthersCertainSame DEF storeVars
  <2> QED
    BY <2>1, <2>2, <2>3 DEF LockGuardsDoubt, LockFree
<1> QED
  BY <1>1, <1>2 DEF Next, ClientStep

LEMMA InitGuards == Init => LockGuardsDoubt
<1> SUFFICES ASSUME Init
             PROVE  LockGuardsDoubt
  OBVIOUS
<1>1. /\ \A s \in Sessions : sessionFile[s].status = "absent" /\ native[s] = {}
      /\ \A c \in Clients : pc[c] = "idle"
  BY DEF Init, StoreInit, NoSession
<1>2. ConsumptionsReadable
  BY DEF Init, StoreInit, EmptyLog, ConsumptionsReadable, ArtifactsReadable, Lines
<1> QED
  BY <1>1, <1>2
     DEF LockGuardsDoubt, NothingInDoubt, HistoryReadable, AllConfirmed, BeforeLaunch,
         Executing

(* When every client takes the lock, a free lock means that the history can  *)
(* be read and confirms every attempt ever made: doubt is kept behind it.    *)
THEOREM FreeLockMeansConfirmedAlways == Spec => []FreeLockMeansConfirmed
<1>1. Spec => [](TypeOK /\ Bookkeeping /\ OwnerWhileHolding)
  BY SpecIsOperated, TypeCorrect, BookkeepingAlways, CallsRespectLock,
     OwnerWhileHoldingAlways, PTL
<1>2. Init => EnteredBeforeExecution
  BY DEF Init, EnteredBeforeExecution, Executing
<1>3. [Next]_vars => [OperatedNext]_vars
  BY DEF OperatedNext
<1>4. Spec => []EnteredBeforeExecution
  BY <1>1, <1>2, <1>3, EnteredStep, PTL DEF Spec
<1>5. CASE Exclusive = Clients
  <2>1. LockGuardsDoubt => FreeLockMeansConfirmed
    BY DEF LockGuardsDoubt, FreeLockMeansConfirmed
  <2>2. TypeOK /\ Bookkeeping /\ EnteredBeforeExecution /\ OwnerWhileHolding
          /\ LockGuardsDoubt /\ [Next]_vars => LockGuardsDoubt'
    BY <1>5, GuardStep
  <2> QED
    BY <1>1, <1>4, <2>1, <2>2, InitGuards, PTL DEF Spec
<1>6. CASE Exclusive # Clients
  <2>1. FreeLockMeansConfirmed
    BY <1>6 DEF FreeLockMeansConfirmed
  <2> QED
    BY <2>1, PTL
<1> QED
  BY <1>5, <1>6

-----------------------------------------------------------------------------
LEMMA UncertainStep ==
    ASSUME TypeOK, Bookkeeping, OwnerWhileHolding, UncertainRetains, [Next]_vars
    PROVE  UncertainRetains'
<1> USE ExclusiveAssumption, NoClientAssumption DEF TypeOK, WriterTypeOK
<1>1. ASSUME NEW c \in Clients, ClientStep(c)
      PROVE  UncertainRetains'
  <2>1. ASSUME NEW d \in Exclusive, d # c, ~receipt'[d].confirmed
        PROVE  /\ lockOwner' = d
               /\ pc'[d] \in {"release", "done", "idle", "dead"}
               /\ pc'[d] = "release" => keep'[d]
    <3>1. /\ lockOwner = d
          /\ pc[d] \in {"release", "done", "idle", "dead"}
          /\ pc[d] = "release" => keep[d]
      BY <1>1, <2>1, OthersKeepTheirs DEF UncertainRetains
    <3>2. [WriterNext]_writerVars
      BY LockStep DEF OperatedNext
    <3>3. lockOwner' = lockOwner
      <4>1. stage[c] \notin Holding
        BY <2>1, <3>1 DEF OwnerWhileHolding
      <4>2. CASE Acquire(c)
        BY <3>1, <4>2 DEF Acquire, Open, LockFree
      <4>3. CASE PersistOwner(c) \/ Inspect(c) \/ Release(c) \/ RemoveLock(c)
        BY <4>1, <4>3
           DEF PersistOwner, WriteOwner, Inspect, RetainLock, Retain, Leave, Release,
               CheckOwner, RemoveLock, Unlink, Holding
      <4>4. CASE TakeReceipt(c)
        BY <4>4 DEF TakeReceipt, Leave, writerVars
      <4> QED
        BY <1>1, <4>2, <4>3, <4>4
           DEF ClientStep, Continue, Begin, Return, Crash, Die, TurnedAway, Prepare,
               EnterHost, Validate, Launch, CheckInputs, MakeDirectory, WriteSession,
               CreateLog, LogStarted, Initialize, Consume, ConsumedAll, StartDomain,
               Publish, Run, Close, Settle, SettleJson, Confirm, Catch, writerVars
    <3> QED
      BY <1>1, <2>1, <3>1, <3>3, OthersKeepTheirs
  <2>2. ASSUME c \in Exclusive, ~receipt'[c].confirmed
        PROVE  /\ lockOwner' = c
               /\ pc'[c] \in {"release", "done", "idle", "dead"}
               /\ pc'[c] = "release" => keep'[c]
    <3>1. CASE TakeReceipt(c)
      <4>1. PICK r \in ReceiptsFor(c) :
               /\ receipt' = [receipt EXCEPT ![c] = r]
               /\ Leave(c, KeepsLock(c, r)) /\ Goto(c, "release")
        BY <2>2, <3>1 DEF TakeReceipt
      <4>2. ~r.confirmed
        BY <2>2, <4>1
      <4>3. pc[c] = "receipt"
        BY <3>1 DEF TakeReceipt
      <4>4. keep[c] /\ lockOwner = c
        BY <2>2, <4>3, OneInside DEF Bookkeeping, RetainedInside, Invoking
      <4> QED
        BY <4>1, <4>2, <4>4 DEF Leave, KeepsLock, Goto
    <3>2. CASE ~TakeReceipt(c)
      <4>1. Begin(c) => receipt'[c] = NoReceipt
        BY DEF Begin
      <4>2. TurnedAway(c) \/ PersistOwner(c) \/ Inspect(c) => receipt'[c] = NoReceipt
        BY DEF TurnedAway, PersistOwner, Inspect, NotAttempted
      <4>3. NoReceipt.confirmed
        BY DEF NoReceipt
      <4>4. receipt' = receipt
        BY <1>1, <2>2, <3>2, <4>1, <4>2, <4>3
           DEF ClientStep, Continue, Acquire, Return, Crash, Release, RemoveLock, Prepare,
               EnterHost, Validate, Launch, CheckInputs, MakeDirectory, WriteSession,
               CreateLog, LogStarted, Initialize, Consume, ConsumedAll, StartDomain,
               Publish, Run, Close, Settle, SettleJson, Confirm, Catch
      <4>5. /\ lockOwner = c
            /\ pc[c] \in {"release", "done", "idle", "dead"}
            /\ pc[c] = "release" => keep[c]
        BY <2>2, <4>4 DEF UncertainRetains
      <4>6. ~Begin(c)
        BY <2>2, <4>1, <4>3
      <4>7. Release(c) \/ Return(c) \/ Crash(c)
        BY <1>1, <3>2, <4>5, <4>6
           DEF ClientStep, Continue, Acquire, TurnedAway, PersistOwner, Inspect, RemoveLock,
               Prepare, EnterHost, Validate, Launch, CheckInputs, MakeDirectory,
               WriteSession, CreateLog, LogStarted, Initialize, Consume, ConsumedAll,
               StartDomain, Publish, Run, Close, Settle, SettleJson, Confirm, Catch
      <4> QED
        BY <4>5, <4>7 DEF Release, CheckOwner, Return, Crash, Die, Goto, writerVars
    <3> QED
      BY <3>1, <3>2
  <2> QED
    BY <2>1, <2>2 DEF UncertainRetains
<1>2. CASE UNCHANGED vars
  BY <1>2 DEF vars, writerVars, UncertainRetains
<1> QED
  BY <1>1, <1>2 DEF Next, ClientStep

(* An exclusive client whose receipt is not confirmed owns the lock file.    *)
THEOREM UncertainKeepsLockAlways == Spec => []UncertainKeepsLock
<1>1. Spec => [](TypeOK /\ Bookkeeping /\ OwnerWhileHolding)
  BY SpecIsOperated, TypeCorrect, BookkeepingAlways, CallsRespectLock,
     OwnerWhileHoldingAlways, PTL
<1>2. Init => UncertainRetains
  BY ExclusiveAssumption DEF Init, UncertainRetains, NoReceipt
<1>3. UncertainRetains => UncertainKeepsLock
  BY DEF UncertainRetains, UncertainKeepsLock
<1> QED
  BY <1>1, <1>2, <1>3, UncertainStep, PTL DEF Spec
-----------------------------------------------------------------------------
(* The refinement of TaskOwnership.  What is true at every state of          *)
(* exclusive clients:                                                        *)
Exclusively ==
    /\ TypeOK /\ Attempting /\ Bookkeeping /\ OwnerWhileHolding
    /\ OneCallEach /\ EnteredBeforeExecution /\ Flags /\ WritesWhileRunning
    /\ LockGuardsDoubt

LEMMA CertainlyCertain ==
    ASSUME NothingInDoubt
    PROVE  \A s \in Sessions : OutcomeOf(s) # "uncertain"
BY DEF NothingInDoubt, OutcomeOf, Confirmed, Settled

LEMMA SameOutcome ==
    ASSUME NEW s \in Sessions, sessionFile'[s] = sessionFile[s],
           events'[s] = events[s], native'[s] = native[s]
    PROVE  OutcomeOf(s)' = OutcomeOf(s)
<1>1. Confirmed(s)' <=> Confirmed(s)
  BY ConfirmedSame
<1> QED
  BY <1>1 DEF OutcomeOf

(* The steps outside the execution move the lock only.                       *)
LEMMA QuietPromise ==
    ASSUME Exclusively, Exclusive = Clients, NEW c \in Clients, ClientStep(c),
           pc[c] \notin Executing \cup {"launch"}
    PROVE  Promise!Take \/ Promise!GiveBack \/ Promise!Retain
           \/ UNCHANGED <<Phase, [s \in Sessions |-> OutcomeOf(s)]>>
<1>1. [s \in Sessions |-> OutcomeOf(s)]' = [s \in Sessions |-> OutcomeOf(s)]
  <2>1. \A s \in Sessions : OutcomeOf(s)' = OutcomeOf(s)
    BY Footprint, SameOutcome DEF Exclusively, storeVars
  <2> QED
    BY <2>1
<1>2. UNCHANGED <<lockOwner, stage>> => Phase' = Phase
  BY DEF Phase, LockFree
<1> USE NoClientAssumption
        DEF Exclusively, TypeOK, WriterTypeOK, Phase, LockFree, Holding, Goto, writerVars
<1>3. stage[c] = StageOf(pc[c]) /\ lockOwner \in Clients \cup {NoClient}
      /\ (stage[c] \in Holding => lockOwner = c)
  BY DEF Bookkeeping, StageMatches, OwnerWhileHolding
<1>4. CASE Acquire(c)
  <2>1. Phase = "free" /\ Phase' = "owned"
    BY <1>4 DEF Acquire, Open
  <2> QED
    BY <1>1, <2>1 DEF Promise!Take
<1>5. CASE Begin(c) \/ Return(c) \/ TurnedAway(c) \/ Prepare(c) \/ EnterHost(c) \/ Validate(c)
  BY <1>1, <1>2, <1>5 DEF Begin, Return, TurnedAway, Prepare, EnterHost, Validate
<1>6. CASE PersistOwner(c) \/ Inspect(c) \/ TakeReceipt(c)
  <2>1. /\ lockOwner = c /\ lockOwner' = c /\ stage[c] \in Holding /\ stage'[c] \in Holding
    BY <1>3, <1>6
       DEF PersistOwner, WriteOwner, Inspect, RetainLock, Retain, Leave, TakeReceipt, StageOf
  <2>2. Phase' = Phase
    BY <2>1
  <2> QED
    BY <1>1, <2>2
<1>7. CASE Release(c)
  <2>1. lockOwner = c /\ lockOwner' = c /\ stage[c] \in Holding
        /\ stage'[c] \in {"out", "unlinking"}
    BY <1>3, <1>7 DEF Release, CheckOwner
  <2>2. Phase = "owned" /\ Phase' \in {"owned", "retained"}
    BY <2>1
  <2> QED
    BY <1>1, <2>2 DEF Promise!Retain
<1>8. CASE RemoveLock(c)
  <2>1. lockOwner = c /\ lockOwner' \in {c, NoClient} /\ stage[c] \in Holding
        /\ stage'[c] = "out"
    BY <1>3, <1>8 DEF RemoveLock, Unlink
  <2>2. Phase = "owned" /\ Phase' \in {"free", "retained"}
    BY <2>1
  <2>3. \A s \in Sessions : OutcomeOf(s) # "uncertain"
    BY <1>8, CertainlyCertain DEF RemoveLock, LockGuardsDoubt
  <2> QED
    BY <1>1, <2>2, <2>3 DEF Promise!Retain, Promise!GiveBack, Promise!Certain
<1>9. CASE Crash(c)
  <2>1. lockOwner' = lockOwner /\ stage' = [stage EXCEPT ![c] = "dead"]
    BY <1>9 DEF Crash, Die
  <2>2. CASE lockOwner = c
    <3>1. Phase \in {"owned", "retained"} /\ Phase' = "retained"
      BY <2>1, <2>2
    <3> QED
      BY <1>1, <3>1 DEF Promise!Retain
  <2>3. CASE lockOwner # c
    BY <1>1, <2>1, <2>3
  <2> QED
    BY <2>2, <2>3
<1> QED
  BY <1>4, <1>5, <1>6, <1>7, <1>8, <1>9
     DEF ClientStep, Continue, Executing, Launch, CheckInputs, MakeDirectory, WriteSession,
         CreateLog, LogStarted, Initialize, Consume, ConsumedAll, StartDomain, Publish,
         Run, Close, Settle, SettleJson, Confirm, Catch

(* A step of the execution, from the launch on, is of the owner of the lock  *)
(* and changes the outcome of its own Session only.                          *)
LEMMA ExecutionPromise ==
    ASSUME Exclusively, Exclusive = Clients, NEW c \in Clients, ClientStep(c),
           pc[c] \in Executing \cup {"launch"}, NEW own \in Sessions, own = session[c]
    PROVE  \/ \E s \in Sessions : Promise!Attempt(s)
           \/ \E s \in Sessions, v \in {"completed", "failed"} : Promise!Conclude(s, v)
           \/ Promise!Retain
           \/ UNCHANGED <<Phase, [s \in Sessions |-> OutcomeOf(s)]>>
<1> USE DEF Exclusively
<1> DEFINE outcome == [s \in Sessions |-> OutcomeOf(s)]
<1>1. FlagsTell(c)
  BY DEF Flags
<1>2. lockOwner = c /\ stage[c] = "inside" /\ Phase = "owned"
  <2>1. lockOwner = c
    BY OneInside DEF Invoking
  <2>2. stage[c] = "inside"
    BY DEF Bookkeeping, StageMatches, StageOf, Executing
  <2> QED
    BY <2>1, <2>2, NoClientAssumption DEF Phase, LockFree, Holding
<1>3. \A s \in Sessions \ {own} : OutcomeOf(s)' = OutcomeOf(s) /\ OutcomeOf(s) # "uncertain"
  <2>1. OthersCertain(c)
    BY CertainWithoutDoubt DEF LockGuardsDoubt, BeforeLaunch
  <2>2. \A s \in Sessions \ {own} : OutcomeOf(s) # "uncertain"
    BY <2>1 DEF OthersCertain, OutcomeOf, Confirmed, Settled
  <2> QED
    BY <2>2, Footprint, SameOutcome
<1>4. CASE Crash(c)
  <2>1. \A s \in Sessions : OutcomeOf(s)' = OutcomeOf(s)
    BY <1>4, SameOutcome DEF Crash, storeVars
  <2>2. Phase' = "retained"
    BY <1>2, <1>4, NoClientAssumption
       DEF Crash, Die, Phase, LockFree, Holding, TypeOK, WriterTypeOK
  <2> QED
    BY <1>2, <2>1, <2>2 DEF Promise!Retain
<1>5. CASE ~Crash(c)
  <2>1. UNCHANGED writerVars
    BY <1>5
       DEF ClientStep, Continue, Executing, Begin, Return, Acquire, TurnedAway,
           PersistOwner, Inspect, Prepare, EnterHost, Validate, TakeReceipt, Release,
           RemoveLock, Launch, CheckInputs, MakeDirectory, WriteSession, CreateLog,
           LogStarted, Initialize, Consume, ConsumedAll, StartDomain, Publish, Run,
           Close, Settle, SettleJson, Confirm, Catch
  <2>2. Phase' = Phase
    BY <2>1 DEF writerVars, Phase, LockFree
  <2>3. CASE OutcomeOf(own)' = OutcomeOf(own)
    BY <1>3, <2>2, <2>3
  <2>4. CASE pc[c] = "launch" /\ OutcomeOf(own)' # OutcomeOf(own)
    <3>1. native[own] = {} /\ sessionFile[own].status = "absent"
      BY <1>1, <2>4 DEF FlagsTell, Flags, Unseen
    <3>2. OutcomeOf(own) = "none" /\ ~Confirmed(own)
      BY <3>1 DEF OutcomeOf, Confirmed, Settled
    <3>3. sessionFile' = sessionFile /\ events' = events
      BY <2>4, Footprint DEF Executing, storeVars
    <3>4. ~Confirmed(own)'
      BY <3>2, <3>3 DEF Confirmed, Terminals
    <3>5. OutcomeOf(own)' = "uncertain"
      BY <2>4, <3>2, <3>4 DEF OutcomeOf
    <3>6. outcome' = [outcome EXCEPT ![own] = "uncertain"]
      BY <1>1, <1>3, <3>5
    <3>7. Promise!Attempt(own)
      BY <1>1, <1>2, <1>3, <2>2, <3>2, <3>6 DEF Promise!Attempt, Promise!Certain
    <3> QED
      BY <1>1, <3>7
  <2>5. CASE pc[c] # "launch" /\ OutcomeOf(own)' # OutcomeOf(own)
    <3>1. native[own] # {} /\ native'[own] # {}
      BY <1>1, <2>5, NativeGrows DEF FlagsTell
    <3>2. ~Confirmed(own)
      <4>1. [OperatedNext]_vars
        BY DEF OperatedNext, Next, ClientStep
      <4>2. CASE Confirmed(own)
        <5>1. UNCHANGED <<sessionFile[own], events[own]>>
          BY <1>1, <4>1, <4>2, FinalStep
        <5> QED
          BY <1>1, <2>5, <4>2, <5>1 DEF OutcomeOf, Confirmed, Terminals
      <4> QED
        BY <4>2
    <3>3. OutcomeOf(own) = "uncertain"
      BY <3>1, <3>2 DEF OutcomeOf
    <3>4. OutcomeOf(own)' \in {"completed", "failed"}
      BY <2>5, <3>1, <3>3 DEF OutcomeOf, Confirmed, Settled
    <3>5. outcome' = [outcome EXCEPT ![own] = OutcomeOf(own)']
      BY <1>1, <1>3
    <3>6. Promise!Conclude(own, OutcomeOf(own)')
      BY <1>1, <1>2, <2>2, <3>3, <3>5 DEF Promise!Conclude
    <3> QED
      BY <1>1, <3>4, <3>6
  <2> QED
    BY <2>3, <2>4, <2>5
<1> QED
  BY <1>4, <1>5

(* Exclusive clients keep the promise of TaskOwnership: the files, the lock  *)
(* and the failures of their calls implement it.                             *)
THEOREM ExclusiveCallsKeepPromise == Exclusive = Clients => (Spec => KeepsPromise)
<1> SUFFICES ASSUME Exclusive = Clients
             PROVE  Spec => KeepsPromise
  OBVIOUS
<1>1. Spec => [](TypeOK /\ Attempting /\ Bookkeeping /\ OwnerWhileHolding)
  BY SpecIsOperated, TypeCorrect, BookkeepingAlways, CallsRespectLock,
     OwnerWhileHoldingAlways, PTL
<1>2. Spec => [](OneCallEach /\ EnteredBeforeExecution /\ Flags /\ WritesWhileRunning)
  BY SpecIsOperated, FlagsAlways, InputsAlways, PTL
<1>3. TypeOK /\ Bookkeeping /\ EnteredBeforeExecution /\ OwnerWhileHolding
        /\ LockGuardsDoubt /\ [Next]_vars => LockGuardsDoubt'
  BY GuardStep
<1>4. Spec => []Exclusively
  BY <1>1, <1>2, <1>3, InitGuards, PTL DEF Spec, Exclusively
<1>5. Init => Promise!Init
  BY DEF Init, WriterInit, StoreInit, NoSession, Promise!Init, Phase, LockFree, OutcomeOf,
         Confirmed, Settled
<1>6. Exclusively /\ [Next]_vars =>
        [Promise!Next]_<<Phase, [s \in Sessions |-> OutcomeOf(s)]>>
  <2> SUFFICES ASSUME Exclusively, [Next]_vars
               PROVE  Promise!Next \/ UNCHANGED <<Phase, [s \in Sessions |-> OutcomeOf(s)]>>
    OBVIOUS
  <2>1. ASSUME NEW c \in Clients, ClientStep(c)
        PROVE  Promise!Next \/ UNCHANGED <<Phase, [s \in Sessions |-> OutcomeOf(s)]>>
    <3>1. CASE pc[c] \in Executing \cup {"launch"}
      <4>1. session[c] \in Sessions
        BY <3>1 DEF Exclusively, Attempting, Executing
      <4> QED
        BY <2>1, <3>1, <4>1, ExecutionPromise DEF Promise!Next
    <3>2. CASE pc[c] \notin Executing \cup {"launch"}
      BY <2>1, <3>2, QuietPromise DEF Promise!Next
    <3> QED
      BY <3>1, <3>2
  <2>2. CASE UNCHANGED vars
    <3>1. Phase' = Phase
      BY <2>2 DEF vars, writerVars, Phase, LockFree
    <3>2. \A s \in Sessions : OutcomeOf(s)' = OutcomeOf(s)
      BY <2>2, SameOutcome DEF vars, storeVars
    <3> QED
      BY <3>1, <3>2
  <2> QED
    BY <2>1, <2>2 DEF Next, ClientStep
<1> QED
  BY <1>4, <1>5, <1>6, PTL DEF Spec, KeepsPromise, Promise!Spec
=============================================================================
