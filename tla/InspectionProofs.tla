-------------------------- MODULE InspectionProofs --------------------------
(* What a snapshot of a Task is worth, for any clients, Sessions, entries and *)
(* Artifacts: the reader of Inspection beside the writers of AgentInvoke.    *)
EXTENDS Inspection, AgentInvokeProofs

-----------------------------------------------------------------------------
(* What the layers of AgentInvokeProofs say of the writers.                  *)
Writers ==
    /\ TypeOK /\ Attempting
    /\ OneCallEach /\ Flags /\ WritesWhileRunning /\ Inputs /\ Progress /\ HistorySound

LEMMA InspectedIsOperated == InspectedSpec => OperatedSpec
<1>1. InspectedInit => Init
  BY DEF InspectedInit
<1>2. [InspectedNext]_allVars => [OperatedNext]_vars
  <2> SUFFICES ASSUME [InspectedNext]_allVars
               PROVE  [OperatedNext]_vars
    OBVIOUS
  <2>1. CASE \E c \in Clients : Begin(c) \/ Continue(c) \/ Return(c)
    BY <2>1 DEF OperatedNext, Next
  <2>2. CASE UNCHANGED vars
    BY <2>2
  <2> QED
    BY <2>1, <2>2 DEF InspectedNext, allVars
<1> QED
  BY <1>1, <1>2, PTL DEF InspectedSpec, OperatedSpec

LEMMA WritersAlways == OperatedSpec => []Writers
<1>1. Init => Progress /\ HistorySound
  BY DEF Init, StoreInit, NoSession, EmptyLog, NoVerdict, Progress, ProgressTells,
         OutcomeTrue, HistorySound, PlanBound, FileBound, RegistriesSound, Lines, Recorded,
         Settled
<1>2. /\ TypeOK /\ Attempting
      /\ OneCallEach /\ Flags /\ WritesWhileRunning /\ Inputs /\ Progress /\ HistorySound
      => Writers
  BY DEF Writers
<1> QED
  BY <1>1, <1>2, TypeCorrect, InputsAlways, ProgressStep, HistoryStep, PTL DEF OperatedSpec

(* A step of the system is one of a client, or leaves the files alone.       *)
LEMMA InspectedStep ==
    ASSUME [InspectedNext]_allVars
    PROVE  \/ UNCHANGED readerVars /\ \E c \in Clients : ClientStep(c)
           \/ UNCHANGED vars /\ Reader
           \/ UNCHANGED vars /\ UNCHANGED readerVars
BY DEF InspectedNext, allVars, ClientStep

-----------------------------------------------------------------------------
(* A settled Session is left alone: its files, and its lines in the          *)
(* registries.                                                               *)
LEMMA ProducedSame ==
    ASSUME NEW Line, NEW log \in Log(Line), NEW line \in Line, NEW outcome \in Outcomes,
           NEW s, line.session # s
    PROVE  Produced(Appended(log, line, outcome), s) = Produced(log, s)
<1>1. /\ Lines(log) \subseteq Lines(Appended(log, line, outcome))
      /\ Lines(Appended(log, line, outcome)) \subseteq Lines(log) \cup {line}
  BY AppendedLines
<1> QED
  BY <1>1 DEF Produced

LEMMA SettledStays ==
    ASSUME Writers, NEW c \in Clients, ClientStep(c), NEW s \in Sessions,
           sessionFile[s].status \in Settled
    PROVE  /\ sessionFile'[s] = sessionFile[s] /\ events'[s] = events[s]
           /\ Produced(artifacts', s) = Produced(artifacts, s)
           /\ Produced(consumptions', s) = Produced(consumptions, s)
<1> USE DEF Writers
<1>1. sessionFile'[s] = sessionFile[s] /\ events'[s] = events[s]
  <2>1. CASE s # session[c] \/ pc[c] \notin Executing
    BY <2>1, Footprint DEF storeVars
  <2>2. CASE s = session[c] /\ pc[c] \in Executing
    <3>1. pc[c] \notin {"log", "started", "settle-json"}
      BY <2>2 DEF WritesWhileRunning, Settled
    <3>2. sessionFile'[s] = sessionFile[s]
      BY <2>2, <3>1, FileStep DEF Settled
    <3>3. events' = events
      BY <2>2, <3>1
         DEF Settled, ClientStep, Continue, Begin, Return, Crash, Acquire, TurnedAway,
             PersistOwner, Inspect, Prepare, EnterHost, Validate, Launch, CheckInputs,
             MakeDirectory, MakeSessionDirectory, WriteSession, CreateSessionJson,
             CreateLog, LogStarted, Initialize, Consume, MayConsume, ConsumedAll,
             StartDomain, Publish, PublishArtifact, Run, Close, Settle, StillRunning,
             SettleJson, Confirm, Catch, TakeReceipt, Release, RemoveLock, storeVars
    <3> QED
      BY <3>2, <3>3
  <2> QED
    BY <2>1, <2>2
<1>2. artifacts \in Log(ArtifactLines) /\ consumptions \in Log(ConsumptionLines)
  BY DEF TypeOK, StoreTypeOK
<1>3. Produced(artifacts', s) = Produced(artifacts, s)
  <2>1. CASE artifacts' = artifacts
    BY <2>1
  <2>2. CASE artifacts' # artifacts
    <3>1. PICK a \in Artifacts \ Published, outcome \in Outcomes :
             /\ sessionFile[session[c]].status = "running"
             /\ session[c] \in Sessions
             /\ artifacts' = Appended(artifacts, [id |-> a, session |-> session[c]], outcome)
      BY <2>2, RegistryStep
    <3>2. [id |-> a, session |-> session[c]] \in ArtifactLines /\ session[c] # s
      BY <3>1 DEF ArtifactLines, Settled
    <3> QED
      BY <1>2, <3>1, <3>2, ProducedSame
  <2> QED
    BY <2>1, <2>2
<1>4. Produced(consumptions', s) = Produced(consumptions, s)
  <2>1. \/ Lines(consumptions') = Lines(consumptions)
        \/ /\ sessionFile[session[c]].status = "running"
           /\ Lines(consumptions) \subseteq Lines(consumptions')
           /\ Lines(consumptions') \subseteq Lines(consumptions) \cup {ConsumedLine(c)}
    BY ConsumptionsStep
  <2>2. sessionFile[session[c]].status = "running" => ConsumedLine(c).session # s
    BY DEF ConsumedLine, Settled
  <2> QED
    BY <2>1, <2>2 DEF Produced
<1> QED
  BY <1>1, <1>3, <1>4

-----------------------------------------------------------------------------
(* The reader: where it is, and what one step of it reads.                   *)
Snapshots ==
    [sessions : [Sessions -> SessionFiles], events : [Sessions -> Log(EventLines)],
     artifacts : Log(ArtifactLines), consumptions : Log(ConsumptionLines)]

ReaderTypeOK ==
    /\ at \in 1 .. 6
    /\ todo \subseteq Sessions /\ listed \subseteq Sessions /\ before \subseteq Sessions
    /\ seen \in Snapshots
    /\ history \in {"reading", "readable", "unreadable"}

ListsThem ==
    /\ at = 1 /\ at' = 2 /\ seen' = seen
    /\ listed' = {s \in Sessions : sessionFile[s].status # "absent"}
    /\ todo' = listed'
    /\ before' = {s \in Sessions : Whole(s)}

ReadsSession(s) ==
    /\ at = 2 /\ s \in todo
    /\ seen' = [seen EXCEPT !.sessions = [@ EXCEPT ![s] = sessionFile[s]]]

ReadsLog(s) ==
    /\ at = 5 /\ s \in todo
    /\ seen' = [seen EXCEPT !.events = [@ EXCEPT ![s] = events[s]]]

ReadsRegistry ==
    \/ at = 3 /\ seen' = [seen EXCEPT !.artifacts = artifacts]
    \/ at = 4 /\ seen' = [seen EXCEPT !.consumptions = consumptions]

GoesOver(s) ==
    \/ todo = {s} /\ at' = at + 1 /\ todo' = listed
    \/ todo # {s} /\ at' = at /\ todo' = todo \ {s}

ReaderMove ==
    /\ history = "reading" /\ at \in 1 .. 6
    /\ \/ ListsThem /\ history' = history
       \/ /\ UNCHANGED <<listed, before, history>>
          /\ \/ \E s \in Sessions : (ReadsSession(s) \/ ReadsLog(s)) /\ GoesOver(s)
             \/ ReadsRegistry /\ at' = at + 1 /\ todo' = listed
             \/ at \in {2, 5} /\ todo = {} /\ seen' = seen /\ at' = at + 1 /\ todo' = listed
       \/ /\ at = 6 /\ at' = 6 /\ listed' = {} /\ todo' = {}
          /\ \/ Snapshot!HistoryReadable /\ history' = "readable" /\ seen' = seen /\ before' = {}
             \/ /\ ~Snapshot!HistoryReadable /\ history' = "unreadable"
                /\ seen' = NothingSeen /\ before' = before

LEMMA StageAt ==
    /\ Stage("list") => at = 1 /\ history = "reading"
    /\ Stage("sessions") => at = 2 /\ history = "reading"
    /\ Stage("artifacts") => at = 3 /\ history = "reading"
    /\ Stage("consumptions") => at = 4 /\ history = "reading"
    /\ Stage("logs") => at = 5 /\ history = "reading"
    /\ Stage("check") => at = 6 /\ history = "reading"
BY DEF Stage, Order

LEMMA ReaderMoves ==
    ASSUME Reader
    PROVE  ReaderMove
<1>1. CASE ListDirectories
  BY <1>1, StageAt DEF ListDirectories, Advances, ReaderMove, ListsThem
<1>2. ASSUME NEW s \in Sessions, ReadSession(s)
      PROVE  ReaderMove
  <2>1. ReadsSession(s) /\ GoesOver(s) /\ UNCHANGED <<listed, before, history>>
        /\ history = "reading" /\ at = 2
    BY <1>2, StageAt DEF ReadSession, ReadOne, Advances, ReadsSession, GoesOver
  <2> QED
    BY <2>1 DEF ReaderMove
<1>3. ASSUME NEW s \in Sessions, ReadLog(s)
      PROVE  ReaderMove
  <2>1. ReadsLog(s) /\ GoesOver(s) /\ UNCHANGED <<listed, before, history>>
        /\ history = "reading" /\ at = 5
    BY <1>3, StageAt DEF ReadLog, ReadOne, Advances, ReadsLog, GoesOver
  <2> QED
    BY <2>1 DEF ReaderMove
<1>4. CASE NoneListed \/ ReadRegistry
  BY <1>4, StageAt DEF NoneListed, ReadRegistry, Advances, ReaderMove, ReadsRegistry
<1>5. CASE Check
  BY <1>5, StageAt DEF Check, ReaderMove
<1> QED
  BY <1>1, <1>2, <1>3, <1>4, <1>5 DEF Reader

LEMMA SessionSeen ==
    ASSUME TypeOK, ReaderTypeOK, NEW s \in Sessions, ReadsSession(s)
    PROVE  /\ seen' \in Snapshots
           /\ UNCHANGED <<seen.events, seen.artifacts, seen.consumptions>>
           /\ seen'.sessions[s] = sessionFile[s]
           /\ \A t \in Sessions \ {s} : seen'.sessions[t] = seen.sessions[t]
<1> DEFINE copy == [seen.sessions EXCEPT ![s] = sessionFile[s]]
<1>1. seen.sessions \in [Sessions -> SessionFiles] /\ sessionFile[s] \in SessionFiles
  BY DEF ReaderTypeOK, Snapshots, TypeOK, StoreTypeOK
<1>2. copy \in [Sessions -> SessionFiles] /\ copy[s] = sessionFile[s]
      /\ \A t \in Sessions \ {s} : copy[t] = seen.sessions[t]
  BY <1>1
<1>3. seen' = [seen EXCEPT !.sessions = copy]
  BY DEF ReadsSession
<1> HIDE DEF copy
<1> QED
  BY <1>2, <1>3 DEF ReaderTypeOK, Snapshots

LEMMA LogSeen ==
    ASSUME TypeOK, ReaderTypeOK, NEW s \in Sessions, ReadsLog(s)
    PROVE  /\ seen' \in Snapshots
           /\ UNCHANGED <<seen.sessions, seen.artifacts, seen.consumptions>>
           /\ seen'.events[s] = events[s]
           /\ \A t \in Sessions \ {s} : seen'.events[t] = seen.events[t]
<1> DEFINE copy == [seen.events EXCEPT ![s] = events[s]]
<1>1. seen.events \in [Sessions -> Log(EventLines)] /\ events[s] \in Log(EventLines)
  BY DEF ReaderTypeOK, Snapshots, TypeOK, StoreTypeOK
<1>2. copy \in [Sessions -> Log(EventLines)] /\ copy[s] = events[s]
      /\ \A t \in Sessions \ {s} : copy[t] = seen.events[t]
  BY <1>1
<1>3. seen' = [seen EXCEPT !.events = copy]
  BY DEF ReadsLog
<1> HIDE DEF copy
<1> QED
  BY <1>2, <1>3 DEF ReaderTypeOK, Snapshots

LEMMA RegistrySeen ==
    ASSUME TypeOK, ReaderTypeOK, ReadsRegistry
    PROVE  /\ seen' \in Snapshots
           /\ UNCHANGED <<seen.sessions, seen.events>>
           /\ \/ at = 3 /\ seen'.artifacts = artifacts
              \/ /\ at = 4 /\ seen'.artifacts = seen.artifacts
                 /\ seen'.consumptions = consumptions
BY DEF ReadsRegistry, ReaderTypeOK, Snapshots, TypeOK, StoreTypeOK

LEMMA ReaderTypeInit == ReaderInit => ReaderTypeOK
BY NoSessionType, EmptyLogType
   DEF ReaderInit, ReaderTypeOK, NothingSeen, Snapshots

LEMMA ReaderTypeStep ==
    ASSUME TypeOK, ReaderTypeOK, Reader
    PROVE  ReaderTypeOK'
<1>1. ReaderMove
  BY ReaderMoves
<1>2. NothingSeen \in Snapshots
  BY NoSessionType, EmptyLogType DEF NothingSeen, Snapshots
<1>3. seen' \in Snapshots
  <2>1. ASSUME NEW s \in Sessions, ReadsSession(s) \/ ReadsLog(s)
        PROVE  seen' \in Snapshots
    BY <2>1, SessionSeen, LogSeen
  <2>2. CASE ReadsRegistry
    BY <2>2, RegistrySeen
  <2>3. CASE seen' \in {seen, NothingSeen}
    BY <1>2, <2>3 DEF ReaderTypeOK
  <2> QED
    BY <1>1, <2>1, <2>2, <2>3 DEF ReaderMove, ListsThem
<1>4. /\ listed' \subseteq Sessions /\ todo' \subseteq Sessions /\ before' \subseteq Sessions
      /\ history' \in {"reading", "readable", "unreadable"}
  BY <1>1 DEF ReaderMove, ListsThem, GoesOver, ReaderTypeOK
<1>5. at' \in 1 .. 6
  BY <1>1 DEF ReaderMove, ListsThem, GoesOver, ReadsSession, ReadsLog, ReadsRegistry
<1> QED
  BY <1>3, <1>4, <1>5 DEF ReaderTypeOK

-----------------------------------------------------------------------------
(* What was read of a settled Session is what is still in its files.         *)
Agrees(s) ==
    /\ seen.sessions[s].started = "no" => seen.sessions[s].status \in Settled
    /\ seen.sessions[s].status \in Settled =>
          /\ sessionFile[s] = seen.sessions[s]
          /\ seen.events[s] # NoLog => events[s] = seen.events[s]
          /\ at > 3 => Produced(artifacts, s) = Produced(seen.artifacts, s)
          /\ at > 4 => Produced(consumptions, s) = Produced(seen.consumptions, s)

SnapshotAgrees ==
    /\ history = "readable" => at = 6
    /\ at < 5 => \A s \in Sessions : seen.events[s] = NoLog
    /\ \A s \in Sessions : Agrees(s)

LEMMA NothingAgrees ==
    ASSUME seen = NothingSeen, NEW s \in Sessions
    PROVE  Agrees(s) /\ seen.events[s] = NoLog
BY DEF NothingSeen, NoSession, Agrees, Settled

LEMMA AgreesStep ==
    ASSUME Writers, ReaderTypeOK, SnapshotAgrees, [InspectedNext]_allVars
    PROVE  SnapshotAgrees'
<1>1. ASSUME UNCHANGED readerVars, NEW c \in Clients, ClientStep(c)
      PROVE  SnapshotAgrees'
  <2>1. ASSUME NEW s \in Sessions
        PROVE  Agrees(s)'
    <3>1. CASE seen.sessions[s].status \notin Settled
      BY <1>1, <3>1 DEF SnapshotAgrees, Agrees, readerVars
    <3>2. CASE seen.sessions[s].status \in Settled
      <4>1. sessionFile[s].status \in Settled
        BY <3>2 DEF SnapshotAgrees, Agrees
      <4>2. /\ sessionFile'[s] = sessionFile[s] /\ events'[s] = events[s]
            /\ Produced(artifacts', s) = Produced(artifacts, s)
            /\ Produced(consumptions', s) = Produced(consumptions, s)
        BY <1>1, <4>1, SettledStays
      <4> QED
        BY <1>1, <3>2, <4>2 DEF SnapshotAgrees, Agrees, readerVars
    <3> QED
      BY <3>1, <3>2
  <2> QED
    BY <1>1, <2>1 DEF SnapshotAgrees, readerVars
<1>2. CASE UNCHANGED vars /\ Reader
  <2>0. UNCHANGED <<sessionFile, events, artifacts, consumptions>> /\ ReaderMove
        /\ history = "reading"
    BY <1>2, ReaderMoves DEF vars, storeVars, ReaderMove
  <2>1. at \in Nat /\ TypeOK /\ \A s \in Sessions : OutcomeTrue(s)
    BY DEF ReaderTypeOK, Writers, Progress
  <2>2. ASSUME NEW s \in Sessions, ReadsSession(s), GoesOver(s), history' = history
        PROVE  SnapshotAgrees'
    <3>1. /\ UNCHANGED <<seen.events, seen.artifacts, seen.consumptions>>
          /\ seen'.sessions[s] = sessionFile[s]
          /\ \A t \in Sessions \ {s} : seen'.sessions[t] = seen.sessions[t]
      BY <2>1, <2>2, SessionSeen
    <3>2. at = 2 /\ at' \in {2, 3} /\ history' # "readable"
      BY <2>2 DEF ReadsSession, GoesOver, SnapshotAgrees
    <3>3. \A t \in Sessions : seen'.events[t] = NoLog
      BY <3>1, <3>2 DEF SnapshotAgrees
    <3>4. ASSUME NEW t \in Sessions
          PROVE  Agrees(t)'
      <4>1. CASE t = s
        BY <2>0, <2>1, <3>1, <3>2, <3>3, <4>1 DEF Agrees, OutcomeTrue
      <4>2. CASE t # s
        BY <2>0, <3>1, <3>2, <3>3, <4>2 DEF SnapshotAgrees, Agrees
      <4> QED
        BY <4>1, <4>2
    <3> QED
      BY <3>2, <3>3, <3>4 DEF SnapshotAgrees
  <2>3. ASSUME NEW s \in Sessions, ReadsLog(s), GoesOver(s), history' = history
        PROVE  SnapshotAgrees'
    <3>1. /\ UNCHANGED <<seen.sessions, seen.artifacts, seen.consumptions>>
          /\ seen'.events[s] = events[s]
          /\ \A t \in Sessions \ {s} : seen'.events[t] = seen.events[t]
      BY <2>1, <2>3, LogSeen
    <3>2. at = 5 /\ at' \in {5, 6} /\ history' # "readable"
      BY <2>3 DEF ReadsLog, GoesOver, SnapshotAgrees
    <3>3. ASSUME NEW t \in Sessions
          PROVE  Agrees(t)'
      <4>1. Agrees(t)
        BY DEF SnapshotAgrees
      <4>2. CASE t = s
        BY <2>0, <3>1, <3>2, <4>1, <4>2 DEF Agrees
      <4>3. CASE t # s
        BY <2>0, <3>1, <3>2, <4>1, <4>3 DEF Agrees
      <4> QED
        BY <4>2, <4>3
    <3> QED
      BY <3>2, <3>3 DEF SnapshotAgrees
  <2>4. CASE ReadsRegistry /\ at' = at + 1 /\ history' = history
    <3>1. /\ UNCHANGED <<seen.sessions, seen.events>>
          /\ \/ at = 3 /\ at' = 4 /\ seen'.artifacts = artifacts
             \/ /\ at = 4 /\ at' = 5 /\ seen'.artifacts = seen.artifacts
                /\ seen'.consumptions = consumptions
      BY <2>1, <2>4, RegistrySeen
    <3>2. history' # "readable"
      BY <2>4, <3>1 DEF SnapshotAgrees
    <3>3. ASSUME NEW t \in Sessions
          PROVE  Agrees(t)'
      <4>1. Agrees(t)
        BY DEF SnapshotAgrees
      <4> QED
        BY <2>0, <3>1, <4>1 DEF Agrees
    <3> QED
      BY <3>1, <3>2, <3>3 DEF SnapshotAgrees
  <2>5. CASE /\ seen' = seen /\ history' = history
             /\ \/ at = 1 /\ at' = 2
                \/ at \in {2, 5} /\ at' = at + 1
    <3>1. history' # "readable" /\ seen' = seen
          /\ ((at = 1 /\ at' = 2) \/ (at = 2 /\ at' = 3) \/ (at = 5 /\ at' = 6))
      BY <2>0, <2>1, <2>5
    <3>2. ASSUME NEW t \in Sessions
          PROVE  Agrees(t)' /\ (at' < 5 => seen'.events[t] = NoLog)
      <4>1. Agrees(t) /\ (at < 5 => seen.events[t] = NoLog)
        BY DEF SnapshotAgrees
      <4>2. (at' > 3 <=> at > 3) /\ (at' > 4 <=> at > 4) /\ (at' < 5 => at < 5)
        BY <3>1
      <4> QED
        BY <2>0, <3>1, <4>1, <4>2 DEF Agrees
    <3> QED
      BY <3>1, <3>2 DEF SnapshotAgrees
  <2>6. CASE at = 6 /\ at' = 6 /\ seen' = seen
    BY <2>0, <2>6 DEF SnapshotAgrees, Agrees
  <2>7. CASE at' = 6 /\ seen' = NothingSeen /\ history' = "unreadable"
    <3>1. \A s \in Sessions : Agrees(s)'
      BY <2>7 DEF NothingSeen, NoSession, Agrees, Settled
    <3> QED
      BY <2>7, <3>1 DEF SnapshotAgrees
  <2> QED
    BY <2>0, <2>2, <2>3, <2>4, <2>5, <2>6, <2>7 DEF ReaderMove, ListsThem
<1>3. CASE UNCHANGED vars /\ UNCHANGED readerVars
  BY <1>3 DEF vars, storeVars, readerVars, SnapshotAgrees, Agrees
<1> QED
  BY <1>1, <1>2, <1>3, InspectedStep

LEMMA InspectionAlways == InspectedSpec => [](Writers /\ ReaderTypeOK /\ SnapshotAgrees)
<1>1. InspectedInit => ReaderTypeOK /\ SnapshotAgrees
  <2> SUFFICES ASSUME InspectedInit
               PROVE  ReaderTypeOK /\ SnapshotAgrees
    OBVIOUS
  <2>1. \A s \in Sessions : Agrees(s) /\ seen.events[s] = NoLog
    BY NothingAgrees DEF InspectedInit, ReaderInit
  <2> QED
    BY <2>1, ReaderTypeInit DEF InspectedInit, ReaderInit, SnapshotAgrees
<1>2. Writers /\ ReaderTypeOK /\ SnapshotAgrees /\ [InspectedNext]_allVars
      => ReaderTypeOK' /\ SnapshotAgrees'
  <2> SUFFICES ASSUME Writers, ReaderTypeOK, SnapshotAgrees, [InspectedNext]_allVars
               PROVE  ReaderTypeOK' /\ SnapshotAgrees'
    OBVIOUS
  <2>1. UNCHANGED readerVars => ReaderTypeOK'
    BY DEF readerVars, ReaderTypeOK
  <2>2. Reader => ReaderTypeOK'
    BY ReaderTypeStep DEF Writers
  <2> QED
    BY <2>1, <2>2, InspectedStep, AgreesStep
<1>3. InspectedSpec => []Writers
  BY InspectedIsOperated, WritersAlways
<1> QED
  BY <1>1, <1>2, <1>3, PTL DEF InspectedSpec

(* The reader of inspectTask beside any clients: what its snapshot confirms  *)
(* of a Session is so when it is told and stays so, and it is all there is,  *)
(* although session.json, the registries and the log were read one after the *)
(* other while others wrote: the terminal event comes before the settled     *)
(* session.json, so nothing more is to come once that one is seen.           *)
THEOREM ConfirmedInSnapshotIsWholeAlways == InspectedSpec => []ConfirmedInSnapshotIsWhole
<1>1. ASSUME Writers, ReaderTypeOK, SnapshotAgrees
      PROVE  ConfirmedInSnapshotIsWhole
  <2> SUFFICES ASSUME history = "readable", NEW s \in Sessions
               PROVE  /\ Snapshot!Confirmed(s) =>
                            /\ sessionFile[s] = seen.sessions[s]
                            /\ events[s] = seen.events[s]
                            /\ Produced(artifacts, s) = Produced(seen.artifacts, s)
                            /\ Produced(consumptions, s) = Produced(seen.consumptions, s)
                            /\ sessionFile[s].status = "completed" => native[s] = NativeFacts
                      /\ Snapshot!StartedFact(s) = "no" => "run" \notin native[s]
    BY DEF ConfirmedInSnapshotIsWhole
  <2>1. Agrees(s) /\ at = 6 /\ OutcomeTrue(s)
    BY <1>1 DEF SnapshotAgrees, Writers, Progress
  <2>2. ASSUME Snapshot!Confirmed(s)
        PROVE  /\ sessionFile[s] = seen.sessions[s]
               /\ events[s] = seen.events[s]
               /\ Produced(artifacts, s) = Produced(seen.artifacts, s)
               /\ Produced(consumptions, s) = Produced(seen.consumptions, s)
               /\ sessionFile[s].status = "completed" => native[s] = NativeFacts
    <3>1. seen.sessions[s].status \in Settled /\ seen.events[s] # NoLog
      BY <2>2 DEF Snapshot!Confirmed, Snapshot!Terminals, Snapshot!Settled, Settled, NoLog
    <3> QED
      BY <2>1, <3>1 DEF Agrees, OutcomeTrue
  <2>3. ASSUME Snapshot!StartedFact(s) = "no"
        PROVE  "run" \notin native[s]
    <3>1. seen.sessions[s].started = "no"
      BY <2>3 DEF Snapshot!StartedFact
    <3> QED
      BY <2>1, <3>1 DEF Agrees, OutcomeTrue
  <2> QED
    BY <2>2, <2>3
<1> QED
  BY <1>1, InspectionAlways, PTL

-----------------------------------------------------------------------------
(* What disturbs a reader.  A log is intact only once its Session is         *)
(* recorded and its creation is over.                                        *)
LogsFresh ==
    /\ \A s \in Sessions : sessionFile[s].status \notin Recorded => ~events[s].intact
    /\ \A c \in Clients : pc[c] = "log" => ~events[session[c]].intact

LEMMA FileStays ==
    ASSUME Writers, NEW c \in Clients, ClientStep(c), NEW s \in Sessions
    PROVE  /\ sessionFile[s].status # "absent" => sessionFile'[s].status # "absent"
           /\ sessionFile[s].status \in Recorded =>
                 /\ sessionFile'[s].status \in Recorded
                 /\ sessionFile'[s].entry = sessionFile[s].entry
                 /\ sessionFile'[s].inputs = sessionFile[s].inputs
<1> USE DEF Writers
<1>1. CASE s # session[c] \/ pc[c] \notin Executing
  BY <1>1, Footprint DEF storeVars
<1>2. CASE s = session[c] /\ pc[c] \in Executing
  <2>1. verdict[c].status \in Settled /\ sessionFile[s] \in SessionFiles
    BY DEF TypeOK, StoreTypeOK, Verdicts
  <2> QED
    BY <1>2, <2>1, FileStep DEF SessionFiles, NoSession, Recorded, Settled
<1> QED
  BY <1>1, <1>2

LEMMA LogStays ==
    ASSUME Writers, NEW c \in Clients, ClientStep(c), NEW s \in Sessions, events'[s].intact
    PROVE  \/ events[s].intact
           \/ pc[c] = "log" /\ s = session[c]
<1> USE DEF Writers
<1>1. CASE s # session[c] \/ pc[c] \notin Executing
  BY <1>1, Footprint DEF storeVars
<1>2. CASE s = session[c] /\ pc[c] \in Executing
  BY <1>2, EventsStep DEF Grows
<1> QED
  BY <1>1, <1>2

(* The registries only grow, and are never repaired.                         *)
LEMMA RegistriesGrow ==
    ASSUME Writers, NEW c \in Clients, ClientStep(c)
    PROVE  /\ artifacts'.intact => artifacts.intact
           /\ Lines(artifacts) \subseteq Lines(artifacts')
           /\ consumptions'.intact => consumptions.intact
           /\ Lines(consumptions) \subseteq Lines(consumptions')
<1> USE DEF Writers
<1>0. artifacts \in Log(ArtifactLines) /\ consumptions \in Log(ConsumptionLines)
  BY DEF TypeOK, StoreTypeOK
<1>1. /\ artifacts'.intact => artifacts.intact
      /\ Lines(artifacts) \subseteq Lines(artifacts')
  <2>1. CASE artifacts' = artifacts
    BY <2>1 DEF Lines
  <2>2. CASE artifacts' # artifacts
    <3>1. PICK a \in Artifacts \ Published, outcome \in Outcomes :
             /\ session[c] \in Sessions
             /\ artifacts' = Appended(artifacts, [id |-> a, session |-> session[c]], outcome)
      BY <2>2, RegistryStep
    <3>2. [id |-> a, session |-> session[c]] \in ArtifactLines
      BY <3>1 DEF ArtifactLines
    <3> QED
      BY <1>0, <3>1, <3>2, AppendedGrows, AppendedLines DEF Grows
  <2> QED
    BY <2>1, <2>2
<1>2. /\ consumptions'.intact => consumptions.intact
      /\ Lines(consumptions) \subseteq Lines(consumptions')
  <2>1. CASE consumptions' = consumptions
    BY <2>1 DEF Lines
  <2>2. CASE consumptions' # consumptions
    <3>1. PICK outcome \in Outcomes :
             /\ ConsumedLine(c) \in ConsumptionLines
             /\ consumptions' = Appended(consumptions, ConsumedLine(c), outcome)
      BY <2>2, RecordStep
    <3> QED
      BY <1>0, <3>1, AppendedGrows, AppendedLines DEF Grows
  <2> QED
    BY <2>1, <2>2
<1> QED
  BY <1>1, <1>2

(* Only the creation of session.json leads to the creation of the log.       *)
LEMMA BeforeLog ==
    ASSUME Writers, NEW c \in Clients, ClientStep(c), NEW d \in Clients, pc'[d] = "log"
    PROVE  /\ session'[d] = session[d] /\ session[d] \in Sessions
           /\ \/ d # c /\ pc[d] = "log"
              \/ /\ d = c /\ pc[c] = "json" /\ events' = events
                 /\ sessionFile[session[c]].status = "directory"
<1> USE DEF Writers
<1>0. \A e \in Clients : pc[e] # "idle" => session[e] \in Sessions
  BY DEF Attempting
<1>1. CASE d # c
  BY <1>0, <1>1, OthersKeepTheirs
<1>2. CASE d = c
  <2>1. WriteSession(c)
    BY <1>2
       DEF TypeOK, ClientStep, Continue, Begin, Return, Crash, Acquire, TurnedAway,
           PersistOwner, Inspect, Prepare, EnterHost, Validate, Launch, CheckInputs,
           MakeDirectory, OrCatch, WriteSession, CreateLog, LogStarted, Initialize,
           Consume, ConsumedAll, StartDomain, Publish, Run, Close, Settle, SettleFails,
           AfterEvent, SettleJson, Confirm, Catch, TakeReceipt, Release, RemoveLock, Goto
  <2> QED
    BY <1>0, <1>2, <2>1 DEF WriteSession, CreateSessionJson, callVars
<1> QED
  BY <1>1, <1>2

LEMMA LogsFreshStep ==
    ASSUME Writers, LogsFresh, NEW c \in Clients, ClientStep(c)
    PROVE  LogsFresh'
<1>1. ASSUME NEW s \in Sessions, events'[s].intact
      PROVE  sessionFile'[s].status \in Recorded
  <2>1. CASE events[s].intact
    BY <1>1, <2>1, FileStays DEF LogsFresh
  <2>2. CASE pc[c] = "log" /\ s = session[c]
    <3>1. sessionFile[s].status \in Recorded
      BY <2>2 DEF Writers, WritesWhileRunning, Recorded
    <3> QED
      BY <3>1, FileStays
  <2> QED
    BY <1>1, <2>1, <2>2, LogStays
<1>2. ASSUME NEW d \in Clients, pc'[d] = "log"
      PROVE  ~events'[session'[d]].intact
  <2>1. session'[d] = session[d] /\ session[d] \in Sessions
    BY <1>2, BeforeLog
  <2>2. CASE d # c /\ pc[d] = "log"
    <3>1. events'[session[d]] = events[session[d]]
      BY <2>2, OthersKeepSession DEF Writers
    <3> QED
      BY <2>1, <2>2, <3>1 DEF LogsFresh
  <2>3. CASE events' = events /\ sessionFile[session[d]].status = "directory"
    BY <2>1, <2>3 DEF LogsFresh, Recorded, Settled
  <2> QED
    BY <1>2, <2>2, <2>3, BeforeLog
<1> QED
  BY <1>1, <1>2 DEF LogsFresh

(* The Sessions that were whole at readdir stay recorded, and their logs are *)
(* never created again.                                                      *)
Known ==
    \A s \in before :
        /\ sessionFile[s].status \in Recorded
        /\ \A c \in Clients : pc[c] = "log" => session[c] # s

LEMMA KnownStep ==
    ASSUME Writers, ReaderTypeOK, Known, NEW c \in Clients, ClientStep(c), before' = before
    PROVE  Known'
<1>1. ASSUME NEW s \in before
      PROVE  /\ sessionFile'[s].status \in Recorded
             /\ \A d \in Clients : pc'[d] = "log" => session'[d] # s
  <2>1. s \in Sessions /\ sessionFile[s].status \in Recorded
    BY DEF Known, ReaderTypeOK
  <2>2. ASSUME NEW d \in Clients, pc'[d] = "log"
        PROVE  session'[d] # s
    BY <2>1, <2>2, BeforeLog DEF Known, Recorded, Settled
  <2> QED
    BY <2>1, <2>2, FileStays
<1> QED
  BY <1>1 DEF Known

Disturbed == Damaged \/ \E s \in Sessions : Whole(s) /\ s \notin before

(* Damage lasts, and so does what came after readdir: a Session that was     *)
(* half made and is whole now was not whole then.                            *)
LEMMA DisturbedStays ==
    ASSUME Writers, ReaderTypeOK, Known, Disturbed, NEW c \in Clients, ClientStep(c),
           before' = before
    PROVE  Disturbed'
<1>1. CASE ~artifacts.intact \/ ~consumptions.intact
  BY <1>1, RegistriesGrow DEF Disturbed, Damaged
<1>2. ASSUME NEW s \in Sessions, sessionFile[s].status # "absent", ~Whole(s) \/ s \notin before
      PROVE  Disturbed'
  <2>1. sessionFile'[s].status # "absent"
    BY <1>2, FileStays
  <2>2. CASE ~Whole(s)'
    BY <2>1, <2>2 DEF Disturbed, Damaged
  <2>3. CASE Whole(s)' /\ s \in before
    BY <1>2, <2>3, LogStays DEF Known, Whole, SessionReadable
  <2>4. CASE Whole(s)' /\ s \notin before
    BY <2>4 DEF Disturbed
  <2> QED
    BY <2>2, <2>3, <2>4
<1> QED
  BY <1>1, <1>2 DEF Disturbed, Damaged, Whole, SessionReadable, Recorded, Settled

-----------------------------------------------------------------------------
(* What was read so far, as long as the history is not known to be readable. *)
BeenRead(turn, s) == at > turn \/ (at = turn /\ s \notin todo)

FileRead(s) ==
    /\ seen.sessions[s].status \in Recorded
    /\ seen.sessions[s].entry = sessionFile[s].entry
    /\ seen.sessions[s].inputs = sessionFile[s].inputs

BoundIn(registry, file) ==
    /\ DOMAIN file.inputs = DOMAIN Requires[file.entry]
    /\ \A i \in DOMAIN file.inputs :
          /\ file.inputs[i] \in Requires[file.entry][i]
          /\ \E line \in Lines(registry) : line.id = file.inputs[i]

NoRepeats(registry) ==
    \A i, j \in DOMAIN registry.lines : registry.lines[i] = registry.lines[j] => i = j

ArtifactsRead ==
    /\ artifacts.intact => seen.artifacts.intact
    /\ Lines(seen.artifacts) \subseteq Lines(artifacts)
    /\ \A i, j \in DOMAIN seen.artifacts.lines :
          seen.artifacts.lines[i].id = seen.artifacts.lines[j].id => i = j
    /\ \A s \in before : BoundIn(seen.artifacts, seen.sessions[s])

ConsumptionsRead ==
    /\ consumptions.intact => seen.consumptions.intact
    /\ Lines(seen.consumptions) \subseteq Lines(consumptions)
    /\ NoRepeats(seen.consumptions)

ReadSoFar ==
    /\ at = 1 => listed = {}
    /\ todo \subseteq listed /\ before \subseteq listed
    /\ \A s \in Sessions \ listed : seen.sessions[s].status = "absent"
    /\ \A s \in listed : sessionFile[s].status # "absent"
    /\ \A s \in before : BeenRead(2, s) => FileRead(s)
    /\ \A s \in before : BeenRead(5, s) => (events[s].intact => seen.events[s].intact)
    /\ at > 3 => ArtifactsRead
    /\ at > 4 => ConsumptionsRead

LEMMA ReadStays ==
    ASSUME Writers, ReaderTypeOK, Known, ReadSoFar, NEW c \in Clients, ClientStep(c),
           UNCHANGED readerVars
    PROVE  ReadSoFar'
<1> USE DEF readerVars
<1>1. ASSUME NEW s \in listed
      PROVE  sessionFile'[s].status # "absent"
  BY FileStays DEF ReadSoFar, ReaderTypeOK
<1>2. ASSUME NEW s \in before, BeenRead(2, s)
      PROVE  FileRead(s)'
  <2>1. FileRead(s) /\ s \in Sessions /\ sessionFile[s].status \in Recorded
    BY <1>2 DEF ReadSoFar, Known, ReaderTypeOK
  <2> QED
    BY <2>1, FileStays DEF FileRead
<1>3. ASSUME NEW s \in before, BeenRead(5, s), events'[s].intact
      PROVE  seen.events[s].intact
  <2>1. events[s].intact
    BY <1>3, LogStays DEF Known, ReaderTypeOK
  <2> QED
    BY <1>3, <2>1 DEF ReadSoFar
<1>4. at > 3 => ArtifactsRead'
  BY RegistriesGrow DEF ReadSoFar, ArtifactsRead, BoundIn
<1>5. at > 4 => ConsumptionsRead'
  BY RegistriesGrow DEF ReadSoFar, ConsumptionsRead, NoRepeats
<1> QED
  BY <1>1, <1>2, <1>3, <1>4, <1>5 DEF ReadSoFar, BeenRead

LEMMA ListsThemReads ==
    ASSUME Writers, ReaderTypeOK, LogsFresh, ReadSoFar, UNCHANGED vars, ListsThem
    PROVE  Known' /\ ReadSoFar'
<1>0. /\ UNCHANGED <<sessionFile, events, pc, session>>
      /\ at = 1 /\ at' = 2 /\ seen' = seen /\ todo' = listed'
      /\ listed' = {s \in Sessions : sessionFile[s].status # "absent"}
      /\ before' = {s \in Sessions : Whole(s)}
  BY DEF vars, storeVars, callVars, ListsThem
<1>1. before' \subseteq listed'
  BY <1>0 DEF Whole, SessionReadable, Recorded, Settled
<1>2. \A s \in before' : ~BeenRead(2, s)' /\ ~BeenRead(5, s)'
  BY <1>0, <1>1 DEF BeenRead
<1>3. Known'
  BY <1>0 DEF Known, Whole, SessionReadable, LogsFresh
<1>4. \A s \in Sessions : seen'.sessions[s].status = "absent"
  BY <1>0 DEF ReadSoFar
<1> QED
  BY <1>0, <1>1, <1>2, <1>3, <1>4 DEF ReadSoFar

LEMMA SessionReads ==
    ASSUME Writers, ReaderTypeOK, Known, ReadSoFar, UNCHANGED vars,
           NEW s \in Sessions, ReadsSession(s), GoesOver(s), UNCHANGED <<listed, before>>
    PROVE  ReadSoFar'
<1>0. /\ UNCHANGED <<sessionFile, events>>
      /\ UNCHANGED <<seen.events, seen.artifacts, seen.consumptions>>
      /\ seen'.sessions[s] = sessionFile[s]
      /\ \A t \in Sessions \ {s} : seen'.sessions[t] = seen.sessions[t]
  BY SessionSeen DEF vars, storeVars, Writers
<1>1. /\ at = 2 /\ s \in todo
      /\ \/ todo = {s} /\ at' = 3 /\ todo' = listed
         \/ todo # {s} /\ at' = 2 /\ todo' = todo \ {s}
  BY DEF ReadsSession, GoesOver
<1>2. ASSUME NEW t \in before, BeenRead(2, t)'
      PROVE  FileRead(t)'
  <2>1. t \in Sessions /\ sessionFile[t].status \in Recorded
    BY DEF Known, ReaderTypeOK
  <2>2. CASE t = s
    BY <1>0, <2>1, <2>2 DEF FileRead
  <2>3. CASE t # s
    <3>1. BeenRead(2, t)
      BY <1>1, <1>2, <2>3 DEF BeenRead
    <3> QED
      BY <1>0, <2>1, <2>3, <3>1 DEF ReadSoFar, FileRead
  <2> QED
    BY <2>2, <2>3
<1>3. \A t \in before : ~BeenRead(5, t)'
  BY <1>1 DEF BeenRead
<1>4. s \in listed
  BY <1>1 DEF ReadSoFar
<1> QED
  BY <1>0, <1>1, <1>2, <1>3, <1>4 DEF ReadSoFar

LEMMA LogReads ==
    ASSUME Writers, ReaderTypeOK, ReadSoFar, UNCHANGED vars,
           NEW s \in Sessions, ReadsLog(s), GoesOver(s), UNCHANGED <<listed, before>>
    PROVE  ReadSoFar'
<1>0. /\ UNCHANGED <<sessionFile, events, artifacts, consumptions>>
      /\ UNCHANGED <<seen.sessions, seen.artifacts, seen.consumptions>>
      /\ seen'.events[s] = events[s]
      /\ \A t \in Sessions \ {s} : seen'.events[t] = seen.events[t]
  BY LogSeen DEF vars, storeVars, Writers
<1>1. /\ at = 5 /\ s \in todo
      /\ \/ todo = {s} /\ at' = 6 /\ todo' = listed
         \/ todo # {s} /\ at' = 5 /\ todo' = todo \ {s}
  BY DEF ReadsLog, GoesOver
<1>2. ASSUME NEW t \in before, BeenRead(5, t)', events[t].intact
      PROVE  seen'.events[t].intact
  <2>1. CASE t = s
    BY <1>0, <1>2, <2>1
  <2>2. CASE t # s
    <3>1. BeenRead(5, t) /\ t \in Sessions
      BY <1>1, <1>2, <2>2 DEF BeenRead, ReaderTypeOK
    <3> QED
      BY <1>0, <1>2, <2>2, <3>1 DEF ReadSoFar
  <2> QED
    BY <2>1, <2>2
<1>3. \A t \in before : FileRead(t)'
  BY <1>0, <1>1 DEF ReadSoFar, BeenRead, FileRead
<1>4. ArtifactsRead' /\ ConsumptionsRead'
  BY <1>0, <1>1 DEF ReadSoFar, ArtifactsRead, ConsumptionsRead, NoRepeats, BoundIn
<1> QED
  BY <1>0, <1>1, <1>2, <1>3, <1>4 DEF ReadSoFar

LEMMA RegistryReads ==
    ASSUME Writers, ReaderTypeOK, Known, ReadSoFar, UNCHANGED vars,
           ReadsRegistry, at' = at + 1, todo' = listed, UNCHANGED <<listed, before>>
    PROVE  ReadSoFar'
<1>0. /\ UNCHANGED <<sessionFile, events, artifacts, consumptions>>
      /\ UNCHANGED <<seen.sessions, seen.events>>
      /\ \/ at = 3 /\ at' = 4 /\ seen'.artifacts = artifacts
         \/ /\ at = 4 /\ at' = 5 /\ seen'.artifacts = seen.artifacts
            /\ seen'.consumptions = consumptions
  BY RegistrySeen DEF vars, storeVars, Writers
<1>1. \A s \in before : FileRead(s)' /\ FileRead(s)
  BY <1>0 DEF ReadSoFar, BeenRead, FileRead
<1>2. ArtifactsRead'
  <2>1. CASE at = 3
    <3>1. ASSUME NEW s \in before
          PROVE  BoundIn(artifacts, seen.sessions[s])
      <4>1. BoundTo(sessionFile[s].entry, sessionFile[s].inputs)
        BY DEF Known, ReaderTypeOK, Writers, HistorySound, FileBound
      <4> QED
        BY <1>1, <4>1 DEF FileRead, BoundTo, BoundIn, Published
    <3> QED
      BY <1>0, <2>1, <3>1 DEF ArtifactsRead, Writers, HistorySound, RegistriesSound
  <2>2. CASE at = 4
    BY <1>0, <2>2 DEF ReadSoFar, ArtifactsRead, BoundIn
  <2> QED
    BY <1>0, <2>1, <2>2
<1>3. at' > 4 => ConsumptionsRead'
  BY <1>0 DEF ConsumptionsRead, NoRepeats, Writers, HistorySound, RegistriesSound
<1>4. \A s \in before : ~BeenRead(5, s)'
  BY <1>0 DEF BeenRead, ReadSoFar
<1> QED
  BY <1>0, <1>1, <1>2, <1>3, <1>4 DEF ReadSoFar

LEMMA NoneReads ==
    ASSUME Writers, ReaderTypeOK, ReadSoFar, UNCHANGED vars, seen' = seen,
           at \in {2, 5}, todo = {}, at' = at + 1, todo' = listed, UNCHANGED <<listed, before>>
    PROVE  ReadSoFar'
<1>0. UNCHANGED <<sessionFile, events, artifacts, consumptions>>
  BY DEF vars, storeVars
<1>1. (at = 2 /\ at' = 3) \/ (at = 5 /\ at' = 6)
  OBVIOUS
<1>2. \A s \in before : FileRead(s)'
  BY <1>0, <1>1 DEF ReadSoFar, BeenRead, FileRead
<1>3. ASSUME NEW s \in before, BeenRead(5, s)', events[s].intact
      PROVE  seen.events[s].intact
  BY <1>1, <1>3 DEF ReadSoFar, BeenRead
<1>4. (at' > 3 => ArtifactsRead') /\ (at' > 4 => ConsumptionsRead')
  BY <1>0, <1>1 DEF ReadSoFar, ArtifactsRead, ConsumptionsRead, NoRepeats, BoundIn
<1> QED
  BY <1>0, <1>1, <1>2, <1>3, <1>4 DEF ReadSoFar

(* When nothing is damaged and nothing is new, what was read is a history.   *)
LEMMA UndisturbedReads ==
    ASSUME Writers, ReaderTypeOK, Known, ReadSoFar, at = 6, ~Disturbed
    PROVE  Snapshot!HistoryReadable
<1>0. /\ Lines(seen.artifacts) \subseteq ArtifactLines
      /\ Lines(seen.consumptions) \subseteq ConsumptionLines
  BY DEF ReaderTypeOK, Snapshots, Log, Lines
<1>1. ASSUME NEW s \in Sessions, sessionFile[s].status # "absent"
      PROVE  s \in before /\ events[s].intact
  BY <1>1 DEF Disturbed, Damaged, Whole
<1>2. \A s \in before : FileRead(s) /\ BeenRead(5, s)
  BY DEF ReadSoFar, BeenRead
<1>3. ArtifactsRead /\ ConsumptionsRead
  BY DEF ReadSoFar
<1>4. ASSUME NEW s \in Sessions, seen.sessions[s].status # "absent"
      PROVE  /\ Snapshot!SessionReadable(s) /\ seen.events[s].intact
             /\ Snapshot!BindingsValid(seen.sessions[s])
  <2>1. s \in before /\ events[s].intact
    BY <1>1, <1>4 DEF ReadSoFar, ReaderTypeOK
  <2>2. FileRead(s) /\ seen.events[s].intact
    BY <1>2, <2>1 DEF ReadSoFar
  <2>3. Snapshot!BindingsValid(seen.sessions[s])
    BY <1>3, <2>1 DEF ArtifactsRead, BoundIn, Lines, Snapshot!BindingsValid,
                      Snapshot!Published, Snapshot!Lines
  <2> QED
    BY <2>2, <2>3 DEF FileRead, Snapshot!SessionReadable, Snapshot!Recorded, Recorded,
                      Snapshot!Settled, Settled
<1>5. \A s \in before : Snapshot!SessionReadable(s)
  BY <1>2 DEF FileRead, Snapshot!SessionReadable, Snapshot!Recorded, Recorded,
              Snapshot!Settled, Settled
<1>6. artifacts.intact /\ consumptions.intact
  BY DEF Disturbed, Damaged
<1>7. Snapshot!ArtifactsReadable
  <2>1. ASSUME NEW line \in Lines(seen.artifacts)
        PROVE  Snapshot!SessionReadable(line.session)
    <3>1. line.session \in Sessions
      BY <1>0, <2>1 DEF ArtifactLines
    <3>2. sessionFile[line.session].status \in Recorded
      BY <1>3, <2>1 DEF ArtifactsRead, Writers, HistorySound, RegistriesSound
    <3> QED
      BY <1>1, <1>5, <3>1, <3>2 DEF Recorded, Settled
  <2> QED
    BY <1>3, <1>6, <2>1 DEF ArtifactsRead, Snapshot!ArtifactsReadable, Snapshot!Lines, Lines
<1>8. ASSUME NEW line \in Lines(seen.consumptions)
      PROVE  /\ Snapshot!SessionReadable(line.session)
             /\ line.artifact \in Snapshot!Published
  <2>1. line.session \in Sessions /\ RecordTrue(line)
    <3>1. line.session \in Sessions
      BY <1>0, <1>8 DEF ConsumptionLines
    <3> QED
      BY <1>3, <1>8, <3>1 DEF ConsumptionsRead, Writers, Inputs
  <2>2. line.session \in before
    BY <1>1, <2>1 DEF RecordTrue, Recorded, Settled
  <2>3. PICK i \in DOMAIN sessionFile[line.session].inputs :
           sessionFile[line.session].inputs[i] = line.artifact
    BY <2>1 DEF RecordTrue
  <2>4. seen.sessions[line.session].inputs = sessionFile[line.session].inputs
    BY <1>2, <2>2 DEF FileRead
  <2>5. line.artifact \in Snapshot!Published
    BY <1>3, <2>2, <2>3, <2>4
       DEF ArtifactsRead, BoundIn, Lines, Snapshot!Published, Snapshot!Lines
  <2> QED
    BY <1>5, <2>2, <2>5
<1>9. Snapshot!ConsumptionsReadable
  BY <1>3, <1>6, <1>7, <1>8
     DEF ConsumptionsRead, NoRepeats, Snapshot!ConsumptionsReadable, Snapshot!Lines, Lines
<1> QED
  BY <1>4, <1>9 DEF Snapshot!HistoryReadable

(* The invariant, over the writers' and the reader's types.                  *)
Disturbance ==
    /\ LogsFresh /\ Known
    /\ history = "reading" => ReadSoFar
    /\ history = "unreadable" => Disturbed

LEMMA ReaderDisturbance ==
    ASSUME Writers, ReaderTypeOK, Disturbance, UNCHANGED vars, ReaderMove
    PROVE  Disturbance'
<1> USE DEF Disturbance
<1>0. UNCHANGED <<sessionFile, events, artifacts, consumptions, pc, session>>
  BY DEF vars, storeVars, callVars
<1>1. history = "reading" /\ ReadSoFar
  BY DEF ReaderMove
<1>2. LogsFresh'
  BY <1>0 DEF LogsFresh
<1>3. before' = before => Known'
  BY <1>0 DEF Known
<1>4. CASE ListsThem /\ history' = history
  BY <1>1, <1>2, <1>4, ListsThemReads
<1>5. CASE UNCHANGED <<listed, before, history>>
           /\ \E s \in Sessions : (ReadsSession(s) \/ ReadsLog(s)) /\ GoesOver(s)
  BY <1>1, <1>2, <1>3, <1>5, SessionReads, LogReads
<1>6. CASE UNCHANGED <<listed, before, history>>
           /\ ReadsRegistry /\ at' = at + 1 /\ todo' = listed
  BY <1>1, <1>2, <1>3, <1>6, RegistryReads
<1>7. CASE UNCHANGED <<listed, before, history>> /\ at \in {2, 5} /\ todo = {}
           /\ seen' = seen /\ at' = at + 1 /\ todo' = listed
  BY <1>1, <1>2, <1>3, <1>7, NoneReads
<1>8. CASE history' = "readable" /\ before' = {}
  BY <1>2, <1>8 DEF Known
<1>9. CASE at = 6 /\ ~Snapshot!HistoryReadable /\ history' = "unreadable" /\ before' = before
  <2>1. Disturbed
    BY <1>1, <1>9, UndisturbedReads
  <2>2. Disturbed'
    BY <1>0, <1>9, <2>1 DEF Disturbed, Damaged, Whole, SessionReadable
  <2> QED
    BY <1>2, <1>3, <1>9, <2>2
<1> QED
  BY <1>4, <1>5, <1>6, <1>7, <1>8, <1>9 DEF ReaderMove

LEMMA DisturbanceStep ==
    ASSUME Writers, ReaderTypeOK, Disturbance, [InspectedNext]_allVars
    PROVE  Disturbance'
<1>1. ASSUME UNCHANGED readerVars, NEW c \in Clients, ClientStep(c)
      PROVE  Disturbance'
  <2>1. history' = history /\ before' = before
    BY <1>1 DEF readerVars
  <2>2. LogsFresh' /\ Known'
    BY <1>1, <2>1, LogsFreshStep, KnownStep DEF Disturbance
  <2>3. history' = "reading" => ReadSoFar'
    BY <1>1, <2>1, ReadStays DEF Disturbance
  <2>4. history' = "unreadable" => Disturbed'
    BY <1>1, <2>1, DisturbedStays DEF Disturbance
  <2> QED
    BY <2>2, <2>3, <2>4 DEF Disturbance
<1>2. CASE UNCHANGED vars /\ Reader
  BY <1>2, ReaderMoves, ReaderDisturbance
<1>3. CASE UNCHANGED vars /\ UNCHANGED readerVars
  BY <1>3
     DEF vars, storeVars, callVars, readerVars, Disturbance, LogsFresh, Known, ReadSoFar,
         BeenRead, FileRead, ArtifactsRead, ConsumptionsRead, NoRepeats, BoundIn,
         Disturbed, Damaged, Whole, SessionReadable
<1> QED
  BY <1>1, <1>2, <1>3, InspectedStep

(* A reader is disturbed by damage and by new Sessions only, never by what   *)
(* the Sessions it knew of add to the files while it reads them.             *)
THEOREM OnlyNewSessionsDisturbAlways == InspectedSpec => []OnlyNewSessionsDisturb
<1>1. InspectedInit => Disturbance
  BY DEF InspectedInit, Init, StoreInit, ReaderInit, NothingSeen, NoSession, NoLog,
         Disturbance, LogsFresh, Known, ReadSoFar, BeenRead, Recorded, Settled
<1>2. Disturbance => OnlyNewSessionsDisturb
  BY DEF Disturbance, Disturbed, OnlyNewSessionsDisturb
<1> QED
  BY <1>1, <1>2, InspectionAlways, DisturbanceStep, PTL DEF InspectedSpec
=============================================================================
