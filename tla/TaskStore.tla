----------------------------- MODULE TaskStore -----------------------------
(***************************************************************************)
(* The durable governance files of one Task (container-core,               *)
(* storage/index.ts): per Session a directory with session.json and        *)
(* events.jsonl, and the Task's artifacts.jsonl and consumptions.jsonl.    *)
(*                                                                         *)
(* One step of this module is one file operation.  A store call is several *)
(* of them, so a caller can fail or die between any two.  Every write has  *)
(* an outcome; all but "ok" reach the caller as StorageFailure.            *)
(***************************************************************************)
EXTENDS Naturals, Sequences

CONSTANTS
    Sessions,       \* Session ids (bounds the Sessions ever created)
    Artifacts,      \* Artifact ids (bounds the publications)
    Entries,        \* the Profiles a request can name
    Requires,       \* per entry, its requirements: each one the ids that match it
    Times,          \* values of new Date().toISOString()
    NoTime, NoEntry

ASSUME RequiresAssumption == Requires \in [Entries -> Seq(SUBSET Artifacts)]
ASSUME NoTimeAssumption == NoTime \notin Times
ASSUME NoEntryAssumption == NoEntry \notin Entries

VARIABLES
    sessionFile,    \* sessions/<id>/ and its session.json
    events,         \* sessions/<id>/events.jsonl
    artifacts,      \* artifacts.jsonl
    consumptions    \* consumptions.jsonl

storeVars == <<sessionFile, events, artifacts, consumptions>>

-----------------------------------------------------------------------------
(* A log file.  It stops being intact when a line is torn (no newline at its *)
(* end, then a malformed line in its middle); a missing file reads the same. *)
Log(Line) == [lines : Seq(Line), intact : BOOLEAN]
NoLog == [lines |-> <<>>, intact |-> FALSE]
EmptyLog == [lines |-> <<>>, intact |-> TRUE]

(* What a failing or dying write leaves: nothing, a part, or everything.     *)
Outcomes == {"ok", "lost", "torn", "late"}
Written(outcome) == outcome \in {"ok", "late"}

Appended(log, line, outcome) ==
    IF Written(outcome) /\ log.intact THEN [log EXCEPT !.lines = Append(@, line)]
    ELSE IF outcome = "torn" THEN [log EXCEPT !.intact = FALSE]
    ELSE log

(* "absent": no directory.  "directory": mkdir done, no session.json.        *)
(* "partial": a torn session.json.  The rest are SessionRunRecord.status.    *)
Settled == {"completed", "failed"}
Recorded == {"running"} \cup Settled
FileStates == {"absent", "directory", "partial"} \cup Recorded

\* started: failure.diagnostic.domain_execution_started, "unknown" without it.
Tristate == {"yes", "no", "unknown"}

SessionFiles == [status : FileStates, finished : Times \cup {NoTime},
                 started : Tristate, entry : Entries \cup {NoEntry},
                 inputs : Seq(Artifacts)]

NoSession == [status |-> "absent", finished |-> NoTime, started |-> "unknown",
              entry |-> NoEntry, inputs |-> <<>>]

CoreEvents == {"session.started", "session.completed", "session.failed",
               "artifact.consumed", "artifact.published",
               "runtime.loom.domain-started"}

\* timestamp matters, and is kept, for the terminal events only.
EventLines == [type : CoreEvents, timestamp : Times \cup {NoTime}]
ArtifactLines == [id : Artifacts, session : Sessions]
ConsumptionLines == [session : Sessions, artifact : Artifacts]

StoreTypeOK ==
    /\ sessionFile \in [Sessions -> SessionFiles]
    /\ events \in [Sessions -> Log(EventLines)]
    /\ artifacts \in Log(ArtifactLines)
    /\ consumptions \in Log(ConsumptionLines)

(* A Task just created: LocalTaskStore.create wrote the two empty registries. *)
StoreInit ==
    /\ sessionFile = [s \in Sessions |-> NoSession]
    /\ events = [s \in Sessions |-> NoLog]
    /\ artifacts = EmptyLog
    /\ consumptions = EmptyLog

-----------------------------------------------------------------------------
(* The lines of a log, as the readers see them. *)
Lines(log) == {log.lines[i] : i \in DOMAIN log.lines}

SessionReadable(s) == sessionFile[s].status \in Recorded

ArtifactsReadable ==
    /\ artifacts.intact
    /\ \A i, j \in DOMAIN artifacts.lines :
          artifacts.lines[i].id = artifacts.lines[j].id => i = j
    /\ \A line \in Lines(artifacts) : SessionReadable(line.session)

Published == {line.id : line \in Lines(artifacts)}

ConsumptionsReadable ==
    /\ ArtifactsReadable
    /\ consumptions.intact
    /\ \A i, j \in DOMAIN consumptions.lines :
          consumptions.lines[i] = consumptions.lines[j] => i = j
    /\ \A line \in Lines(consumptions) :
          SessionReadable(line.session) /\ line.artifact \in Published

(* Requirement i of entry e resolves to the one published Artifact that      *)
(* matches it: none is PreconditionNotSatisfied, several BindingConflict.    *)
Resolves(e, inputs) ==
    /\ ArtifactsReadable
    /\ \A i \in DOMAIN Requires[e] : Published \cap Requires[e][i] = {inputs[i]}

Plans(e) == [DOMAIN Requires[e] -> Artifacts]

(* inspectTask: listSessions reads every directory, then the registries, the *)
(* logs and the recorded bindings.  One unreadable part makes it all fail.   *)
BindingsValid(file) ==
    /\ DOMAIN file.inputs = DOMAIN Requires[file.entry]
    /\ \A i \in DOMAIN file.inputs :
          file.inputs[i] \in Published \cap Requires[file.entry][i]

HistoryReadable ==
    /\ \A s \in Sessions : sessionFile[s].status # "absent" =>
          SessionReadable(s) /\ events[s].intact /\ BindingsValid(sessionFile[s])
    /\ ConsumptionsReadable

(* projectSessionFacts: the one terminal event and session.json agree.       *)
UnknownType(status) == "session.ended"   \* mutant: an event type nobody reads

TerminalType(status) == IF status = "completed" THEN "session.completed"
                                                ELSE "session.failed"
TerminalTypes == {TerminalType(status) : status \in Settled}
Terminals(s) ==
    {i \in DOMAIN events[s].lines : events[s].lines[i].type \in TerminalTypes}

Confirmed(s) ==
    /\ sessionFile[s].status \in Settled
    /\ \E i \in Terminals(s) :
          /\ Terminals(s) = {i}
          /\ events[s].lines[i].type = TerminalType(sessionFile[s].status)
          /\ events[s].lines[i].timestamp = sessionFile[s].finished

DomainStartedRecorded(s) ==
    \E line \in Lines(events[s]) : line.type = "runtime.loom.domain-started"

(* domain_execution_started of the projected facts.                          *)
StartedFact(s) ==
    IF DomainStartedRecorded(s) THEN "yes" ELSE sessionFile[s].started

-----------------------------------------------------------------------------
(* The file operations of startSession.  The three flag-'wx' creations and   *)
(* the mkdir fail when their path exists; ids are random, so it does not.    *)
MakeSessionDirectory(s, outcome) ==
    /\ sessionFile[s].status = "absent"
    /\ sessionFile' = IF Written(outcome)
                         THEN [sessionFile EXCEPT ![s].status = "directory"]
                         ELSE sessionFile
    /\ UNCHANGED <<events, artifacts, consumptions>>

CreateSessionJson(s, entry, inputs, outcome) ==
    /\ sessionFile[s].status = "directory"
    /\ sessionFile' =
          IF Written(outcome)
             THEN [sessionFile EXCEPT ![s] = [NoSession EXCEPT !.status = "running",
                                              !.entry = entry, !.inputs = inputs]]
          ELSE IF outcome = "torn"
             THEN [sessionFile EXCEPT ![s].status = "partial"]
          ELSE sessionFile
    /\ UNCHANGED <<events, artifacts, consumptions>>

CreateEventLog(s, outcome) ==
    /\ events' = IF Written(outcome) THEN [events EXCEPT ![s] = EmptyLog] ELSE events
    /\ UNCHANGED <<sessionFile, artifacts, consumptions>>

EventLine(type, timestamp) == [type |-> type, timestamp |-> timestamp]

(* #coreEvent, and the append of appendEvent. *)
AppendEvent(s, line, outcome) ==
    /\ events' = [events EXCEPT ![s] = Appended(@, line, outcome)]
    /\ UNCHANGED <<sessionFile, artifacts, consumptions>>

(* publishArtifact: the registry line, then the event if the line was        *)
(* written without error.  An id is random: never one registered before.     *)
PublishArtifact(s, a, lineOutcome, eventOutcome) ==
    /\ sessionFile[s].status = "running"
    /\ ArtifactsReadable
    /\ a \notin Published
    /\ artifacts' = Appended(artifacts, [id |-> a, session |-> s], lineOutcome)
    /\ events' = IF lineOutcome = "ok"
                    THEN [events EXCEPT ![s] = Appended(@,
                              EventLine("artifact.published", NoTime), eventOutcome)]
                    ELSE events
    /\ UNCHANGED <<sessionFile, consumptions>>

(* recordConsumption, for a binding not registered before: likewise.         *)
AlreadyConsumed(s, a) == [session |-> s, artifact |-> a] \in Lines(consumptions)

MayConsume(s, a) ==
    sessionFile[s].status = "running" /\ ConsumptionsReadable /\ a \in Published

AppendConsumption(s, a, lineOutcome, eventOutcome) ==
    /\ consumptions' = Appended(consumptions, [session |-> s, artifact |-> a], lineOutcome)
    /\ events' = IF lineOutcome = "ok"
                    THEN [events EXCEPT ![s] = Appended(@,
                              EventLine("artifact.consumed", NoTime), eventOutcome)]
                    ELSE events
    /\ UNCHANGED <<sessionFile, artifacts>>

(* replaceJson: a temporary file renamed over session.json, so never torn;   *)
(* a failure after the rename ("late", the final rm) still replaced it.      *)
ReplaceSessionJson(s, status, timestamp, started, outcome) ==
    /\ outcome # "torn"
    /\ sessionFile' = IF Written(outcome)
                         THEN [sessionFile EXCEPT ![s].status = status,
                                   ![s].finished = timestamp, ![s].started = started]
                         ELSE sessionFile
    /\ UNCHANGED <<events, artifacts, consumptions>>

=============================================================================
