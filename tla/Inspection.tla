----------------------------- MODULE Inspection -----------------------------
(***************************************************************************)
(* inspectTask (container-core, inspection.ts) as a second process reads   *)
(* it: readInspectionRecords opens the Session directories, every          *)
(* session.json, the two registries and every log one after the other,     *)
(* while the clients of AgentInvoke go on writing.  The snapshot is what   *)
(* agent.inspect and the operation summary project.                        *)
(*                                                                         *)
(* AgentInvoke takes an inspection as one step; here each file is a step.  *)
(***************************************************************************)
EXTENDS AgentInvoke

VARIABLES
    at,         \* the reader's stage, see Stage
    todo,       \* the Sessions whose file of this stage is still to be read
    listed,     \* the directories readdir found
    seen,       \* what the reader has read: a copy of each file
    history,    \* the outcome
    before      \* history variable: the Sessions that were whole at readdir, as long
                \* as the history may turn out unreadable

readerVars == <<at, todo, listed, seen, history, before>>
allVars == <<vars, readerVars>>

Whole(s) == SessionReadable(s) /\ events[s].intact

(* readInspectionRecords: the Sessions, then the registries, then the logs.  *)
LogsFirst == <<"list", "logs", "sessions", "artifacts", "consumptions", "check">>    \* mutant
RegistryFirst == <<"artifacts", "list", "sessions", "consumptions", "logs", "check">>   \* mutant

Order == <<"list", "sessions", "artifacts", "consumptions", "logs", "check">>

NothingSeen == [sessions |-> [s \in Sessions |-> NoSession],
                events |-> [s \in Sessions |-> NoLog],
                artifacts |-> NoLog, consumptions |-> NoLog]

ReaderInit ==
    /\ at = 1
    /\ todo = {}
    /\ listed = {}
    /\ seen = NothingSeen
    /\ history = "reading"
    /\ before = {}

-----------------------------------------------------------------------------
Stage(name) == history = "reading" /\ at \in DOMAIN Order /\ Order[at] = name

Advances(sessions) == at' = at + 1 /\ todo' = sessions

(* listSessions: readdir of sessions/. *)
ListDirectories ==
    /\ Stage("list")
    /\ listed' = {s \in Sessions : sessionFile[s].status # "absent"}
    /\ before' = {s \in Sessions : Whole(s)}
    /\ Advances(listed')
    /\ UNCHANGED <<seen, history>>

(* Promise.all over the directories: the files are read in any order.        *)
ReadOne(name, s, copy) ==
    /\ Stage(name)
    /\ s \in todo
    /\ seen' = copy
    /\ IF todo = {s} THEN Advances(listed) ELSE at' = at /\ todo' = todo \ {s}
    /\ UNCHANGED <<listed, history, before>>

ReadSession(s) ==
    ReadOne("sessions", s, [seen EXCEPT !.sessions[s] = sessionFile[s]])

ReadLog(s) ==
    ReadOne("logs", s, [seen EXCEPT !.events[s] = events[s]])

NoneListed ==
    /\ Stage("sessions") \/ Stage("logs")
    /\ todo = {}
    /\ Advances(listed)
    /\ UNCHANGED <<listed, seen, history, before>>

ReadRegistry ==
    /\ \/ /\ Stage("artifacts")
          /\ seen' = [seen EXCEPT !.artifacts = artifacts]
       \/ /\ Stage("consumptions")
          /\ seen' = [seen EXCEPT !.consumptions = consumptions]
    /\ Advances(listed)
    /\ UNCHANGED <<listed, history, before>>

(* The validators, over what was read.  The code applies each as it goes:    *)
(* the outcome is the same, only an unreadable one is known earlier.  A read *)
(* that fails ends the inspection with nothing to say: the reader, which may *)
(* stop at any step, then stops there.                                       *)
Snapshot == INSTANCE TaskStore WITH
    sessionFile <- seen.sessions, events <- seen.events,
    artifacts <- seen.artifacts, consumptions <- seen.consumptions

Check ==
    /\ Stage("check")
    /\ \/ /\ Snapshot!HistoryReadable
          /\ history' = "readable"
          /\ seen' = seen /\ before' = {}
       \/ /\ ~Snapshot!HistoryReadable
          /\ history' = "unreadable"
          /\ seen' = NothingSeen /\ before' = before
    /\ todo' = {} /\ listed' = {}
    /\ at' = at

Reader ==
    \/ ListDirectories \/ NoneListed \/ ReadRegistry \/ Check
    \/ \E s \in Sessions : ReadSession(s) \/ ReadLog(s)

InspectedInit == Init /\ ReaderInit

(* A client may stop at any step, so its death needs no action of its own.   *)
InspectedNext ==
    \/ /\ \E c \in Clients : Begin(c) \/ Continue(c) \/ Return(c)
       /\ UNCHANGED readerVars
    \/ Reader /\ UNCHANGED vars

InspectedSpec == InspectedInit /\ [][InspectedNext]_allVars

-----------------------------------------------------------------------------
Produced(registry, s) == {line \in Lines(registry) : line.session = s}

(* What a snapshot confirms of a Session is so, and is all there is: its two *)
(* files are still what they were, every Artifact and consumption it has     *)
(* ever recorded is in the snapshot, a completed run did complete, and a     *)
(* reported non-start is one, although each file was read at another time.   *)
ConfirmedInSnapshotIsWhole ==
    history = "readable" => \A s \in Sessions :
        /\ Snapshot!Confirmed(s) =>
              /\ sessionFile[s] = seen.sessions[s]
              /\ events[s] = seen.events[s]
              /\ Produced(artifacts, s) = Produced(seen.artifacts, s)
              /\ Produced(consumptions, s) = Produced(seen.consumptions, s)
              /\ sessionFile[s].status = "completed" => native[s] = NativeFacts
        /\ Snapshot!StartedFact(s) = "no" => "run" \notin native[s]

Damaged ==
    \/ ~artifacts.intact
    \/ ~consumptions.intact
    \/ \E s \in Sessions : sessionFile[s].status # "absent" /\ ~Whole(s)

(* A reader of files that are all whole is disturbed by new Sessions only:   *)
(* when the history was unreadable although no read failed and nothing is    *)
(* damaged, some Session was created since the directories were listed.      *)
(* What a running Session adds meanwhile never breaks the references between *)
(* the files, because the registries are read after the Sessions and the     *)
(* consumptions after the Artifacts.                                         *)
OnlyNewSessionsDisturb ==
    history = "unreadable" =>
        Damaged \/ \E s \in Sessions : Whole(s) /\ s \notin before
=============================================================================
