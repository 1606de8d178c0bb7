---------------------------------- MODULE Cli ----------------------------------
(***************************************************************************)
(* The loom command (cli, index.ts main): how each subcommand gets from    *)
(* its options to an exit code, which native Host module it loads, and     *)
(* what it says about native activity when it fails.  One of the commands  *)
(* may be creating the Task, and saving its Host binding (host-binding.ts),*)
(* while others open the same root and read that binding.                  *)
(*                                                                         *)
(* check, invoke, executeSession and LocalTaskStore.create have modules of *)
(* their own; here each is a step that may go any way those modules allow. *)
(***************************************************************************)
CONSTANTS
    Commands,       \* the processes
    Invocations,    \* their possible arguments
    Modules,        \* files that export a Host
    None, Torn      \* no file; a native-host.json that is not one of this Task

ASSUME MarksAssumption == None # Torn /\ {None, Torn} \cap Modules = {}

Names == {"app validate", "task create", "session start", "agent check", "agent invoke",
          "agent describe", "agent inspect", "task inspect"}
Flags == {"--dry-run", "--definition-only", "--native-preflight", "--app"}

\* agent describe stands for discover too, task inspect for the other records.
ASSUME InvocationsAssumption ==
    Invocations \subseteq [name : Names, flags : SUBSET Flags,
                           host : Modules \cup {None},      \* --host-module
                           exported : Modules \cup {None}]  \* the application's nativeHost

VARIABLES
    args, pc,
    phase,          \* of main, for diagnose
    selected,       \* selectedHost
    invalid,        \* invalidHost
    exit,           \* the exit code is 0, or 1, once there is one
    activity,       \* model_activity of the diagnostic on stderr
    \* the Task's root
    task,           \* task.json can be opened
    binding,        \* native-host.json
    located,        \* the name is in the local index
    \* history
    entered,        \* the modules a command has run code of
    settled,        \* how the Session of a command ended on disk
    creatorsHost    \* what the command that created the Task was to save

control == <<phase, selected, invalid>>
answers == <<exit, activity>>
root == <<task, binding, located, creatorsHost>>
vars == <<args, pc, control, answers, root, entered, settled>>

Phases == {"arguments", "application-loading", "host-preflight", "task-loading",
           "host-loading", "session-execution", "inspection", "dependency-resolution",
           "task-input", "task-creation"}

Steps == {"parse", "load-application", "validate", "preflight", "input", "create", "save",
          "saving", "register", "open", "prepare", "read-binding", "connect", "inspect",
          "check", "invoke", "load-host", "execute", "ended"}

TypeOK ==
    /\ args \in [Commands -> Invocations]
    /\ pc \in [Commands -> Steps]
    /\ phase \in [Commands -> Phases]
    /\ selected \in [Commands -> Modules \cup {None}]
    /\ invalid \in [Commands -> BOOLEAN]
    /\ exit \in [Commands -> {"running", "success", "failure"}]
    /\ activity \in [Commands -> {"unsaid", "unknown", "not-started-by-cli"}]
    /\ task \in BOOLEAN
    /\ binding \in Modules \cup {None, Torn}
    /\ located \in BOOLEAN
    /\ entered \in [Commands -> SUBSET Modules]
    /\ settled \in [Commands -> {"none", "running", "failed", "completed"}]
    /\ creatorsHost \in Modules \cup {None}

(* The Task is there, with what its creator got to save, or is to be created.*)
Init ==
    /\ args \in [Commands -> Invocations]
    /\ pc = [c \in Commands |-> "parse"]
    /\ phase = [c \in Commands |-> "arguments"]
    /\ selected = [c \in Commands |-> None]
    /\ invalid = [c \in Commands |-> FALSE]
    /\ exit = [c \in Commands |-> "running"]
    /\ activity = [c \in Commands |-> "unsaid"]
    /\ task \in BOOLEAN
    /\ creatorsHost \in IF task THEN Modules \cup {None} ELSE {None}
    /\ binding \in IF task THEN {creatorsHost, Torn, None} ELSE {None}
    /\ located \in IF task THEN BOOLEAN ELSE {FALSE}
    /\ entered = [c \in Commands |-> {}]
    /\ settled = [c \in Commands |-> "none"]

-----------------------------------------------------------------------------
Is(c, name) == args[c].name = name
Flag(c, flag) == flag \in args[c].flags

(* The ways a step of main ends.                                             *)
Proceed(c, step, inPhase) ==
    /\ pc' = [pc EXCEPT ![c] = step]
    /\ phase' = [phase EXCEPT ![c] = inPhase]
    /\ UNCHANGED answers

Return(c, code) ==
    /\ pc' = [pc EXCEPT ![c] = "ended"]
    /\ exit' = [exit EXCEPT ![c] = code]
    /\ UNCHANGED <<phase, activity>>

KnowsBetter(inPhase) ==     \* mutant: a Host that only loads is taken to do nothing
    IF inPhase = "session-execution" THEN "unknown" ELSE "not-started-by-cli"

ModelActivity(inPhase) ==
    IF inPhase \in {"session-execution", "host-loading", "host-preflight"}
       THEN "unknown" ELSE "not-started-by-cli"

(* main's catch block.                                                       *)
Throw(c, inPhase) ==
    /\ pc' = [pc EXCEPT ![c] = "ended"]
    /\ phase' = [phase EXCEPT ![c] = inPhase]
    /\ exit' = [exit EXCEPT ![c] = "failure"]
    /\ activity' = [activity EXCEPT ![c] = ModelActivity(inPhase)]

HostUnchanged == UNCHANGED <<selected, invalid, entered, settled>>
Local == UNCHANGED <<args, root>>

(* argumentsFor, and the choice of a subcommand.                             *)
Parse(c) ==
    /\ pc[c] = "parse"
    /\ \/ Throw(c, "arguments")
       \/ IF Is(c, "app validate") \/ Is(c, "task create") \/ Flag(c, "--app")
             THEN Proceed(c, "load-application", "application-loading")
             ELSE Proceed(c, "open", "task-loading")
    /\ HostUnchanged /\ Local

(* loadApplication: the module is imported and its definition validated.     *)
LoadApplication(c) ==
    /\ pc[c] = "load-application"
    /\ \/ Throw(c, phase[c])
       \/ Is(c, "app validate") /\ Proceed(c, "validate", phase[c])
       \/ Is(c, "task create") /\ Proceed(c, "input", "task-input")
       \/ Is(c, "agent describe") /\ Return(c, "success")
    /\ HostUnchanged /\ Local

ExportedFirst(c) ==     \* mutant: the application's Host wins over --host-module
    IF args[c].exported # None THEN args[c].exported ELSE args[c].host

HostOfApplication(c) ==
    IF args[c].host # None THEN args[c].host ELSE args[c].exported

Validate(c) ==
    /\ pc[c] = "validate"
    /\ \/ /\ Flag(c, "--definition-only")
          /\ IF args[c].host = None THEN Return(c, "success") ELSE Throw(c, phase[c])
          /\ UNCHANGED selected
       \/ /\ ~Flag(c, "--definition-only")
          /\ selected' = [selected EXCEPT ![c] = HostOfApplication(c)]
          /\ IF HostOfApplication(c) = None THEN Throw(c, "host-preflight")
                                            ELSE Proceed(c, "preflight", "host-preflight")
    /\ UNCHANGED <<invalid, entered, settled>> /\ Local

Enter(c) == entered' = [entered EXCEPT ![c] = @ \cup {selected[c]}]

(* validateNativeHost imports the module, which may run anything.  What it   *)
(* throws is a blocker of a check, and the failure of a validation.          *)
Preflight(c) ==
    /\ pc[c] = "preflight"
    /\ Enter(c)
    /\ \/ Return(c, "success")
       \/ IF Is(c, "agent check") THEN Return(c, "failure") ELSE Throw(c, phase[c])
    /\ UNCHANGED <<selected, invalid, settled>> /\ Local

-----------------------------------------------------------------------------
(* task create. *)
TaskInput(c) ==
    /\ pc[c] = "input"
    /\ Throw(c, phase[c]) \/ Proceed(c, "create", "task-creation")
    /\ HostUnchanged /\ Local

(* ensureAvailable, LocalTaskStore.create and the input: at most one command *)
(* gets past them (see TaskCatalog).                                         *)
CreateTask(c) ==
    /\ pc[c] = "create"
    /\ \/ Throw(c, phase[c]) /\ UNCHANGED root
       \/ /\ ~task
          /\ task' = TRUE
          /\ creatorsHost' = HostOfApplication(c)
          /\ Throw(c, phase[c])
                \/ Proceed(c, IF HostOfApplication(c) = None THEN "register" ELSE "save", phase[c])
          /\ UNCHANGED <<binding, located>>
    /\ UNCHANGED args /\ HostUnchanged

(* saveHostBinding: the file is created, then filled.                        *)
SaveBinding(c) ==
    /\ pc[c] = "save"
    /\ \/ Throw(c, phase[c]) /\ UNCHANGED binding
       \/ /\ binding = None
          /\ binding' = Torn
          /\ Proceed(c, "saving", phase[c])
    /\ UNCHANGED <<args, task, located, creatorsHost>> /\ HostUnchanged

FillBinding(c) ==
    /\ pc[c] = "saving"
    /\ \/ Throw(c, phase[c]) /\ UNCHANGED binding
       \/ /\ binding' = HostOfApplication(c)
          /\ Throw(c, phase[c]) \/ Proceed(c, "register", phase[c])
    /\ UNCHANGED <<args, task, located, creatorsHost>> /\ HostUnchanged

Register(c) ==
    /\ pc[c] = "register"
    /\ \/ Throw(c, phase[c]) /\ UNCHANGED located
       \/ located' = TRUE /\ (Throw(c, phase[c]) \/ Return(c, "success"))
    /\ UNCHANGED <<args, task, binding, creatorsHost>> /\ HostUnchanged

-----------------------------------------------------------------------------
(* The commands on a Task, by name or by --root.                             *)
OpenTask(c) ==
    /\ pc[c] = "open"
    /\ \/ Throw(c, phase[c])
       \/ /\ task
          /\ CASE Is(c, "agent describe") -> Return(c, "success")
               [] Is(c, "task inspect")   -> Proceed(c, "inspect", "inspection")
               [] Is(c, "session start")  -> Proceed(c, "prepare", "dependency-resolution")
               [] OTHER                   -> Proceed(c, "read-binding", "host-loading")
    /\ HostUnchanged /\ Local

DryRunsAnyway(c) == FALSE       \* mutant: --dry-run only changes the report

PlansOnly(c) == Flag(c, "--dry-run")

(* session start: prepareSession, then the options.                          *)
Prepare(c) ==
    /\ pc[c] = "prepare"
    /\ \/ Throw(c, phase[c])
       \/ /\ PlansOnly(c)
          /\ IF args[c].host # None THEN Throw(c, phase[c]) ELSE Return(c, "success")
       \/ ~PlansOnly(c) /\ Proceed(c, "read-binding", "host-loading")
    /\ HostUnchanged /\ Local

SavedFirst(c) ==        \* mutant: the saved binding wins over --host-module
    IF binding # None THEN binding ELSE args[c].host

(* What readHostBinding finds, unless the module is named on the command.    *)
HostOfTask(c) == IF args[c].host # None THEN args[c].host ELSE binding

(* A malformed binding or none ends a session start.  An agent command goes  *)
(* on and reports how the Host is delivered.  A file that cannot be read     *)
(* ends either.                                                              *)
ReadBinding(c) ==
    /\ pc[c] = "read-binding"
    /\ \/ /\ args[c].host = None
          /\ Throw(c, phase[c])
          /\ UNCHANGED <<selected, invalid>>
       \/ /\ HostOfTask(c) \in Modules
          /\ selected' = [selected EXCEPT ![c] = HostOfTask(c)]
          /\ IF Is(c, "session start") THEN Proceed(c, "load-host", phase[c])
                                       ELSE Proceed(c, "connect", "task-loading")
          /\ UNCHANGED invalid
       \/ /\ HostOfTask(c) \notin Modules /\ ~Is(c, "session start")
          /\ invalid' = [invalid EXCEPT ![c] = (HostOfTask(c) = Torn)]
          /\ Proceed(c, "connect", "task-loading")
          /\ UNCHANGED selected
    /\ UNCHANGED <<entered, settled>> /\ Local

Delivery(c) ==
    IF invalid[c] THEN "invalid" ELSE IF selected[c] = None THEN "missing" ELSE "declared"

(* connectLoom, and the request file.                                        *)
Connect(c) ==
    /\ pc[c] = "connect"
    /\ \/ Throw(c, phase[c])
       \/ Is(c, "agent inspect") /\ Proceed(c, "inspect", "inspection")
       \/ ~Is(c, "agent inspect") /\ Throw(c, "arguments")
       \/ Is(c, "agent check") /\ Proceed(c, "check", "dependency-resolution")
       \/ Is(c, "agent invoke") /\ Proceed(c, "invoke", "dependency-resolution")
    /\ HostUnchanged /\ Local

(* A snapshot that cannot be read is an answer of agent inspect.             *)
Inspect(c) ==
    /\ pc[c] = "inspect"
    /\ \/ Throw(c, phase[c]) \/ Return(c, "success")
       \/ Is(c, "agent inspect") /\ Return(c, "failure")
    /\ HostUnchanged /\ Local

(* check (see Requirements): an input or the delivery blocks it, or the      *)
(* preflight is next, if asked for.                                          *)
Check(c) ==
    /\ pc[c] = "check"
    /\ \/ Throw(c, phase[c])
       \/ Return(c, "failure")
       \/ /\ Delivery(c) = "declared"
          /\ IF Flag(c, "--native-preflight")
                THEN Proceed(c, "preflight", "host-preflight") ELSE Return(c, "success")
    /\ HostUnchanged /\ Local

(* invoke (see AgentInvoke): past the entry of the Host all is in a receipt. *)
Invoke(c) ==
    /\ pc[c] = "invoke"
    /\ \/ Throw(c, phase[c])
       \/ Return(c, "failure")
       \/ Delivery(c) = "declared" /\ Proceed(c, "load-host", "host-loading")
    /\ HostUnchanged /\ Local

Ends(c) == IF Is(c, "session start") THEN Throw(c, phase[c]) ELSE Return(c, "failure")

(* loadHost: the import and createSessionHost.                               *)
LoadHost(c) ==
    /\ pc[c] = "load-host"
    /\ Enter(c)
    /\ \/ Ends(c)
       \/ Proceed(c, "execute", "session-execution")
    /\ UNCHANGED <<selected, invalid, settled>> /\ Local

ExitsWithReport(status) == "success"    \* mutant: an outcome that was reported is a success

ExitCode(status) == IF status = "completed" THEN "success" ELSE "failure"

(* executeSession and what is made of it.  Its Session may have completed on *)
(* disk and yet the answer be lost.                                          *)
Execute(c) ==
    /\ pc[c] = "execute"
    /\ \E status \in {"none", "running", "failed", "completed"} :
          /\ settled' = [settled EXCEPT ![c] = status]
          /\ \/ Ends(c)
             \/ status \in {"failed", "completed"} /\ Return(c, ExitCode(status))
    /\ UNCHANGED <<selected, invalid, entered>> /\ Local

Next ==
    \E c \in Commands :
        \/ Parse(c) \/ LoadApplication(c) \/ Validate(c) \/ Preflight(c)
        \/ TaskInput(c) \/ CreateTask(c) \/ SaveBinding(c) \/ FillBinding(c) \/ Register(c)
        \/ OpenTask(c) \/ Prepare(c) \/ ReadBinding(c) \/ Connect(c) \/ Inspect(c)
        \/ Check(c) \/ Invoke(c) \/ LoadHost(c) \/ Execute(c)

Spec == Init /\ [][Next]_vars

-----------------------------------------------------------------------------
(* The modules a command may run: none, unless its subcommand and its flags  *)
(* are for that; then the one named on the command line; without one, what   *)
(* the application exports, and on a Task what its creator named.            *)
MayRun(c) ==
    IF args[c].host # None THEN {args[c].host}
    ELSE IF Is(c, "app validate") THEN {args[c].exported} ELSE {creatorsHost}

RunsCode(c) ==
    \/ Is(c, "app validate") /\ ~Flag(c, "--definition-only")
    \/ Is(c, "session start") /\ ~Flag(c, "--dry-run")
    \/ Is(c, "agent check") /\ Flag(c, "--native-preflight")
    \/ Is(c, "agent invoke")

(* Native code runs only where the command asks for it, and only the Host    *)
(* that was chosen for it, whichever command creates the Task meanwhile and  *)
(* however far it gets ("Task creation saves this local binding; later       *)
(* Sessions need only Task and Profile. A trusted --host-module overrides    *)
(* it", the help of the command).                                            *)
EntersOnlyTheChosen(c) == entered[c] \subseteq (IF RunsCode(c) THEN MayRun(c) ELSE {})
RunsTheChosenHost == \A c \in Commands : EntersOnlyTheChosen(c)

SaysWhatIsSo(c) ==
    /\ exit[c] = "success" /\ (Is(c, "agent invoke") \/ (Is(c, "session start") /\ RunsCode(c)))
          => settled[c] = "completed"
    /\ exit[c] = "success" /\ Is(c, "task create")
          => task /\ located /\ binding = HostOfApplication(c)
    /\ exit[c] = "success" /\ Is(c, "app validate") /\ RunsCode(c)
          => entered[c] = {HostOfApplication(c)}
    /\ activity[c] = "not-started-by-cli" => entered[c] = {} /\ settled[c] = "none"

(* A command that ends says what is so.  Exit code 0 means the Session it    *)
(* executed is completed on disk, the Task it created can be found with the  *)
(* Host it was to have, and nothing was executed by a dry run; and a failure *)
(* that says no model was started by the command ran no native code.         *)
ExitIsTrue == \A c \in Commands : SaysWhatIsSo(c)
=============================================================================
