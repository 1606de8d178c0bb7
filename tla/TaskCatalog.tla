----------------------------- MODULE TaskCatalog -----------------------------
(***************************************************************************)
(* loom task create (cli, index.ts): the name is looked up in the local    *)
(* index, the Task is created under its root (LocalTaskStore.create), the  *)
(* input and the host binding are saved next to it, and the name is        *)
(* registered in the index (catalog.ts).  Several commands run at once,    *)
(* with equal or different names and roots; each step is one file          *)
(* operation, which may fail part-way, and a command may die at any step.  *)
(***************************************************************************)
CONSTANTS
    Commands,       \* invocations of task create
    Names,          \* Task ids
    Roots,          \* Task roots
    Free, Torn      \* states of a file without a readable content

ASSUME FileStatesAssumption ==
    /\ Free # Torn
    /\ {Free, Torn} \cap (Roots \cup Names) = {}

VARIABLES
    pc,
    name,           \* --name of each command
    root,           \* --root of each command
    locator,        \* the index: <name>.json, whole once it gives a root
    parts,          \* what exists under .agent-loom of each root
    taskJson        \* task.json of each root, whole once it gives a Task id

vars == <<pc, name, root, locator, parts, taskJson>>
command == <<name, root>>

\* What LocalTaskStore.create makes before task.json.
CreatedParts == {"governance", "sessions", "invocations", "artifacts", "consumptions"}
SavedParts == {"input", "host"}

\* A command makes the part its step is named for.
Steps == {"lookup", "task", "register", "done", "failed", "unregistered", "dead"}
            \cup CreatedParts \cup SavedParts

TypeOK ==
    /\ pc \in [Commands -> Steps]
    /\ name \in [Commands -> Names]
    /\ root \in [Commands -> Roots]
    /\ locator \in [Names -> Roots \cup {Free, Torn}]
    /\ parts \in [Roots -> SUBSET (CreatedParts \cup SavedParts)]
    /\ taskJson \in [Roots -> Names \cup {Free, Torn}]

Init ==
    /\ pc = [c \in Commands |-> "lookup"]
    /\ name \in [Commands -> Names]
    /\ root \in [Commands -> Roots]
    /\ locator = [n \in Names |-> Free]
    /\ parts = [r \in Roots |-> {}]
    /\ taskJson = [r \in Roots |-> Free]

-----------------------------------------------------------------------------
Goto(c, step) == pc' = [pc EXCEPT ![c] = step]

(* ensureAvailable: only a name without a locator passes.                    *)
EnsureAvailable(c) ==
    /\ pc[c] = "lookup"
    /\ \/ locator[name[c]] = Free /\ Goto(c, "governance")
       \/ Goto(c, "failed")
    /\ UNCHANGED <<command, locator, parts, taskJson>>

TaskBeforeRegistries(step) ==   \* mutant: task.json is not the last
    CASE step = "governance"   -> "sessions"
      [] step = "sessions"     -> "invocations"
      [] OTHER                 -> "task"

Following(step) ==
    CASE step = "governance"   -> "sessions"
      [] step = "sessions"     -> "invocations"
      [] step = "invocations"  -> "artifacts"
      [] step = "artifacts"    -> "consumptions"
      [] OTHER                 -> "task"

MakesRecursively(c) == TRUE     \* mutant: mkdir with recursive: true

(* mkdir and writeFile 'wx' succeed only where nothing is yet.               *)
IsNew(c) == pc[c] \notin parts[root[c]]

(* One part of the Task.  An operation that fails may have made its part.    *)
MakePart(c) ==
    /\ pc[c] \in CreatedParts
    /\ \/ /\ IsNew(c)
          /\ parts' = [parts EXCEPT ![root[c]] = @ \cup {pc[c]}]
          /\ Goto(c, Following(pc[c])) \/ Goto(c, "failed")
       \/ Goto(c, "failed") /\ parts' = parts
    /\ UNCHANGED <<command, locator, taskJson>>

WriteTaskUnawaited(c) ==    \* mutant: the write is not awaited
    /\ pc[c] = "task"
    /\ taskJson' = [taskJson EXCEPT ![root[c]] = Torn]
    /\ Goto(c, "input")
    /\ UNCHANGED <<command, locator, parts>>

(* task.json, with 'wx', completes the Task.                                 *)
WriteTask(c) ==
    /\ pc[c] = "task"
    /\ \/ /\ taskJson[root[c]] = Free
          /\ \/ /\ taskJson' = [taskJson EXCEPT ![root[c]] = name[c]]
                /\ Goto(c, "input") \/ Goto(c, "failed")
             \/ /\ taskJson' = [taskJson EXCEPT ![root[c]] = Torn]
                /\ Goto(c, "failed")
       \/ taskJson' = taskJson /\ Goto(c, "failed")
    /\ UNCHANGED <<command, locator, parts>>

(* The optional input.json and native-host.json, both with 'wx'.             *)
SavePart(c) ==
    /\ pc[c] \in SavedParts
    /\ \/ /\ parts' = parts
          /\ Goto(c, IF pc[c] = "input" THEN "host" ELSE "register")
       \/ /\ pc[c] \notin parts[root[c]]
          /\ parts' = [parts EXCEPT ![root[c]] = @ \cup {pc[c]}]
          /\ \/ Goto(c, IF pc[c] = "input" THEN "host" ELSE "register")
             \/ Goto(c, "unregistered")
       \/ parts' = parts /\ Goto(c, "unregistered")
    /\ UNCHANGED <<command, locator, taskJson>>

AlwaysWritable(c) == TRUE   \* mutant: writeFile without 'wx'

AnyLocatorIsGood(c) == TRUE     \* mutant: EEXIST means registered

LocatesHere(c) == locator[name[c]] = root[c]

LocatorIsNew(c) == locator[name[c]] = Free

(* register: an existing locator is good only if it names the same root.     *)
Register(c) ==
    /\ pc[c] = "register"
    /\ \/ /\ LocatorIsNew(c)
          /\ \/ /\ locator' = [locator EXCEPT ![name[c]] = root[c]]
                /\ Goto(c, "done") \/ Goto(c, "unregistered")
             \/ /\ locator' = [locator EXCEPT ![name[c]] = Torn]
                /\ Goto(c, "unregistered")
       \/ /\ locator' = locator
          /\ Goto(c, IF LocatesHere(c) THEN "done" ELSE "unregistered")
    /\ UNCHANGED <<command, parts, taskJson>>

Crash(c) ==
    /\ pc[c] \notin {"done", "failed", "unregistered", "dead"}
    /\ Goto(c, "dead")
    /\ UNCHANGED <<command, locator, parts, taskJson>>

Step(c) ==
    \/ EnsureAvailable(c) \/ MakePart(c) \/ WriteTask(c) \/ SavePart(c)
    \/ Register(c) \/ Crash(c)

Next == \E c \in Commands : Step(c)

Spec == Init /\ [][Next]_vars

-----------------------------------------------------------------------------
(* catalog.open without --root: the locator, then the Task it names, whose   *)
(* id must be the name asked for.                                            *)
OpensAt(n, r) == locator[n] = r /\ taskJson[r] = n

(* LocalTaskStore.open by root, as every command with --root does.           *)
OpensByRoot(r) == taskJson[r] \in Names

(* A command that reported success can be followed up by name, at its own    *)
(* root, for good: no other command takes over its name or its root.         *)
CreatedOpensByName ==
    \A c \in Commands : pc[c] = "done" => OpensAt(name[c], root[c])

(* A name is given out once: of all commands with one name, whatever their   *)
(* roots and however they interleave between the lookup and the              *)
(* registration, one reports success.                                        *)
OneSuccessPerName ==
    \A c, d \in Commands :
        pc[c] = "done" /\ pc[d] = "done" /\ name[c] = name[d] => c = d

(* "Unable to register the local Task.  The Task root remains available      *)
(* explicitly." (catalog.ts, register): a command that failed once its Task  *)
(* was created leaves a Task that opens by root, under its own name.         *)
UnregisteredOpensByRoot ==
    \A c \in Commands : pc[c] = "unregistered" => taskJson[root[c]] = name[c]

(* A Task that opens is complete: its registries and its directories exist,  *)
(* which is the state TaskStore starts from.                                 *)
OpenedIsComplete ==
    \A r \in Roots : OpensByRoot(r) => CreatedParts \subseteq parts[r]

(* A whole locator never changes, nor does a whole task.json.                *)
NothingIsReplaced ==
    [][/\ \A n \in Names : locator[n] \in Roots => locator'[n] = locator[n]
       /\ \A r \in Roots : OpensByRoot(r) => taskJson'[r] = taskJson[r]]_vars

\* The steps between a command's exclusive mkdir and the last file it makes.
Building == {"sessions", "invocations", "artifacts", "consumptions", "task"} \cup SavedParts

\* Someone has built at a root, and nobody is building there now.
Left(r) ==
    /\ "governance" \in parts[r]
    /\ \A c \in Commands : root[c] = r => pc[c] \notin Building

(* A half-made Task stays as it was left.  Nothing removes what a failed or  *)
(* dead task create made (cli, index.ts), so a retry at the same root, under *)
(* whatever name, must not complete it, mix its files with new ones or turn  *)
(* a root that does not open into one that does: a root that was left is     *)
(* left for good, and nothing under it changes.                              *)
HalfMadeStaysAsLeft ==
    [][\A r \in Roots : Left(r) => Left(r)' /\ UNCHANGED <<parts[r], taskJson[r]>>]_vars
=============================================================================
