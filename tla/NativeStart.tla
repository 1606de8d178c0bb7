------------------------------ MODULE NativeStart ------------------------------
(***************************************************************************)
(* From a selected plan to the end of its native session, as a failure     *)
(* sees it: the native preflight of a check, then an invocation.  The host *)
(* module (runtime-pi, host-module.ts) resolves the plan's Plugins to      *)
(* registrations and entry files, walks the entries in the session host    *)
(* (session-host.ts) for preflight, for validation and three times for a   *)
(* launch, creates an adapter per Plugin, and compares what Pi loaded with *)
(* what was selected.  Entry files may move between any two steps.         *)
(*                                                                         *)
(* Every error is wrapped by the catch clauses it crosses, and ends as the *)
(* diagnostic of a blocker or of a receipt.  'failures' lists what really  *)
(* went wrong, and where.  The concurrency inside a running session is     *)
(* that of PiHost; here its run and its close are a step each.             *)
(***************************************************************************)
EXTENDS Naturals, Sequences, FiniteSets, Diagnostics

CONSTANTS
    Profiles,       \* of the Application: sequences of Plugins, the primary first
    Keys,           \* native.binding_key
    Paths,          \* entries are registered under these
    Files,          \* those that are the files themselves, the others are links
    Gone,           \* target of a path with no file
    Conditions,     \* of the local Host, one of those below
    MaxMoves        \* bound: times an entry moves

Plugins == UNION {{Profiles[i][j] : j \in DOMAIN Profiles[i]} : i \in DOMAIN Profiles}

ASSUME ProfilesAssumption ==
    /\ Profiles \in Seq(Seq(Plugins) \ {<<>>}) \ {<<>>}
    /\ \A i \in DOMAIN Profiles : \A j, k \in DOMAIN Profiles[i] :
          Profiles[i][j] = Profiles[i][k] => j = k
ASSUME FilesAssumption == Files \subseteq Paths /\ Gone \notin Paths
ASSUME NamesAssumption == "none" \notin Plugins \cup Paths
ASSUME ConditionsAssumption ==
    Conditions \subseteq {"ok", "host-import", "host-contract", "sdk-version", "sdk-surface",
                          "unmapped", "hookless"}

VARIABLES
    \* the local configuration
    condition, key, registered, prompts, registration,
    target, moves,      \* where the paths lead
    \* the control of one check, then one invocation
    pc, stage, profile, at,
    \* the closure of one createPiSessionHost, and the adapters of a launch
    entry, entries, owners, adapter,
    \* the launched session
    phase, loaded, open, rejected, extensionError, error,
    \* what the caller gets
    readiness, blocker, reported,
    failures            \* history, for the properties

config == <<condition, key, registered, prompts, registration>>
files == <<target, moves>>
closure == <<entry, entries, owners>>
control == <<stage, profile, at>>
session == <<phase, loaded, open, rejected, extensionError, error>>
results == <<readiness, blocker, reported>>
vars == <<config, files, pc, control, closure, adapter, session, results, failures>>

NoError == Error("none", NoDiagnostic)
Checks == {"sdk", "bindings", "resources", "launcher"}

Plan == Profiles[profile]
Selected == {Plan[i] : i \in DOMAIN Plan}
Primary == Plan[1]
Aspects == {Plan[i] : i \in 2 .. Len(Plan)}

RegisteredEntry(p) == registration[key[p]]

Resolutions == {f \in [Paths -> Files \cup {Gone}] :
                   /\ \A p \in Files : f[p] \in {p, Gone}
                   /\ \A p \in Paths : f[p] \in Files => f[f[p]] = f[p]}

Init ==
    /\ condition \in Conditions
    /\ key \in [Plugins -> Keys]
    /\ registered \in {Keys} \cup {Keys \ {k} : k \in Keys}
    /\ prompts \in {Keys} \cup {Keys \ {k} : k \in Keys}     \* their directories exist
    /\ registration \in [Keys -> Paths]
    /\ target \in Resolutions /\ moves = 0
    /\ pc = "host" /\ at = 1
    /\ \/ stage = "preflight" /\ profile = 1
       \/ stage = "validate" /\ profile \in DOMAIN Profiles
    /\ entry = [p \in Plugins |-> RegisteredEntry(p)]
    /\ entries = {} /\ owners = [p \in Paths |-> "none"]
    /\ adapter = [k \in Keys |-> "none"]
    /\ phase = "initialization" /\ loaded = {} /\ open = FALSE /\ rejected = FALSE
    /\ extensionError = NoError /\ error = NoError
    /\ readiness = [c \in Checks |-> "not-checked"]
    /\ blocker = NoDiagnostic /\ reported = NoDiagnostic
    /\ failures = <<>>

Goto(step) == pc' = step

-----------------------------------------------------------------------------
(* What an adapter, a native hook or a write may throw, and the reason a     *)
(* reader of the diagnostic must be given.                                   *)
Thrown == {[error |-> Plain, reason |-> "NATIVE_EXECUTION_FAILED"],
           [error |-> Forged(Plan[Len(Plan)]), reason |-> "NATIVE_EXECUTION_FAILED"],
           [error |-> Registered("domain", "REJECTED"), reason |-> "REJECTED"],
           [error |-> StorageFailure, reason |-> "GOVERNANCE_STORAGE_FAILED"]}

Failed(where, plugin, check, reason) ==
    failures' = Append(failures, [phase |-> where, plugin |-> plugin, check |-> check,
                                  reason |-> reason, cleanup |-> pc \in {"close", "closing"}])

(* A failed check of the native preflight marks its category, and the        *)
(* diagnostic becomes the blocker.                                           *)
Category(check) ==
    CASE check \in {"sdk-version", "sdk-surface"} -> {"sdk"}
      [] check \in {"adapter-registration", "plugin-entry", "prompt-directory"} -> {"bindings"}
      [] check = "extension-loading" -> {"resources"}
      [] check = "launcher" -> {"launcher"}
      [] OTHER -> {}

Blocks(e) ==
    LET d == DiagnosticFor(SafeHostReadinessFailure(e, "host-contract", "none"), "host") IN
    /\ blocker' = d
    /\ readiness' = [c \in Checks |-> IF c \in Category(d.check) THEN "failed"
                                      ELSE "not-checked"]
    /\ Goto("checked")
    /\ UNCHANGED reported

\* The nativeCall of executeSession around host.validate and host.launch.
Boundary == CASE stage = "preflight" -> "none"
              [] stage = "validate"  -> "host-validation"
              [] OTHER               -> "host-launch"

Refuses(e) ==
    /\ reported' = DiagnosticFor(SafeNativeFailure(e, Boundary, "none"), "native")
    /\ Goto("ended")
    /\ UNCHANGED <<readiness, blocker>>

Throws(e) == IF stage = "preflight" THEN Blocks(e) ELSE Refuses(e)

NotReady(check, plugin) ==
    /\ Throws(HostReadinessFailure(check, plugin))
    /\ Failed(Boundary, plugin, check, "HOST_UNAVAILABLE")

Continues(step) == Goto(step) /\ UNCHANGED <<results, failures>>

(* The Host file is imported and its function called: validateNativeHost for *)
(* a check, loadHost before executeSession.  Nothing annotates the latter.   *)
LoadHost ==
    /\ pc = "host"
    /\ IF condition \in {"host-import", "host-contract"}
          THEN LET e == HostReadinessFailure(condition, "none") IN
               /\ IF stage = "preflight" THEN Blocks(e)
                  ELSE /\ reported' = DiagnosticFor(e, "native")
                       /\ Goto("ended") /\ UNCHANGED <<readiness, blocker>>
               /\ Failed("none", "none", condition, "HOST_UNAVAILABLE")
          ELSE Continues("bindings")
    /\ UNCHANGED <<config, files, control, closure, adapter, session>>

FreshClosure ==
    /\ entry' = [p \in Plugins |-> RegisteredEntry(p)]
    /\ entries' = {}
    /\ owners' = [p \in Paths |-> "none"]

(* bindingsFor, the request mapping, then createPiSessionHost.  Preflight    *)
(* asks for every Plugin of the Application, an invocation for its plan's.   *)
Unregistered ==
    {p \in IF stage = "preflight" THEN Plugins ELSE Selected : key[p] \notin registered}

Bindings ==
    /\ pc = "bindings"
    /\ \/ /\ condition = "sdk-version"
          /\ NotReady("sdk-version", "none") /\ UNCHANGED closure
       \/ /\ condition # "sdk-version"
          /\ \E p \in Unregistered : NotReady("adapter-registration", p)
          /\ UNCHANGED closure
       \/ /\ condition = "unmapped" /\ stage # "preflight" /\ Unregistered = {}
          /\ Throws(Unavailable)
          /\ Failed(Boundary, "none", "none", "HOST_UNAVAILABLE")
          /\ UNCHANGED closure
       \/ /\ condition = "sdk-surface" /\ Unregistered = {}
          /\ NotReady("sdk-surface", "none") /\ UNCHANGED closure
       \/ /\ \/ condition \in {"ok", "hookless"}
             \/ condition = "unmapped" /\ stage = "preflight"
          /\ Unregistered = {}
          /\ FreshClosure /\ Continues("walk")
    /\ at' = 1
    /\ UNCHANGED <<config, files, stage, profile, adapter, session>>

-----------------------------------------------------------------------------
(* validate of the session host, one Plugin of the plan per step.  Its two   *)
(* catch clauses keep the inner check and add the Plugin.                    *)
BadEntry(p, check) ==
    /\ Throws(SafeHostReadinessFailure(
                  SafeHostReadinessFailure(HostReadinessFailure(check, "none"), "plugin-entry", p),
                  "plugin-entry", "none"))
    /\ Failed(Boundary, p, check, "HOST_UNAVAILABLE")

SharesEntries(path) == FALSE        \* mutant: duplicate entries pass
IsTaken(path) == path \in entries

Owns(p, path) == [owners EXCEPT ![entry[p]] = p, ![path] = p]

Walk ==
    /\ pc = "walk" /\ at \in DOMAIN Plan
    /\ LET p == Plan[at]  path == target[entry[p]] IN
       IF path = Gone
         THEN BadEntry(p, "plugin-entry") /\ UNCHANGED <<at, closure>>
         ELSE /\ entry' = [entry EXCEPT ![p] = path]
              /\ owners' = Owns(p, path)
              /\ entries' = entries \cup {path}
              /\ IF IsTaken(path) THEN BadEntry(p, "plugin-entry") /\ UNCHANGED at
                 ELSE IF key[p] \notin prompts THEN BadEntry(p, "prompt-directory") /\ UNCHANGED at
                 ELSE at' = at + 1 /\ UNCHANGED <<pc, results, failures>>
    /\ UNCHANGED <<config, files, stage, profile, adapter, session>>

(* The end of a walk.  An invocation validates, validates again in launch of *)
(* the host module, and twice more, in one closure, in that of the           *)
(* application host.                                                         *)
Walked ==
    /\ pc = "walk" /\ at \notin DOMAIN Plan
    /\ \/ stage = "preflight" /\ Goto("resources") /\ UNCHANGED stage
       \/ stage = "validate"  /\ Goto("bindings")  /\ stage' = "launch"
       \/ stage = "launch"    /\ Goto("configure") /\ UNCHANGED stage
       \/ stage = "select"    /\ Goto("walk")      /\ stage' = "reopen"
       \/ stage = "reopen"    /\ Goto("open")      /\ UNCHANGED stage
    /\ at' = 1 /\ entries' = {}
    /\ UNCHANGED <<config, files, profile, entry, owners, adapter, session, results, failures>>

-----------------------------------------------------------------------------
AnyLoad(extensions, count, expected) == TRUE        \* mutant: nothing is compared

MatchesEntries(extensions, count, expected) ==
    extensions = expected /\ count = Cardinality(expected)

(* What Pi's resource loader may have loaded when its answer is accepted: a  *)
(* number of extensions, and their paths.                                    *)
Loads(expected) ==
    {extensions \in SUBSET Files : \E count \in Cardinality(extensions) .. Cardinality(expected) + 1 :
        MatchesEntries(extensions, count, expected)}

\* Preflight resolves the registered entries again, outside the try.
Expected == {target[RegisteredEntry(p)] : p \in Selected}

FirstIsEnough(i) == TRUE        \* mutant: the other Profiles are not checked
IsLast(i) == i = Len(Profiles)

Resources ==
    /\ pc = "resources"
    /\ \/ /\ Gone \in Expected
          /\ Throws(Plain)
          /\ Failed(Boundary, "none", "host-contract", "HOST_UNAVAILABLE")
          /\ UNCHANGED profile
       \/ /\ Gone \notin Expected
          /\ NotReady("extension-loading", "none")
          /\ UNCHANGED profile
       \/ /\ Gone \notin Expected /\ Loads(Expected) # {}
          /\ \/ IsLast(profile) /\ Continues("launcher") /\ UNCHANGED profile
             \/ ~IsLast(profile) /\ Continues("walk") /\ profile' = profile + 1
    /\ UNCHANGED <<config, files, stage, at, closure, adapter, session>>

(* The optional launcher probe of the application, and the report.           *)
Launcher ==
    /\ pc = "launcher"
    /\ \/ \E probe \in {"passed", "not-checked"} :
             /\ readiness' = [c \in Checks |-> IF c = "launcher" THEN probe ELSE "passed"]
             /\ Goto("checked")
             /\ UNCHANGED <<blocker, reported, failures>>
       \/ \E thrown \in Thrown :
             /\ Blocks(SafeHostReadinessFailure(thrown.error, "launcher", "none"))
             /\ Failed("none", "none", "launcher", "HOST_UNAVAILABLE")
    /\ UNCHANGED <<config, files, control, closure, adapter, session>>

(* The caller invokes the entry after its check.                             *)
Invoke ==
    /\ pc = "checked"
    /\ Goto("host") /\ stage' = "validate" /\ profile' \in DOMAIN Profiles
    /\ at' = 1 /\ failures' = <<>>
    /\ UNCHANGED <<config, files, closure, adapter, session, results>>

-----------------------------------------------------------------------------
(* launch of the host module, after its validate.                            *)
Configure ==
    /\ pc = "configure"
    /\ \/ Continues("create")
       \/ \E thrown \in Thrown :
             /\ Throws(SafeNativeFailure(thrown.error, "configuration", "none"))
             /\ Failed("configuration", "none", "none", thrown.reason)
    /\ UNCHANGED <<config, files, control, closure, adapter, session>>

\* Adapters are kept by binding key.
Create ==
    /\ pc = "create" /\ at \in DOMAIN Plan
    /\ LET p == Plan[at] IN
       \/ /\ adapter' = [adapter EXCEPT ![key[p]] = p]
          /\ at' = at + 1
          /\ UNCHANGED <<pc, results, failures>>
       \/ \E thrown \in Thrown :
             /\ Throws(SafeNativeFailure(thrown.error, "adapter-creation", p))
             /\ Failed("adapter-creation", p, "none", thrown.reason)
             /\ UNCHANGED <<adapter, at>>
    /\ UNCHANGED <<config, files, stage, profile, closure, session>>

\* mkdir, the application host with a closure of its own, and its validate.
Select ==
    /\ pc = "create" /\ at \notin DOMAIN Plan
    /\ \/ /\ Throws(Plain)
          /\ Failed("host-launch", "none", "none", "NATIVE_EXECUTION_FAILED")
          /\ UNCHANGED <<stage, closure>>
       \/ /\ condition = "hookless"
          /\ Throws(Unavailable)
          /\ Failed("host-launch", "none", "none", "HOST_UNAVAILABLE")
          /\ UNCHANGED <<stage, closure>>
       \/ /\ condition # "hookless"
          /\ FreshClosure /\ stage' = "select" /\ Continues("walk")
    /\ at' = 1
    /\ UNCHANGED <<config, files, profile, adapter, session>>

(* SessionManager.create ends the launch; executeSession records the Session.*)
Open ==
    /\ pc = "open"
    /\ \/ Continues("initialize")
       \/ /\ Throws(SafeNativeFailure(Plain, "session-creation", "none"))
          /\ Failed("session-creation", "none", "none", "NATIVE_EXECUTION_FAILED")
    /\ UNCHANGED <<config, files, control, closure, adapter, session>>

-----------------------------------------------------------------------------
(* The handle.  What initialize or run throws is wrapped in the current      *)
(* phase, recorded by executeSession, and followed by close.                 *)
Raises(e) == error' = SafeNativeFailure(e, phase, "none") /\ Goto("close")

Advances(step, next) == Goto(step) /\ phase' = next /\ UNCHANGED <<error, failures>>

handleVars == <<config, files, control, closure, adapter, results>>

(* The domain adapter's initialize.  After a failure an event is written,    *)
(* and a rejection of that write is swallowed.                               *)
Initialize ==
    /\ pc = "initialize"
    /\ \/ Advances("load", "resource-loading") /\ UNCHANGED rejected
       \/ \E thrown \in Thrown :
             /\ Raises(SafeNativeFailure(thrown.error, "initialization", Primary))
             /\ Failed("initialization", Primary, "none", thrown.reason)
             /\ rejected' \in BOOLEAN
             /\ UNCHANGED phase
    /\ UNCHANGED <<handleVars, loaded, open, extensionError>>

Load ==
    /\ pc = "load"
    /\ \/ \E extensions \in Loads({entry[p] : p \in Selected}) :
             /\ loaded' = extensions
             /\ Advances("session", "session-creation")
       \/ /\ Raises(NativeFailure)
          /\ Failed("resource-loading", "none", "none", "NATIVE_EXECUTION_FAILED")
          /\ UNCHANGED <<loaded, phase>>
    /\ UNCHANGED <<handleVars, open, rejected, extensionError>>

CreateSession ==
    /\ pc = "session"
    /\ \/ open' = TRUE /\ Advances("bind", "extension-binding")
       \/ /\ Raises(Plain)
          /\ Failed("session-creation", "none", "none", "NATIVE_EXECUTION_FAILED")
          /\ UNCHANGED <<open, phase>>
    /\ UNCHANGED <<handleVars, loaded, rejected, extensionError>>

(* onError: an extension reports an error by the path of its entry, or by no *)
(* path known here.  One of an aspect stays its own affair.                  *)
ExtensionReports(path) ==
    LET owner == IF path \in Paths THEN owners[path] ELSE "none" IN
    /\ pc \in {"bind", "consume", "run", "close", "closing"} /\ open
    /\ extensionError = NoError        \* later ones are dropped
    /\ owner \notin Aspects
    /\ extensionError' = SafeNativeFailure(Registered("native", "NATIVE_EXTENSION_FAILED"),
                                          phase, owner)
    /\ Failed(phase, owner, "none", "NATIVE_EXTENSION_FAILED")
    /\ UNCHANGED <<handleVars, pc, phase, loaded, open, rejected, error>>

\* A governance write is rejected while the session is open.
WriteFails ==
    /\ pc \in {"bind", "consume", "run", "close", "closing"} /\ open /\ ~rejected
    /\ rejected' = TRUE
    /\ UNCHANGED <<handleVars, pc, phase, loaded, open, extensionError, error, failures>>

Bind ==
    /\ pc = "bind"
    /\ \/ extensionError = NoError /\ Goto("consume") /\ UNCHANGED <<error, failures>>
       \/ extensionError # NoError /\ Raises(extensionError) /\ UNCHANGED failures
       \/ /\ Raises(Plain)
          /\ Failed("extension-binding", "none", "none", "NATIVE_EXECUTION_FAILED")
    /\ UNCHANGED <<handleVars, phase, loaded, open, rejected, extensionError>>

\* executeSession records the consumptions between initialize and run.
Consume ==
    /\ pc = "consume"
    /\ Advances("run", "domain-run")
    /\ UNCHANGED <<handleVars, loaded, open, rejected, extensionError>>

(* run of the application host, and the check of extensionError after it.  A *)
(* rejected write surfaces as it is, whatever the domain had to say.         *)
Run ==
    /\ pc = "run"
    /\ IF rejected
          THEN /\ Raises(StorageFailure)
               /\ Failed("domain-run", "none", "none", "GOVERNANCE_STORAGE_FAILED")
          ELSE \/ extensionError = NoError /\ Goto("close") /\ UNCHANGED <<error, failures>>
               \/ extensionError # NoError /\ Raises(extensionError) /\ UNCHANGED failures
               \/ \E thrown \in Thrown, where \in {"domain-run", "publication"} :
                     /\ Raises(SafeNativeFailure(thrown.error, where, Primary))
                     /\ Failed(where, Primary, "none", thrown.reason)
    /\ UNCHANGED <<handleVars, phase, loaded, open, rejected, extensionError>>

Close ==
    /\ pc = "close"
    /\ phase' = IF open THEN "shutdown" ELSE phase
    /\ Goto("closing")
    /\ UNCHANGED <<handleVars, loaded, open, rejected, extensionError, error, failures>>

Cleanup(where, reason) ==
    [phase |-> where, plugin |-> "none", check |-> "none", reason |-> reason, cleanup |-> TRUE]

(* close: the shutdown event, the governance writes, dispose.  A rejected    *)
(* write replaces the failure so far, a failure of dispose does not.         *)
ShutdownFailure(emits) ==
    IF ~emits THEN SafeNativeFailure(Plain, "shutdown", "none")
    ELSE IF extensionError = NoError THEN NoError
    ELSE SafeNativeFailure(extensionError, "shutdown", "none")

CloseFailure(emits, disposes) ==
    LET shutdown == ShutdownFailure(emits) IN
    IF rejected THEN SafeNativeFailure(StorageFailure, "finalization", "none")
    ELSE IF shutdown = NoError /\ ~disposes THEN SafeNativeFailure(Plain, "disposal", "none")
    ELSE shutdown

IgnoresCleanup(e, cleanup) == e     \* mutant: a failure of close is dropped
CleanupReplaces(e, cleanup) ==      \* mutant: any failure of close is reported
    IF cleanup = NoError THEN e ELSE cleanup

\* executeSession, in its catch block if there was an error before close.
AfterCleanup(e, cleanup) ==
    IF e = NoError \/ cleanup.code = "StorageFailure" THEN cleanup ELSE e

Settles(e) ==
    /\ error' = e
    /\ reported' = IF e = NoError THEN NoDiagnostic ELSE DiagnosticFor(e, "native")
    /\ Goto("ended")

Closing ==
    /\ pc = "closing"
    /\ \/ ~open /\ Settles(error) /\ UNCHANGED failures
       \/ /\ open
          /\ \E emits, disposes \in BOOLEAN :
                /\ Settles(AfterCleanup(error, CloseFailure(emits, disposes)))
                /\ failures' = failures
                     \o (IF emits THEN <<>> ELSE <<Cleanup("shutdown", "NATIVE_EXECUTION_FAILED")>>)
                     \o (IF ~rejected THEN <<>>
                         ELSE <<Cleanup("finalization", "GOVERNANCE_STORAGE_FAILED")>>)
                     \o (IF disposes THEN <<>> ELSE <<Cleanup("disposal", "NATIVE_EXECUTION_FAILED")>>)
    /\ UNCHANGED <<config, files, control, closure, adapter, phase, loaded, open, rejected,
                   extensionError, readiness, blocker>>

-----------------------------------------------------------------------------
(* The user installs, removes or relinks an entry file.                      *)
Move(path) ==
    /\ pc # "ended" /\ moves < MaxMoves
    /\ moves' = moves + 1
    /\ target' \in Resolutions \ {target}
    /\ \A p \in Paths : path \notin {p, target[p]} => target'[p] = target[p]
    /\ UNCHANGED <<config, pc, control, closure, adapter, session, results, failures>>

Next ==
    \/ LoadHost \/ Bindings \/ Walk \/ Walked
    \/ Resources \/ Launcher \/ Invoke
    \/ Configure \/ Create \/ Select \/ Open
    \/ Initialize \/ Load \/ CreateSession \/ Bind \/ Consume \/ Run \/ Close \/ Closing
    \/ WriteFails
    \/ \E path \in Paths \cup {"none"} : ExtensionReports(path)
    \/ \E path \in Paths : Move(path)

Spec == Init /\ [][Next]_vars

-----------------------------------------------------------------------------
(* The diagnostic d tells of the failure f: its phase, its Plugin, its check *)
(* and its reason are those of the place where f happened.                   *)
Tells(d, f) ==
    d.phase = f.phase /\ d.plugin = f.plugin /\ d.check = f.check /\ d.reason = f.reason

Failures == {failures[i] : i \in DOMAIN failures}

(* Through every wrapping, what a blocker or a receipt says is true of one   *)
(* failure as a whole: no phase of one with the Plugin of another, no Plugin *)
(* for a failure of unknown origin, nothing an error said about itself       *)
(* (safeNativeFailure; manual/TROUBLESHOOTING.md:69-78).                     *)
ReportIsAFailure ==
    /\ pc = "checked" /\ blocker # NoDiagnostic => \E f \in Failures : Tells(blocker, f)
    /\ pc = "ended" /\ reported # NoDiagnostic => \E f \in Failures : Tells(reported, f)

(* Nothing that failed is hidden: a receipt without a diagnostic is that of  *)
(* a session in which no step, no extension, no write and no cleanup failed, *)
(* and what failed before the cleanup is reported before it ("Cleanup errors *)
(* must not erase prior failures", manual/AGENT_GUIDE.md:178).  Only a       *)
(* rejected governance write goes first, and then it always does.            *)
NothingHidden ==
    pc = "ended" /\ failures # <<>> =>
        /\ reported # NoDiagnostic
        /\ open /\ rejected => reported.reason = "GOVERNANCE_STORAGE_FAILED"
        /\ (\E f \in Failures : ~f.cleanup) =>
              \/ reported.reason = "GOVERNANCE_STORAGE_FAILED"
              \/ \E f \in Failures : ~f.cleanup /\ Tells(reported, f)

(* What the preflight passed, an invocation of any Profile passes: while no  *)
(* entry moves, it meets no failed check of the host, the SDK, the bindings  *)
(* or the entries ("that same file is used for preflight and execution").    *)
PreflightIsProductionCheck ==
    pc = "ended" /\ readiness["sdk"] = "passed" /\ moves = 0 => reported.check = "none"

(* The Plugins of a plan are kept apart.  A native session has exactly one   *)
(* extension per selected Plugin, loaded from its entry as last resolved,    *)
(* however entries moved since validation; an error reported from that entry *)
(* is charged to the Plugin it was selected for; and while no entry moves,   *)
(* the adapter under the binding key of a Plugin is the one created for it,  *)
(* though a launch keeps the adapters of all Plugins in one map.             *)
KeptApart ==
    open => /\ loaded = {entry[p] : p \in Selected} /\ Cardinality(loaded) = Len(Plan)
            /\ \A p \in Selected : owners[entry[p]] = p
            /\ moves = 0 => \A p \in Selected : adapter[key[p]] = p
=============================================================================
