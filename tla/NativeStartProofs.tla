-------------------------- MODULE NativeStartProofs --------------------------
(* How failures are reported, and how Plugins are kept apart, for any        *)
(* Profiles, binding keys and entry files, however the files move.           *)
EXTENDS NativeStart, FiniteSetTheorems, FunctionTheorems, TLAPS

-----------------------------------------------------------------------------
(* Diagnostics and errors, by what they are made of.                         *)
IsDiagnostic(d) ==
    d = [boundary |-> d.boundary, reason |-> d.reason, check |-> d.check,
         plugin |-> d.plugin, phase |-> d.phase]

IsError(e) ==
    /\ e = [code |-> e.code, brand |-> e.brand, claims |-> e.claims]
    /\ IsDiagnostic(e.brand)

LEMMA DiagnosticShape ==
    ASSUME NEW boundary, NEW reason
    PROVE  /\ IsDiagnostic(Diagnostic(boundary, reason))
           /\ Diagnostic(boundary, reason).boundary = boundary
           /\ Diagnostic(boundary, reason).reason = reason
           /\ Diagnostic(boundary, reason).check = "none"
           /\ Diagnostic(boundary, reason).plugin = "none"
           /\ Diagnostic(boundary, reason).phase = "none"
BY DEF Diagnostic, IsDiagnostic

LEMMA NoDiagnosticShape ==
    /\ IsDiagnostic(NoDiagnostic)
    /\ NoDiagnostic.boundary = "none" /\ NoDiagnostic.reason = "none"
    /\ NoDiagnostic.check = "none" /\ NoDiagnostic.plugin = "none"
    /\ NoDiagnostic.phase = "none"
BY DiagnosticShape DEF NoDiagnostic

AtPhase(d, where, who) == [d EXCEPT !.phase = where, !.plugin = who]
AtCheck(d, check, who) == [d EXCEPT !.check = check, !.plugin = who]

LEMMA PhaseUpdated ==
    ASSUME NEW d, IsDiagnostic(d), NEW where, NEW who
    PROVE  LET u == AtPhase(d, where, who) IN
           /\ IsDiagnostic(u) /\ u.phase = where /\ u.plugin = who
           /\ u.boundary = d.boundary /\ u.reason = d.reason /\ u.check = d.check
<1> DEFINE v == [d EXCEPT !.phase = where]
           w == [v EXCEPT !.plugin = who]
<1>1. v = [boundary |-> d.boundary, reason |-> d.reason, check |-> d.check,
           plugin |-> d.plugin, phase |-> where]
  BY DEF IsDiagnostic
<1>2. w = [boundary |-> d.boundary, reason |-> d.reason, check |-> d.check,
           plugin |-> who, phase |-> where]
  <2> HIDE DEF v
  <2> QED
    BY <1>1
<1>3. w = AtPhase(d, where, who)
  BY DEF AtPhase
<1> HIDE DEF w
<1> QED
  BY <1>2, <1>3 DEF IsDiagnostic

LEMMA CheckUpdated ==
    ASSUME NEW d, IsDiagnostic(d), NEW check, NEW who
    PROVE  LET u == AtCheck(d, check, who) IN
           /\ IsDiagnostic(u) /\ u.check = check /\ u.plugin = who
           /\ u.boundary = d.boundary /\ u.reason = d.reason /\ u.phase = d.phase
<1> DEFINE v == [d EXCEPT !.check = check]
           w == [v EXCEPT !.plugin = who]
<1>1. v = [boundary |-> d.boundary, reason |-> d.reason, check |-> check,
           plugin |-> d.plugin, phase |-> d.phase]
  BY DEF IsDiagnostic
<1>2. w = [boundary |-> d.boundary, reason |-> d.reason, check |-> check,
           plugin |-> who, phase |-> d.phase]
  <2> HIDE DEF v
  <2> QED
    BY <1>1
<1>3. w = AtCheck(d, check, who)
  BY DEF AtCheck
<1> HIDE DEF w
<1> QED
  BY <1>2, <1>3 DEF IsDiagnostic

LEMMA ErrorShape ==
    ASSUME NEW code, NEW brand, IsDiagnostic(brand)
    PROVE  /\ IsError(Error(code, brand))
           /\ Error(code, brand).code = code /\ Error(code, brand).brand = brand
BY DEF Error, IsError

(* A reason for what has no trusted mark.                                    *)
Unmarked(code) ==
    IF code = "StorageFailure" THEN "GOVERNANCE_STORAGE_FAILED"
    ELSE IF code = "NativeIntegrationNotReady" THEN "HOST_UNAVAILABLE"
    ELSE "NATIVE_EXECUTION_FAILED"

Wrapped(code) == IF code = "StorageFailure" THEN code ELSE "NativeExecutionFailed"

LEMMA SanitizedShape ==
    ASSUME NEW e, IsError(e)
    PROVE  LET s == Sanitize(e)  d == DiagnosticFor(s, "native") IN
           /\ IsError(s) /\ s.code = Wrapped(e.code)
           /\ e.brand # NoDiagnostic => d = e.brand /\ s.brand = e.brand
           /\ e.brand = NoDiagnostic =>
                 /\ IsDiagnostic(d) /\ d.reason = Unmarked(e.code)
                 /\ d.check = "none" /\ d.plugin = "none" /\ d.phase = "none"
<1> DEFINE s == Sanitize(e)
           d == DiagnosticFor(s, "native")
<1>1. CASE e.brand = NoDiagnostic /\ e.code = "NativeIntegrationNotReady"
  <2>1. s = Error("NativeExecutionFailed", Diagnostic("host", "HOST_UNAVAILABLE"))
    BY <1>1 DEF Sanitize, Trusted
  <2>2. Diagnostic("host", "HOST_UNAVAILABLE") # NoDiagnostic
    BY DiagnosticShape, NoDiagnosticShape
  <2>3. d = Diagnostic("host", "HOST_UNAVAILABLE")
    BY <2>1, <2>2, ErrorShape, DiagnosticShape DEF DiagnosticFor, Trusted
  <2> QED
    BY <1>1, <2>1, <2>3, ErrorShape, DiagnosticShape DEF Unmarked, Wrapped
<1>2. CASE ~(e.brand = NoDiagnostic /\ e.code = "NativeIntegrationNotReady")
  <2>1. s = Error(Wrapped(e.code), e.brand)
    BY <1>2 DEF Sanitize, Trusted, Wrapped
  <2>2. IsError(s) /\ s.code = Wrapped(e.code) /\ s.brand = e.brand
    BY <2>1, ErrorShape DEF IsError
  <2>3. CASE e.brand # NoDiagnostic
    BY <2>2, <2>3 DEF DiagnosticFor, Trusted
  <2>4. CASE e.brand = NoDiagnostic /\ e.code = "StorageFailure"
    <3>1. d = Diagnostic("governance-storage", "GOVERNANCE_STORAGE_FAILED")
      BY <2>2, <2>4 DEF DiagnosticFor, Trusted, Reason, Wrapped
    <3> QED
      BY <2>2, <2>4, <3>1, DiagnosticShape DEF Unmarked
  <2>5. CASE e.brand = NoDiagnostic /\ e.code # "StorageFailure"
    <3>1. d = Diagnostic("native", "NATIVE_EXECUTION_FAILED")
      BY <2>2, <2>5 DEF DiagnosticFor, Trusted, Reason, Wrapped
    <3> QED
      BY <1>2, <2>2, <2>5, <3>1, DiagnosticShape DEF Unmarked
  <2> QED
    BY <2>3, <2>4, <2>5
<1> QED
  BY <1>1, <1>2

(* A wrapped error says the phase and the Plugin of the innermost boundary   *)
(* that annotated it, and keeps its reason.                                  *)
LEMMA WrapAnnotates ==
    ASSUME NEW e, IsError(e), NEW where, NEW who, e.brand.phase = "none"
    PROVE  LET r == SafeNativeFailure(e, where, who) IN
           /\ IsError(r) /\ r.code = Wrapped(e.code)
           /\ r.brand.phase = where
           /\ e.brand = NoDiagnostic =>
                 /\ r.brand.plugin = who /\ r.brand.check = "none"
                 /\ r.brand.reason = Unmarked(e.code)
           /\ e.brand # NoDiagnostic =>
                 /\ r.brand.plugin = Or(who, e.brand.plugin)
                 /\ r.brand.check = e.brand.check /\ r.brand.reason = e.brand.reason
<1> DEFINE d == DiagnosticFor(Sanitize(e), "native")
           annotated == AtPhase(d, where, Or(who, d.plugin))
<1>1. /\ Sanitize(e).code = Wrapped(e.code)
      /\ e.brand # NoDiagnostic => d = e.brand
      /\ IsDiagnostic(d) /\ d.phase = "none"
      /\ e.brand = NoDiagnostic =>
            d.reason = Unmarked(e.code) /\ d.check = "none" /\ d.plugin = "none"
  BY SanitizedShape DEF IsError
<1>2. SafeNativeFailure(e, where, who) = Error(Wrapped(e.code), annotated)
  BY <1>1 DEF SafeNativeFailure, AtPhase
<1> HIDE DEF d
<1>3. /\ IsDiagnostic(annotated) /\ annotated.phase = where
      /\ annotated.plugin = Or(who, d.plugin)
      /\ annotated.check = d.check /\ annotated.reason = d.reason
  BY <1>1, PhaseUpdated
<1> HIDE DEF annotated
<1> QED
  BY <1>1, <1>2, <1>3, ErrorShape DEF Or

(* A more specific inner boundary survives outer wrapping.                   *)
LEMMA WrapKeeps ==
    ASSUME NEW e, IsError(e), NEW where, NEW who, e.brand.phase # "none"
    PROVE  LET r == SafeNativeFailure(e, where, who) IN
           IsError(r) /\ r.code = Wrapped(e.code) /\ r.brand = e.brand
<1>1. e.brand # NoDiagnostic
  BY NoDiagnosticShape
<1> QED
  BY <1>1, SanitizedShape DEF SafeNativeFailure

LEMMA ReadinessShape ==
    ASSUME NEW check, NEW who
    PROVE  LET e == HostReadinessFailure(check, who) IN
           /\ IsError(e) /\ e.code = "NativeIntegrationNotReady"
           /\ e.brand.check = check /\ e.brand.plugin = who
           /\ e.brand.phase = "none" /\ e.brand.reason = "HOST_UNAVAILABLE"
<1> DEFINE d == AtCheck(Diagnostic("host", "HOST_UNAVAILABLE"), check, who)
<1>1. /\ IsDiagnostic(d) /\ d.check = check /\ d.plugin = who /\ d.phase = "none"
      /\ d.reason = "HOST_UNAVAILABLE"
  BY DiagnosticShape, CheckUpdated
<1>2. HostReadinessFailure(check, who) = Error("NativeIntegrationNotReady", d)
  BY DEF HostReadinessFailure, AtCheck
<1> HIDE DEF d
<1> QED
  BY <1>1, <1>2, ErrorShape

-----------------------------------------------------------------------------
(* Where the control is.                                                     *)
EarlySteps == {"host", "bindings", "walk", "resources", "launcher", "configure", "create", "open"}
Unopened == EarlySteps \cup {"checked", "initialize", "load", "session"}
OpenSteps == {"bind", "consume", "run"}
CloseSteps == {"close", "closing"}
HandleSteps == {"initialize", "load", "session"} \cup OpenSteps \cup CloseSteps

Control ==
    /\ pc \in EarlySteps \cup {"checked", "ended"} \cup HandleSteps
    /\ stage \in {"preflight", "validate", "launch", "select", "reopen"}
    /\ stage = "preflight" =>
          pc \in {"host", "bindings", "walk", "resources", "launcher", "checked"}
    /\ pc \in {"resources", "launcher", "checked"} => stage = "preflight"
    /\ pc = "host" => stage \in {"preflight", "validate"}
    /\ pc = "bindings" => stage \in {"preflight", "validate", "launch"}
    /\ pc \in {"configure", "create"} => stage = "launch"
    /\ pc \in HandleSteps \cup {"open"} \/ open => stage = "reopen"
    /\ profile \in DOMAIN Profiles
    /\ at \in 1 .. Len(Plan) + 1
    /\ pc \in {"host", "resources", "launcher", "configure"} => at = 1
    /\ pc \in Unopened => ~open
    /\ pc \in OpenSteps => open
    /\ open \in BOOLEAN /\ rejected \in BOOLEAN

(* The local configuration and the paths.                                    *)
Local ==
    /\ condition \in Conditions
    /\ key \in [Plugins -> Keys] /\ registration \in [Keys -> Paths]
    /\ target \in Resolutions /\ moves \in Nat
    /\ entry \in [Plugins -> Paths] /\ owners \in [Paths -> Plugins \cup {"none"}]
    /\ adapter \in [Keys -> Plugins \cup {"none"}]

(* The first n Plugins of the plan have files of their own, which are        *)
(* charged to them.                                                          *)
Resolved(n) ==
    \A j \in 1 .. n :
        /\ entry[Plan[j]] \in Files /\ owners[entry[Plan[j]]] = Plan[j]
        /\ \A k \in 1 .. n : entry[Plan[j]] = entry[Plan[k]] => j = k

Places ==
    /\ pc = "walk" => Resolved(at - 1) /\ entries = {entry[Plan[j]] : j \in 1 .. at - 1}
    /\ pc = "resources" => entries = {}
    /\ pc \in HandleSteps \cup {"open"} \/ open => Resolved(Len(Plan))
    /\ pc = "session" \/ open => loaded = {entry[p] : p \in Selected}

(* While no entry moves, every resolution of an entry gives one file, so     *)
(* that two Plugins of a plan that passed have different binding keys.       *)
KeysApart == \A j, k \in DOMAIN Plan : key[Plan[j]] = key[Plan[k]] => j = k

HaveAdapters(n) == \A j \in 1 .. n : adapter[key[Plan[j]]] = Plan[j]

Steady ==
    moves = 0 =>
        /\ \A p \in Plugins : entry[p] \in {RegisteredEntry(p), target[RegisteredEntry(p)]}
        /\ pc = "walk" => \A j \in 1 .. at - 1 :
              entry[Plan[j]] = target[RegisteredEntry(Plan[j])] /\ key[Plan[j]] \in prompts
        /\ pc \in {"configure", "create"} \/ stage \in {"select", "reopen"} => KeysApart
        /\ pc = "create" => HaveAdapters(at - 1)
        /\ stage \in {"select", "reopen"} => HaveAdapters(Len(Plan))

(* Each error that is kept is told by a failure that was met.                *)
IsToldBy(e, f) == IsError(e) /\ e.brand.phase # "none" /\ Tells(e.brand, f)

Codes == {"StorageFailure", "NativeExecutionFailed"}

ErrorTold ==
    error # NoError => /\ error.code \in Codes
                       /\ \E f \in Failures : ~f.cleanup /\ IsToldBy(error, f)

ExtensionTold ==
    extensionError # NoError =>
        /\ extensionError.code = "NativeExecutionFailed"
        /\ \E f \in Failures : IsToldBy(extensionError, f)

Phases ==
    /\ phase # "none"
    /\ pc = "initialize" => phase = "initialization"
    /\ pc = "load" => phase = "resource-loading"
    /\ pc = "session" => phase = "session-creation"
    /\ pc \in {"bind", "consume"} => phase = "extension-binding"
    /\ pc = "run" => phase = "domain-run"

Told ==
    /\ failures \in Seq(Failures)
    /\ pc # "ended" => reported = NoDiagnostic
    /\ stage = "preflight" /\ pc # "checked" => blocker = NoDiagnostic
    /\ pc \in EarlySteps \cup {"initialize", "load", "session"} => failures = <<>>
    /\ pc \in Unopened => extensionError = NoError
    /\ pc \in Unopened \cup OpenSteps => error = NoError
    /\ pc \in OpenSteps => \A f \in Failures : ~f.cleanup
    /\ pc \in EarlySteps \cup {"checked"} => phase = "initialization"
    /\ pc \in HandleSteps =>
          /\ Phases /\ ErrorTold /\ ExtensionTold
          /\ \A f \in Failures : f.check = "none"
          /\ failures # <<>> => error # NoError \/ extensionError # NoError
    /\ pc \in CloseSteps /\ error = NoError => open /\ \A f \in Failures : f.cleanup

-----------------------------------------------------------------------------
(* A plan is a non-empty sequence of different Plugins.                      *)
LEMMA PlanShape ==
    ASSUME NEW i \in DOMAIN Profiles
    PROVE  /\ Profiles[i] \in Seq(Plugins)
           /\ Len(Profiles[i]) \in Nat \ {0} /\ DOMAIN Profiles[i] = 1 .. Len(Profiles[i])
           /\ \A j \in 1 .. Len(Profiles[i]) : Profiles[i][j] \in Plugins
           /\ \A j, k \in 1 .. Len(Profiles[i]) : Profiles[i][j] = Profiles[i][k] => j = k
<1>1. Profiles[i] \in Seq(Plugins) \ {<<>>}
  BY ProfilesAssumption
<1> QED
  BY <1>1, ProfilesAssumption

LEMMA PlanTyped ==
    ASSUME profile \in DOMAIN Profiles
    PROVE  /\ Len(Plan) \in Nat \ {0} /\ DOMAIN Plan = 1 .. Len(Plan)
           /\ \A j \in 1 .. Len(Plan) : Plan[j] \in Plugins /\ Plan[j] \in Selected
           /\ \A j, k \in 1 .. Len(Plan) : Plan[j] = Plan[k] => j = k
           /\ Selected \subseteq Plugins /\ Primary \in Plugins
           /\ \A p \in Selected : \E j \in 1 .. Len(Plan) : p = Plan[j]
BY PlanShape DEF Plan, Selected, Primary

LEMMA ProfilesTyped ==
    /\ DOMAIN Profiles = 1 .. Len(Profiles) /\ Len(Profiles) \in Nat \ {0}
    /\ 1 \in DOMAIN Profiles
BY ProfilesAssumption

(* Where a path leads, it leads on to itself.                                *)
LEMMA ResolvesOnce ==
    ASSUME target \in Resolutions, NEW path \in Paths, target[path] # Gone
    PROVE  target[path] \in Files /\ target[path] \in Paths /\ target[target[path]] = target[path]
BY FilesAssumption DEF Resolutions

LEMMA FilesStay ==
    ASSUME target \in Resolutions, NEW path \in Files
    PROVE  target[path] \in {path, Gone}
BY FilesAssumption DEF Resolutions

LEMMA ThrowsEnds ==
    ASSUME NEW e, Throws(e)
    PROVE  pc' = IF stage = "preflight" THEN "checked" ELSE "ended"
BY DEF Throws, Blocks, Refuses, Goto

-----------------------------------------------------------------------------
Typed == Control /\ Local

LEMMA TypedInit == Init => Typed
<1> SUFFICES ASSUME Init PROVE Typed
  OBVIOUS
<1>1. profile \in DOMAIN Profiles /\ Len(Plan) \in Nat \ {0}
  BY ProfilesTyped, PlanTyped DEF Init
<1>2. at = 1 /\ at \in 1 .. Len(Plan) + 1
  BY <1>1 DEF Init
<1>3. Control
  BY <1>1, <1>2 DEF Init, Control, EarlySteps, Unopened, OpenSteps, CloseSteps, HandleSteps
<1>4. Local
  BY DEF Init, Local, RegisteredEntry
<1> QED
  BY <1>3, <1>4 DEF Typed

LEMMA LocalStep == Typed /\ [Next]_vars => Local'
<1> SUFFICES ASSUME Control, Local, [Next]_vars
             PROVE  Local'
  BY DEF Typed
<1> USE DEF Local
<1>1. ASSUME UNCHANGED <<config, files, closure, adapter>>
      PROVE  Local'
  BY <1>1 DEF config, files, closure
<1>2. ASSUME UNCHANGED <<config, files, adapter>>, FreshClosure
      PROVE  Local'
  BY <1>2 DEF config, files, FreshClosure, RegisteredEntry
<1>3. CASE Bindings
  BY <1>1, <1>2, <1>3 DEF Bindings
<1>4. CASE Walk
  <2> DEFINE p == Plan[at]  path == target[entry[p]]
  <2>1. UNCHANGED <<config, files, adapter>>
    BY <1>4 DEF Walk
  <2>2. CASE path = Gone
    <3>1. UNCHANGED closure
      BY <1>4, <2>2 DEF Walk
    <3> QED
      BY <1>1, <2>1, <3>1
  <2>3. CASE path # Gone
    <3>1. entry' = [entry EXCEPT ![p] = path] /\ owners' = Owns(p, path)
      BY <1>4, <2>3 DEF Walk
    <3>2. p \in Plugins
      BY <1>4, PlanTyped DEF Walk, Control
    <3>3. path \in Paths
      BY <2>3, <3>2, ResolvesOnce
    <3> HIDE DEF p, path
    <3>4. entry' \in [Plugins -> Paths] /\ owners' \in [Paths -> Plugins \cup {"none"}]
      BY <3>1, <3>2, <3>3 DEF Owns
    <3> QED
      BY <2>1, <3>4 DEF config, files
  <2> QED
    BY <2>2, <2>3
<1>5. CASE Walked
  BY <1>5 DEF Walked, config, files
<1>6. CASE Create
  <2>1. Plan[at] \in Plugins
    BY <1>6, PlanTyped DEF Create, Control
  <2>2. key[Plan[at]] \in Keys
    BY <2>1
  <2>3. adapter' \in [Keys -> Plugins \cup {"none"}]
    BY <1>6, <2>1, <2>2 DEF Create
  <2> QED
    BY <1>6, <2>3 DEF Create, config, files, closure
<1>7. CASE Select
  BY <1>1, <1>2, <1>7 DEF Select
<1>8. CASE \E path \in Paths : Move(path)
  BY <1>8 DEF Move, config, closure
<1>9. CASE LoadHost \/ Resources \/ Launcher \/ Invoke \/ Configure \/ Open
  BY <1>1, <1>9 DEF LoadHost, Resources, Launcher, Invoke, Configure, Open
<1>10. CASE Initialize \/ Load \/ CreateSession \/ Bind \/ Consume \/ Run \/ Close
  BY <1>1, <1>10 DEF Initialize, Load, CreateSession, Bind, Consume, Run, Close, handleVars
<1>11. CASE Closing \/ WriteFails \/ \E path \in Paths \cup {"none"} : ExtensionReports(path)
  BY <1>1, <1>11 DEF Closing, WriteFails, ExtensionReports, handleVars
<1>12. CASE UNCHANGED vars
  BY <1>1, <1>12 DEF vars
<1> QED
  BY <1>3, <1>4, <1>5, <1>6, <1>7, <1>8, <1>9, <1>10, <1>11, <1>12 DEF Next

LEMMA ControlStep == Typed /\ [Next]_vars => Control'
<1> SUFFICES ASSUME Control, Local, [Next]_vars
             PROVE  Control'
  BY DEF Typed
<1> USE DEF Control, EarlySteps, Unopened, OpenSteps, CloseSteps, HandleSteps
<1>1. /\ Len(Plan) \in Nat \ {0} /\ DOMAIN Plan = 1 .. Len(Plan)
      /\ profile' = profile => Plan' = Plan
  BY PlanTyped DEF Plan
<1>2. 1 \in 1 .. Len(Plan) + 1
  BY <1>1
<1>3. CASE LoadHost
  <2>1. \/ pc' = "bindings"
        \/ pc' = "checked" /\ stage = "preflight"
        \/ pc' = "ended" /\ stage # "preflight"
    BY <1>3 DEF LoadHost, Blocks, Goto, Continues
  <2>2. UNCHANGED <<stage, profile, at, open, rejected>> /\ pc = "host"
    BY <1>3 DEF LoadHost, control, session
  <2> QED
    BY <1>1, <2>1, <2>2
<1>4. ASSUME NEW e, Throws(e), UNCHANGED <<stage, profile, open, rejected>>, at' \in {1, at},
             pc \in EarlySteps
      PROVE  Control'
  <2>1. pc' = IF stage = "preflight" THEN "checked" ELSE "ended"
    BY <1>4, ThrowsEnds
  <2> QED
    BY <1>1, <1>2, <1>4, <2>1
<1>5. CASE Bindings
  <2>1. UNCHANGED <<stage, profile, open, rejected>> /\ at' = 1 /\ pc = "bindings"
    BY <1>5 DEF Bindings, session
  <2>2. pc' = "walk" \/ \E e : Throws(e)
    BY <1>5 DEF Bindings, NotReady, Continues, Goto
  <2> QED
    BY <1>1, <1>2, <1>4, <2>1, <2>2
<1>6. CASE Walk
  <2>1. UNCHANGED <<stage, profile, open, rejected>> /\ pc = "walk" /\ at \in DOMAIN Plan
    BY <1>6 DEF Walk, session
  <2>2. \/ at' = at /\ \E e : Throws(e)
        \/ at' = at + 1 /\ pc' = "walk"
    BY <1>6 DEF Walk, BadEntry
  <2>3. at + 1 \in 1 .. Len(Plan) + 1
    BY <1>1, <2>1
  <2> QED
    BY <1>1, <1>4, <2>1, <2>2, <2>3
<1>7. CASE Walked
  <2>1. \/ stage = "preflight" /\ pc' = "resources" /\ stage' = stage
        \/ stage = "validate" /\ pc' = "bindings" /\ stage' = "launch"
        \/ stage = "launch" /\ pc' = "configure" /\ stage' = stage
        \/ stage = "select" /\ pc' = "walk" /\ stage' = "reopen"
        \/ stage = "reopen" /\ pc' = "open" /\ stage' = stage
    BY <1>7 DEF Walked, Goto
  <2>2. UNCHANGED <<profile, open, rejected>> /\ at' = 1 /\ pc = "walk"
    BY <1>7 DEF Walked, session
  <2> QED
    BY <1>1, <1>2, <2>1, <2>2
<1>8. CASE Resources
  <2>1. UNCHANGED <<stage, at, open, rejected>> /\ pc = "resources"
    BY <1>8 DEF Resources, session
  <2>2. \/ profile' = profile /\ \E e : Throws(e)
        \/ profile' = profile /\ pc' = "launcher"
        \/ ~IsLast(profile) /\ pc' = "walk" /\ profile' = profile + 1
    BY <1>8 DEF Resources, NotReady, Continues, Goto
  <2>3. CASE ~IsLast(profile) /\ pc' = "walk" /\ profile' = profile + 1
    <3>1. profile' \in DOMAIN Profiles
      BY <2>3, ProfilesTyped DEF IsLast
    <3>2. at' \in 1 .. Len(Plan') + 1
      BY <2>1, <3>1, PlanShape DEF Plan
    <3> QED
      BY <2>1, <2>3, <3>1, <3>2
  <2> QED
    BY <1>1, <1>4, <2>1, <2>2, <2>3
<1>9. CASE Launcher
  BY <1>1, <1>9 DEF Launcher, Goto, Blocks, control, session
<1>10. CASE Invoke
  <2>1. at' \in 1 .. Len(Plan') + 1
    BY <1>10, PlanShape DEF Invoke, Plan
  <2> QED
    BY <1>10, <2>1 DEF Invoke, Goto, session
<1>11. CASE Configure
  <2>1. pc' = "create" \/ \E e : Throws(e)
    BY <1>11 DEF Configure, Continues, Goto
  <2> QED
    BY <1>1, <1>4, <1>11, <2>1 DEF Configure, control, session
<1>12. CASE Create
  <2>1. \/ at' = at + 1 /\ pc' = pc
        \/ at' = at /\ \E e : Throws(e)
    BY <1>12 DEF Create
  <2>2. at \in DOMAIN Plan => at + 1 \in 1 .. Len(Plan) + 1
    BY <1>1
  <2> QED
    BY <1>1, <1>4, <1>12, <2>1, <2>2 DEF Create, session
<1>13. CASE Select
  <2>1. \/ stage' = stage /\ \E e : Throws(e)
        \/ stage' = "select" /\ pc' = "walk"
    BY <1>13 DEF Select, Continues, Goto
  <2> QED
    BY <1>1, <1>2, <1>4, <1>13, <2>1 DEF Select, session
<1>14. CASE Open
  <2>1. pc' = "initialize" \/ \E e : Throws(e)
    BY <1>14 DEF Open, Continues, Goto
  <2> QED
    BY <1>1, <1>4, <1>14, <2>1 DEF Open, control, session
<1>15. CASE Initialize \/ Load \/ CreateSession
  <2>1. UNCHANGED <<stage, profile, at>> /\ pc \in {"initialize", "load", "session"}
    BY <1>15 DEF Initialize, Load, CreateSession, handleVars, control
  <2>2. /\ rejected' \in BOOLEAN
        /\ \/ pc' \in {"load", "session", "close"} /\ open' = open
           \/ pc' = "bind" /\ open' = TRUE
    BY <1>15 DEF Initialize, Load, CreateSession, Advances, Raises, Goto
  <2>3. ~open /\ stage = "reopen" /\ Plan' = Plan
    BY <1>1, <2>1
  <2>4. CASE pc' = "bind" /\ open' = TRUE
    BY <2>1, <2>2, <2>3, <2>4
  <2>5. CASE pc' \in {"load", "session", "close"} /\ open' = open
    BY <2>1, <2>2, <2>3, <2>5
  <2> QED
    BY <2>2, <2>4, <2>5
<1>16. CASE Bind \/ Consume \/ Run
  BY <1>1, <1>16 DEF Bind, Consume, Run, Advances, Raises, Goto, handleVars, control
<1>17. CASE Close \/ Closing \/ WriteFails
  BY <1>1, <1>17 DEF Close, Closing, WriteFails, Settles, Goto, handleVars, control
<1>18. CASE \E path \in Paths \cup {"none"} : ExtensionReports(path)
  BY <1>1, <1>18 DEF ExtensionReports, handleVars, control
<1>19. CASE \E path \in Paths : Move(path)
  BY <1>1, <1>19 DEF Move, control, session
<1>20. CASE UNCHANGED vars
  BY <1>1, <1>20 DEF vars, control, session
<1> QED
  BY <1>3, <1>5, <1>6, <1>7, <1>8, <1>9, <1>10, <1>11, <1>12, <1>13, <1>14, <1>15, <1>16,
     <1>17, <1>18, <1>19, <1>20 DEF Next

LEMMA TypedAlways == Spec => []Typed
<1>1. Typed /\ [Next]_vars => Typed'
  BY LocalStep, ControlStep DEF Typed
<1> QED
  BY <1>1, TypedInit, PTL DEF Spec

-----------------------------------------------------------------------------
(* A Plugin passes the walk with a file that no earlier one has.             *)
LEMMA WalkStep ==
    ASSUME Control, Local, Walk
    PROVE  LET p == Plan[at]  path == target[entry[p]] IN
           /\ pc = "walk" /\ at \in 1 .. Len(Plan) /\ p \in Plugins
           /\ \/ /\ at' = at + 1 /\ pc' = "walk" /\ UNCHANGED <<results, failures>>
                 /\ path \in Files /\ path \notin entries /\ key[p] \in prompts
                 /\ entry' = [entry EXCEPT ![p] = path] /\ owners' = Owns(p, path)
                 /\ entries' = entries \cup {path}
              \/ \E check \in {"plugin-entry", "prompt-directory"} :
                    /\ BadEntry(p, check)
                    /\ path = Gone \/ path \in entries \/ key[p] \notin prompts
<1> DEFINE p == Plan[at]  path == target[entry[p]]
<1>1. pc = "walk" /\ at \in 1 .. Len(Plan) /\ p \in Plugins
  BY PlanTyped DEF Walk, Control
<1>2. path # Gone => path \in Files
  BY <1>1, ResolvesOnce DEF Local
<1> QED
  BY <1>1, <1>2 DEF Walk, IsTaken

LEMMA WalkResolves ==
    ASSUME Control, Local, Places, Walk, at' = at + 1
    PROVE  /\ Resolved(at - 1)'
           /\ entries' = {entry'[Plan[j]] : j \in 1 .. at}
           /\ entry'[Plan[at]] = target[entry[Plan[at]]]
           /\ key[Plan[at]] \in prompts
           /\ \A q \in Plugins : q # Plan[at] => entry'[q] = entry[q]
<1> DEFINE p == Plan[at]  path == target[entry[p]]
<1>1. /\ pc = "walk" /\ at \in 1 .. Len(Plan) /\ p \in Plugins
      /\ path \in Files /\ path \notin entries /\ key[p] \in prompts
      /\ entry' = [entry EXCEPT ![p] = path] /\ owners' = Owns(p, path)
      /\ entries' = entries \cup {path}
  <2>1. ~ \E check : BadEntry(p, check)
    <3> SUFFICES ASSUME NEW check, BadEntry(p, check) PROVE FALSE
      OBVIOUS
    <3>1. pc' = IF stage = "preflight" THEN "checked" ELSE "ended"
      BY ThrowsEnds DEF BadEntry
    <3>2. IF target[entry[Plan[at]]] = Gone \/ IsTaken(path) \/ key[p] \notin prompts
          THEN at' = at ELSE pc' = pc
      BY DEF Walk
    <3> QED
      BY <3>1, <3>2 DEF Walk, Control
  <2> QED
    BY <2>1, WalkStep
<1> HIDE DEF path, p
<1>2. /\ at \in Nat /\ \A j \in 1 .. at : Plan[j] \in Plugins
      /\ \A j, k \in 1 .. at : Plan[j] = Plan[k] => j = k
      /\ p = Plan[at]
  BY <1>1, PlanTyped DEF Control, p
<1>3. Resolved(at - 1) /\ entries = {entry[Plan[j]] : j \in 1 .. at - 1}
  BY <1>1 DEF Places
<1>4. p \in Plugins /\ entry \in [Plugins -> Paths] /\ owners \in [Paths -> Plugins \cup {"none"}]
  BY <1>1 DEF Local
<1>5. entry'[p] = path /\ \A q \in Plugins : q # p => entry'[q] = entry[q]
  BY <1>1, <1>4
<1>6. path \in Paths /\ entry[p] \in Paths
  BY <1>1, <1>4, FilesAssumption
<1>7. /\ owners'[path] = p
      /\ \A other \in Paths : other \notin {path, entry[p]} => owners'[other] = owners[other]
  BY <1>1, <1>4, <1>6 DEF Owns
<1>8. ASSUME NEW j \in 1 .. at - 1
      PROVE  /\ entry'[Plan[j]] = entry[Plan[j]] /\ entry[Plan[j]] \in Files
             /\ entry[Plan[j]] # path /\ owners'[entry[Plan[j]]] = Plan[j]
  <2>1. Plan[j] \in Plugins /\ Plan[j] # p
    BY <1>2
  <2>2. entry[Plan[j]] \in entries /\ entry[Plan[j]] \in Files
        /\ owners[entry[Plan[j]]] = Plan[j]
    BY <1>3 DEF Resolved
  <2>3. entry[Plan[j]] # entry[p]
    <3> SUFFICES ASSUME entry[Plan[j]] = entry[p] PROVE FALSE
      OBVIOUS
    <3>1. path \in {entry[p], Gone}
      BY <2>2, FilesStay DEF Local, path
    <3> QED
      BY <1>1, <1>6, <2>2, <3>1, FilesAssumption
  <2> QED
    BY <1>1, <1>5, <1>7, <2>1, <2>2, <2>3, FilesAssumption
<1>9. Plan' = Plan
  <2>1. profile' = profile
    BY DEF Walk
  <2> QED
    BY <2>1 DEF Plan
<1>10. ASSUME NEW j \in 1 .. at, NEW k \in 1 .. at, entry'[Plan[j]] = entry'[Plan[k]]
       PROVE  j = k
  <2>1. CASE j = at \/ k = at
    <3>1. \A m \in 1 .. at - 1 : entry'[Plan[m]] # path
      BY <1>8
    <3>2. entry'[Plan[at]] = path
      BY <1>2, <1>5
    <3>3. j # at => j \in 1 .. at - 1
      BY <1>2
    <3>4. k # at => k \in 1 .. at - 1
      BY <1>2
    <3> QED
      BY <1>10, <2>1, <3>1, <3>2, <3>3, <3>4
  <2>2. CASE j # at /\ k # at
    <3>1. j \in 1 .. at - 1 /\ k \in 1 .. at - 1
      BY <1>2, <2>2
    <3> QED
      BY <1>3, <1>8, <1>10, <3>1 DEF Resolved
  <2> QED
    BY <2>1, <2>2
<1>11. ASSUME NEW j \in 1 .. at
       PROVE  entry'[Plan[j]] \in Files /\ owners'[entry'[Plan[j]]] = Plan[j]
  <2>1. CASE j = at
    BY <1>1, <1>2, <1>5, <1>7, <2>1
  <2>2. CASE j # at
    <3>1. j \in 1 .. at - 1
      BY <1>2, <2>2
    <3> QED
      BY <1>8, <3>1
  <2> QED
    BY <2>1, <2>2
<1>12. \A n \in {at} : \A j \in 1 .. n :
          /\ entry'[Plan[j]] \in Files /\ owners'[entry'[Plan[j]]] = Plan[j]
          /\ \A k \in 1 .. n : entry'[Plan[j]] = entry'[Plan[k]] => j = k
  BY <1>10, <1>11
<1>13. entries' = {entry'[Plan[j]] : j \in 1 .. at}
  <2>1. \A j \in 1 .. at : j = at \/ j \in 1 .. at - 1
    BY <1>2
  <2>2. at \in 1 .. at /\ \A j \in 1 .. at - 1 : j \in 1 .. at
    BY <1>1, <1>2
  <2> QED
    BY <1>1, <1>2, <1>3, <1>5, <1>8, <2>1, <2>2
<1>14. at' - 1 = at
  BY <1>2
<1> QED
  BY <1>1, <1>2, <1>5, <1>9, <1>12, <1>13, <1>14 DEF Resolved, path

LEMMA PlacesInit == Init => Places
BY DEF Init, Places, HandleSteps, OpenSteps, CloseSteps

LEMMA PlacesStep == Typed /\ Places /\ [Next]_vars => Places'
<1> SUFFICES ASSUME Control, Local, Places, [Next]_vars
             PROVE  Places'
  BY DEF Typed
<1> USE DEF EarlySteps, Unopened, OpenSteps, CloseSteps, HandleSteps
<1>1. ASSUME UNCHANGED <<closure, profile, loaded>>, pc' \notin {"walk", "resources"},
             pc' \in HandleSteps \cup {"open"} \/ open' =>
                pc \in HandleSteps \cup {"open"} \/ open,
             pc' = "session" \/ open' => pc = "session" \/ open
      PROVE  Places'
  BY <1>1 DEF Places, Resolved, Plan, Selected, closure
<1>2. ASSUME NEW e, Throws(e), pc \in EarlySteps, open' = open
      PROVE  Places'
  <2>1. pc' \in {"checked", "ended"} /\ open' = FALSE
    BY <1>2, ThrowsEnds DEF Control
  <2> QED
    BY <2>1 DEF Places
<1>3. ASSUME pc' = "walk", entries' = {}, at' = 1, open' = FALSE
      PROVE  Places'
  BY <1>3 DEF Places, Resolved
<1>4. CASE LoadHost
  <2>1. pc' \in {"bindings", "checked", "ended"} /\ open' = FALSE
    BY <1>4 DEF LoadHost, Blocks, Goto, Continues, session, Control
  <2> QED
    BY <2>1 DEF Places
<1>5. CASE Bindings
  <2>1. pc = "bindings" /\ open' = open /\ at' = 1
    BY <1>5 DEF Bindings, session
  <2>2. (\E e : Throws(e)) \/ (pc' = "walk" /\ FreshClosure)
    BY <1>5 DEF Bindings, NotReady, Continues, Goto
  <2> QED
    BY <1>2, <1>3, <2>1, <2>2 DEF FreshClosure, Control
<1>6. CASE Walk
  <2>1. pc = "walk" /\ open' = open /\ open' = FALSE
    BY <1>6 DEF Walk, session, Control
  <2>2. CASE \E e : Throws(e)
    BY <1>2, <2>1, <2>2
  <2>3. CASE at' = at + 1 /\ pc' = "walk"
    <3>1. at' - 1 = at /\ Plan' = Plan
      BY <1>6, <2>3 DEF Control, Walk, Plan
    <3>2. Resolved(at - 1)' /\ entries' = {entry'[Plan[j]] : j \in 1 .. at}
      BY <1>6, <2>3, WalkResolves
    <3> QED
      BY <2>1, <2>3, <3>1, <3>2 DEF Places
  <2> QED
    BY <1>6, <2>2, <2>3, WalkStep DEF BadEntry
<1>7. CASE Walked
  <2>1. /\ at' = 1 /\ entries' = {} /\ pc = "walk" /\ at \notin DOMAIN Plan
        /\ UNCHANGED <<profile, entry, owners, open, loaded>>
    BY <1>7 DEF Walked, session
  <2>2. pc' \in {"resources", "bindings", "configure", "walk", "open"} /\ open' = FALSE
    BY <1>7, <2>1 DEF Walked, Goto, Control
  <2>3. CASE pc' = "open"
    <3>1. at - 1 = Len(Plan)
      BY <2>1, PlanTyped DEF Control
    <3>2. Resolved(Len(Plan))
      BY <2>1, <3>1 DEF Places
    <3> QED
      BY <2>1, <2>2, <2>3, <3>2 DEF Places, Resolved, Plan
  <2>4. CASE pc' # "open"
    BY <2>1, <2>2, <2>4 DEF Places, Resolved
  <2> QED
    BY <2>3, <2>4
<1>8. CASE Resources
  <2>1. pc = "resources" /\ UNCHANGED <<open, at, entries>>
    BY <1>8 DEF Resources, session, closure
  <2>2. entries = {} /\ at = 1 /\ open = FALSE
    BY <2>1 DEF Places, Control
  <2>3. (\E e : Throws(e)) \/ pc' \in {"launcher", "walk"}
    BY <1>8 DEF Resources, NotReady, Continues, Goto
  <2>4. CASE pc' = "launcher"
    BY <2>1, <2>2, <2>4 DEF Places
  <2> QED
    BY <1>2, <1>3, <2>1, <2>2, <2>3, <2>4
<1>9. CASE Launcher
  <2>1. pc' = "checked" /\ open' = FALSE
    BY <1>9 DEF Launcher, Blocks, Goto, session, Control
  <2> QED
    BY <2>1 DEF Places
<1>10. CASE Invoke
  <2>1. pc' = "host" /\ open' = FALSE
    BY <1>10 DEF Invoke, Goto, session, Control
  <2> QED
    BY <2>1 DEF Places
<1>11. CASE Configure \/ Create
  <2>1. pc \in {"configure", "create"} /\ open' = open /\ open' = FALSE
    BY <1>11 DEF Configure, Create, session, Control
  <2>2. (\E e : Throws(e)) \/ pc' = "create"
    BY <1>11 DEF Configure, Create, Continues, Goto
  <2>3. CASE pc' = "create"
    BY <2>1, <2>3 DEF Places
  <2> QED
    BY <1>2, <2>1, <2>2, <2>3
<1>12. CASE Select
  <2>1. pc = "create" /\ open' = open /\ open' = FALSE /\ at' = 1
    BY <1>12 DEF Select, session, Control
  <2>2. (\E e : Throws(e)) \/ (pc' = "walk" /\ FreshClosure)
    BY <1>12 DEF Select, Continues, Goto
  <2> QED
    BY <1>2, <1>3, <2>1, <2>2 DEF FreshClosure
<1>13. CASE Open
  <2>1. pc = "open" /\ UNCHANGED <<closure, profile, loaded, open>> /\ open = FALSE
    BY <1>13 DEF Open, session, control, Control
  <2>2. (\E e : Throws(e)) \/ pc' = "initialize"
    BY <1>13 DEF Open, Continues, Goto
  <2> QED
    BY <1>1, <1>2, <2>1, <2>2
<1>14. CASE Load
  <2>1. /\ pc = "load" /\ UNCHANGED <<closure, profile, open>> /\ open = FALSE
        /\ Resolved(Len(Plan))
    BY <1>14 DEF Load, handleVars, control, Control, Places
  <2>2. \/ pc' = "session" /\ \E x \in Loads({entry[p] : p \in Selected}) : loaded' = x
        \/ pc' = "close"
    BY <1>14 DEF Load, Advances, Raises, Goto
  <2>3. pc' = "session" => loaded' = {entry[p] : p \in Selected}
    BY <2>2 DEF Loads, MatchesEntries
  <2> QED
    BY <2>1, <2>2, <2>3 DEF Places, Resolved, Plan, Selected, closure
<1>15. CASE Initialize \/ CreateSession
  <2>1. /\ UNCHANGED <<closure, profile, loaded>> /\ pc \in {"initialize", "session"}
        /\ \/ open' = open /\ pc' \in {"load", "close"}
           \/ pc = "session" /\ pc' = "bind"
    BY <1>15 DEF Initialize, CreateSession, Advances, Raises, Goto, handleVars, control
  <2>2. open = FALSE
    BY <2>1 DEF Control
  <2> QED
    BY <1>1, <2>1, <2>2
<1>16. CASE Bind \/ Consume \/ Run \/ Close \/ Closing
  <2>1. /\ UNCHANGED <<closure, profile, loaded, open>> /\ pc \in HandleSteps
        /\ pc' \in {"consume", "run", "close", "closing", "ended"}
    BY <1>16 DEF Bind, Consume, Run, Close, Closing, Settles, Advances, Raises, Goto,
       handleVars, control
  <2> QED
    BY <1>1, <2>1 DEF Control
<1>17. CASE WriteFails \/ \E path \in Paths \cup {"none"} : ExtensionReports(path)
  <2>1. UNCHANGED <<closure, profile, loaded, open, pc>> /\ pc \in OpenSteps \cup CloseSteps
    BY <1>17 DEF WriteFails, ExtensionReports, handleVars, control
  <2> QED
    BY <1>1, <2>1
<1>18. CASE \E path \in Paths : Move(path)
  BY <1>18 DEF Move, Places, Resolved, Plan, Selected, control, session, closure
<1>19. CASE UNCHANGED vars
  BY <1>19 DEF vars, Places, Resolved, Plan, Selected, control, session, closure
<1> QED
  BY <1>4, <1>5, <1>6, <1>7, <1>8, <1>9, <1>10, <1>11, <1>12, <1>13, <1>14, <1>15, <1>16,
     <1>17, <1>18, <1>19 DEF Next

LEMMA PlacesAlways == Spec => [](Typed /\ Places)
<1>1. Typed /\ Places /\ [Next]_vars => Places'
  BY PlacesStep
<1> QED
  BY <1>1, TypedAlways, PlacesInit, PTL DEF Spec

-----------------------------------------------------------------------------
LEMMA EntriesSettle ==
    ASSUME Local, NEW p \in Plugins,
           entry[p] \in {RegisteredEntry(p), target[RegisteredEntry(p)]},
           target[entry[p]] # Gone \/ target[RegisteredEntry(p)] # Gone
    PROVE  /\ target[entry[p]] = target[RegisteredEntry(p)]
           /\ target[entry[p]] \in Files
<1>1. RegisteredEntry(p) \in Paths /\ entry[p] \in Paths
  BY DEF Local, RegisteredEntry
<1>2. CASE entry[p] = RegisteredEntry(p)
  BY <1>1, <1>2, ResolvesOnce DEF Local
<1>3. CASE entry[p] = target[RegisteredEntry(p)]
  <2>1. target[RegisteredEntry(p)] # Gone
    BY <1>1, <1>3, FilesAssumption
  <2> QED
    BY <1>1, <1>3, <2>1, ResolvesOnce DEF Local
<1> QED
  BY <1>2, <1>3

(* A plan that was walked while no entry moved has keys of its own.          *)
LEMMA WalkedKeysApart ==
    ASSUME Control, Local, Places, Steady, moves = 0, pc = "walk", at \notin DOMAIN Plan
    PROVE  KeysApart
<1>1. at - 1 = Len(Plan) /\ DOMAIN Plan = 1 .. Len(Plan)
  BY PlanTyped DEF Control
<1>2. Resolved(Len(Plan))
  BY <1>1 DEF Places
<1>3. \A j \in 1 .. Len(Plan) : entry[Plan[j]] = target[RegisteredEntry(Plan[j])]
  BY <1>1 DEF Steady
<1>4. ASSUME NEW j \in DOMAIN Plan, NEW k \in DOMAIN Plan, key[Plan[j]] = key[Plan[k]]
      PROVE  j = k
  <2>1. RegisteredEntry(Plan[j]) = RegisteredEntry(Plan[k])
    BY <1>4 DEF RegisteredEntry
  <2> QED
    BY <1>1, <1>2, <1>3, <2>1 DEF Resolved
<1> QED
  BY <1>4 DEF KeysApart

LEMMA SteadyInit == Init => Steady
BY DEF Init, Steady

LEMMA SteadyStep == Typed /\ Places /\ Steady /\ [Next]_vars => Steady'
<1> SUFFICES ASSUME Control, Local, Places, Steady, [Next]_vars, moves' = 0
             PROVE  Steady'
  BY DEF Typed, Steady
<1> USE DEF EarlySteps, Unopened, OpenSteps, CloseSteps, HandleSteps
<1>1. ASSUME UNCHANGED <<config, files>>
      PROVE  /\ moves = 0
             /\ key' = key /\ prompts' = prompts /\ target' = target
             /\ \A p : RegisteredEntry(p)' = RegisteredEntry(p)
             /\ profile' = profile => Plan' = Plan /\ KeysApart' = KeysApart
  BY <1>1 DEF config, files, RegisteredEntry, Plan, KeysApart
<1>2. ASSUME UNCHANGED <<config, files, entry, profile, stage, adapter>>,
             pc' \notin {"walk", "configure"},
             pc' = "create" => pc = "create" /\ at' = at
      PROVE  Steady'
  BY <1>1, <1>2 DEF Steady, HaveAdapters
<1>3. ASSUME NEW e, Throws(e), UNCHANGED <<config, files, profile, stage, adapter>>,
             \A p \in Plugins : entry'[p] \in {RegisteredEntry(p), target[RegisteredEntry(p)]}
      PROVE  Steady'
  <2>1. pc' \in {"checked", "ended"}
    BY <1>3, ThrowsEnds
  <2> QED
    BY <1>1, <1>3, <2>1 DEF Steady, HaveAdapters
<1>4. FreshClosure => \A p \in Plugins :
         entry'[p] \in {RegisteredEntry(p), target[RegisteredEntry(p)]}
  BY DEF FreshClosure
<1>5. UNCHANGED <<config, files, entry>> =>
         \A p \in Plugins : entry'[p] \in {RegisteredEntry(p), target[RegisteredEntry(p)]}
  BY <1>1 DEF Steady
<1>6. CASE LoadHost
  <2>1. /\ UNCHANGED <<config, files, entry, profile, stage, adapter>>
        /\ pc' \in {"bindings", "checked", "ended"}
    BY <1>6 DEF LoadHost, Blocks, Goto, Continues, control, closure
  <2> QED
    BY <1>2, <2>1
<1>7. CASE Bindings
  <2>1. UNCHANGED <<config, files, profile, stage, adapter>> /\ at' = 1 /\ pc = "bindings"
    BY <1>7 DEF Bindings
  <2>2. \/ entry' = entry /\ \E e : Throws(e)
        \/ pc' = "walk" /\ FreshClosure
    BY <1>7 DEF Bindings, NotReady, Continues, Goto, closure
  <2>3. CASE pc' = "walk" /\ FreshClosure
    BY <1>1, <1>4, <2>1, <2>3 DEF Steady, HaveAdapters, Control
  <2> QED
    BY <1>3, <1>5, <2>1, <2>2, <2>3
<1>8. CASE Walk
  <2> DEFINE p == Plan[at]
  <2>1. UNCHANGED <<config, files, profile, stage, adapter>> /\ pc = "walk" /\ p \in Plugins
    BY <1>8, WalkStep DEF Walk
  <2>2. \/ entry'[p] = entry[p]
        \/ entry'[p] = target[entry[p]] /\ target[entry[p]] # Gone
    BY <1>8, <2>1 DEF Walk, closure, Local
  <2>3. \A q \in Plugins : q # p => entry'[q] = entry[q]
    BY <1>8, <2>1 DEF Walk, closure, Local
  <2>4. \A q \in Plugins : entry[q] \in {RegisteredEntry(q), target[RegisteredEntry(q)]}
    BY <1>1, <2>1 DEF Steady
  <2>5. \A q \in Plugins : entry'[q] \in {RegisteredEntry(q), target[RegisteredEntry(q)]}
    BY <2>1, <2>2, <2>3, <2>4, EntriesSettle
  <2>6. CASE \E e : Throws(e)
    BY <1>3, <2>1, <2>5, <2>6
  <2>7. CASE at' = at + 1 /\ pc' = "walk"
    <3>1. /\ entry'[p] = target[entry[p]] /\ key[p] \in prompts /\ target[entry[p]] # Gone
      BY <1>8, <2>7, WalkResolves, WalkStep, FilesAssumption, ThrowsEnds DEF BadEntry, Control
    <3>2. entry'[p] = target[RegisteredEntry(p)]
      BY <2>1, <2>4, <3>1, EntriesSettle
    <3>3. ASSUME NEW j \in 1 .. at' - 1
          PROVE  entry'[Plan[j]] = target[RegisteredEntry(Plan[j])] /\ key[Plan[j]] \in prompts
      <4>1. at \in 1 .. Len(Plan)
        BY <1>8, WalkStep
      <4>2. CASE j = at
        BY <3>1, <3>2, <4>2
      <4>3. CASE j # at
        <5>1. j \in 1 .. at - 1 /\ j \in 1 .. Len(Plan)
          BY <2>7, <4>1, <4>3, PlanTyped DEF Control
        <5>2. Plan[j] \in Plugins /\ Plan[j] # p
          BY <4>1, <4>3, <5>1, PlanTyped DEF Control
        <5> QED
          BY <1>1, <2>1, <2>3, <5>1, <5>2 DEF Steady
      <4> QED
        BY <4>2, <4>3
    <3> HIDE DEF p
    <3> QED
      BY <1>1, <2>1, <2>5, <2>7, <3>3 DEF Steady, HaveAdapters
  <2> QED
    BY <1>8, <2>6, <2>7, WalkStep DEF BadEntry
<1>9. CASE Walked
  <2>1. /\ UNCHANGED <<config, files, profile, entry, adapter>> /\ at' = 1
        /\ pc = "walk" /\ at \notin DOMAIN Plan
    BY <1>9 DEF Walked
  <2>2. KeysApart
    BY <1>1, <2>1, WalkedKeysApart
  <2>3. \/ pc' \in {"resources", "bindings"} /\ stage' \notin {"select", "reopen"}
        \/ pc' = "configure" /\ stage' = stage
        \/ pc' \in {"walk", "open"} /\ stage' = "reopen" /\ stage \in {"select", "reopen"}
    BY <1>9 DEF Walked, Goto
  <2> QED
    BY <1>1, <2>1, <2>2, <2>3 DEF Steady, HaveAdapters
<1>10. CASE Resources
  <2>1. /\ UNCHANGED <<config, files, stage, entry, adapter, at>> /\ pc = "resources"
        /\ at = 1 /\ stage = "preflight"
    BY <1>10 DEF Resources, closure, Control
  <2>2. \/ profile' = profile /\ \E e : Throws(e)
        \/ pc' \in {"launcher", "walk"}
    BY <1>10 DEF Resources, NotReady, Continues, Goto
  <2>3. CASE pc' \in {"launcher", "walk"}
    BY <1>1, <2>1, <2>3 DEF Steady
  <2> QED
    BY <1>3, <1>5, <2>1, <2>2, <2>3
<1>11. CASE Launcher
  <2>1. UNCHANGED <<config, files, entry, profile, stage, adapter>> /\ pc' = "checked"
    BY <1>11 DEF Launcher, Blocks, Goto, control, closure
  <2> QED
    BY <1>2, <2>1
<1>12. CASE Invoke
  <2>1. UNCHANGED <<config, files, entry, adapter>> /\ pc' = "host" /\ stage' = "validate"
    BY <1>12 DEF Invoke, Goto, closure
  <2> QED
    BY <1>1, <2>1 DEF Steady
<1>13. CASE Configure
  <2>1. /\ UNCHANGED <<config, files, stage, profile, at, entry, adapter>>
        /\ pc = "configure" /\ at = 1 /\ stage = "launch"
    BY <1>13 DEF Configure, control, closure, Control
  <2>2. (\E e : Throws(e)) \/ pc' = "create"
    BY <1>13 DEF Configure, Continues, Goto
  <2>3. CASE pc' = "create"
    BY <1>1, <2>1, <2>3 DEF Steady, HaveAdapters
  <2> QED
    BY <1>3, <1>5, <2>1, <2>2, <2>3
<1>14. CASE Create
  <2> DEFINE p == Plan[at]
  <2>1. /\ UNCHANGED <<config, files, stage, profile, entry>> /\ pc = "create" /\ stage = "launch"
        /\ at \in DOMAIN Plan /\ KeysApart
    BY <1>1, <1>14 DEF Create, closure, Control, Steady
  <2>2. \/ at' = at + 1 /\ pc' = pc /\ adapter' = [adapter EXCEPT ![key[p]] = p]
        \/ adapter' = adapter /\ \E e : Throws(e)
    BY <1>14 DEF Create
  <2>3. CASE at' = at + 1 /\ pc' = pc /\ adapter' = [adapter EXCEPT ![key[p]] = p]
    <3>1. HaveAdapters(at - 1) /\ at \in 1 .. Len(Plan) /\ at' - 1 = at
      BY <1>1, <2>1, <2>3, PlanTyped DEF Steady, Control
    <3>2. key[p] \in Keys /\ adapter \in [Keys -> Plugins \cup {"none"}]
      BY <3>1, PlanTyped DEF Local, Control
    <3>3. ASSUME NEW j \in 1 .. at
          PROVE  adapter'[key[Plan[j]]] = Plan[j]
      <4>1. CASE j = at
        BY <2>3, <3>2, <4>1
      <4>2. CASE j # at
        <5>1. j \in 1 .. at - 1 /\ j \in DOMAIN Plan
          BY <3>1, <4>2, PlanTyped DEF Control
        <5>2. key[Plan[j]] # key[p] /\ key[Plan[j]] \in Keys
          BY <2>1, <3>1, <4>2, <5>1, PlanTyped DEF KeysApart, Local, Control
        <5> QED
          BY <2>3, <3>1, <3>2, <5>1, <5>2 DEF HaveAdapters
      <4> QED
        BY <4>1, <4>2
    <3> HIDE DEF p
    <3> QED
      BY <1>1, <2>1, <2>3, <3>1, <3>3 DEF Steady, HaveAdapters
  <2> QED
    BY <1>3, <1>5, <2>1, <2>2, <2>3
<1>15. CASE Select
  <2>1. UNCHANGED <<config, files, profile, adapter>> /\ pc = "create" /\ at' = 1
        /\ at \notin DOMAIN Plan /\ KeysApart
    BY <1>1, <1>15 DEF Select, Steady
  <2>2. \/ entry' = entry /\ stage' = stage /\ \E e : Throws(e)
        \/ pc' = "walk" /\ stage' = "select" /\ FreshClosure
    BY <1>15 DEF Select, Continues, Goto, closure
  <2>3. at - 1 = Len(Plan) /\ HaveAdapters(Len(Plan))
    BY <1>1, <2>1, PlanTyped DEF Control, Steady
  <2>4. CASE pc' = "walk" /\ stage' = "select" /\ FreshClosure
    BY <1>1, <1>4, <2>1, <2>3, <2>4 DEF Steady, HaveAdapters
  <2> QED
    BY <1>3, <1>5, <2>1, <2>2, <2>4
<1>16. CASE Open
  <2>1. UNCHANGED <<config, files, entry, profile, stage, adapter>>
    BY <1>16 DEF Open, control, closure
  <2>2. (\E e : Throws(e)) \/ pc' = "initialize"
    BY <1>16 DEF Open, Continues, Goto
  <2> QED
    BY <1>2, <1>3, <1>5, <2>1, <2>2
<1>17. CASE \/ Initialize \/ Load \/ CreateSession \/ Bind \/ Consume \/ Run \/ Close \/ Closing
            \/ WriteFails \/ \E path \in Paths \cup {"none"} : ExtensionReports(path)
  <2>1. UNCHANGED <<config, files, entry, profile, stage, adapter>>
    BY <1>17 DEF Initialize, Load, CreateSession, Bind, Consume, Run, Close, Closing, WriteFails,
       ExtensionReports, handleVars, control, closure
  <2>2. pc' \in HandleSteps \cup {"ended"}
    BY <1>17 DEF Initialize, Load, CreateSession, Bind, Consume, Run, Close, Closing, WriteFails,
       ExtensionReports, Settles, Advances, Raises, Goto
  <2> QED
    BY <1>2, <2>1, <2>2
<1>18. CASE \E path \in Paths : Move(path)
  BY <1>18 DEF Move, Local
<1>19. CASE UNCHANGED vars
  BY <1>19 DEF vars, config, files, control, closure, Steady, HaveAdapters, KeysApart, Plan,
     RegisteredEntry
<1> QED
  BY <1>6, <1>7, <1>8, <1>9, <1>10, <1>11, <1>12, <1>13, <1>14, <1>15, <1>16, <1>17, <1>18,
     <1>19 DEF Next

LEMMA SteadyAlways == Spec => [](Typed /\ Places /\ Steady)
<1>1. Typed /\ Places /\ Steady /\ [Next]_vars => Steady'
  BY SteadyStep
<1> QED
  BY <1>1, PlacesAlways, SteadyInit, PTL DEF Spec

LEMMA InvImpliesKeptApart == Control /\ Places /\ Steady => KeptApart
<1> SUFFICES ASSUME Control, Places, Steady, open
             PROVE  KeptApart
  BY DEF KeptApart
<1>1. /\ Resolved(Len(Plan)) /\ loaded = {entry[p] : p \in Selected}
      /\ stage = "reopen"
  BY DEF Places, Control
<1>2. /\ Len(Plan) \in Nat
      /\ \A j \in 1 .. Len(Plan) : Plan[j] \in Selected
      /\ \A p \in Selected : \E j \in 1 .. Len(Plan) : p = Plan[j]
  BY PlanTyped DEF Control
<1>3. Cardinality(loaded) = Len(Plan)
  <2> DEFINE number == 1 .. Len(Plan)
             f == [j \in number |-> entry[Plan[j]]]
  <2>1. f \in [number -> loaded]
    BY <1>1, <1>2
  <2>2. \A j, k \in number : f[j] = f[k] => j = k
    BY <1>1 DEF Resolved
  <2>3. \A file \in loaded : \E j \in number : f[j] = file
    BY <1>1, <1>2
  <2> HIDE DEF f
  <2>4. f \in Bijection(number, loaded)
    BY <2>1, <2>2, <2>3, Fun_IsBij
  <2>5. IsFiniteSet(number) /\ Cardinality(number) = Len(Plan)
    BY <1>2, FS_Interval
  <2>6. Cardinality(number) = Cardinality(loaded)
    BY <2>4, <2>5, FS_Bijection DEF ExistsBijection
  <2> QED
    BY <2>5, <2>6
<1>4. \A p \in Selected : owners[entry[p]] = p
  BY <1>1, <1>2 DEF Resolved
<1>5. moves = 0 => \A p \in Selected : adapter[key[p]] = p
  BY <1>1, <1>2 DEF Steady, HaveAdapters
<1> QED
  BY <1>1, <1>3, <1>4, <1>5 DEF KeptApart

(* Whatever Plugins an Application has and under whatever keys and paths     *)
(* they are registered: an open native session has one extension per         *)
(* selected Plugin, charged to it, however entries moved, and while none     *)
(* moved each Plugin has its own adapter.                                    *)
THEOREM KeptApartAlways == Spec => []KeptApart
<1>1. Typed /\ Places /\ Steady => KeptApart
  BY InvImpliesKeptApart DEF Typed
<1> QED
  BY <1>1, SteadyAlways, PTL

-----------------------------------------------------------------------------
(* What an error from outside says: its reason, and nothing of where it came *)
(* from.  What one that was annotated says: everything.                      *)
Says(e, reason) ==
    /\ IsError(e)
    /\ e.brand.phase = "none" /\ e.brand.plugin = "none" /\ e.brand.check = "none"
    /\ reason = IF e.brand = NoDiagnostic THEN Unmarked(e.code) ELSE e.brand.reason

Tagged(e, where, who, check, reason) ==
    /\ IsError(e)
    /\ e.brand.phase = where /\ e.brand.plugin = who
    /\ e.brand.check = check /\ e.brand.reason = reason

LEMMA PlainSays == Says(Plain, "NATIVE_EXECUTION_FAILED") /\ Plain.code = "foreign"
<1>1. IsError(Plain) /\ Plain.code = "foreign" /\ Plain.brand = NoDiagnostic
  BY ErrorShape, NoDiagnosticShape DEF Plain
<1> QED
  BY <1>1, NoDiagnosticShape DEF Says, Unmarked

LEMMA FailuresSay ==
    /\ Says(Unavailable, "HOST_UNAVAILABLE")
    /\ Says(StorageFailure, "GOVERNANCE_STORAGE_FAILED") /\ StorageFailure.code = "StorageFailure"
    /\ Says(NativeFailure, "NATIVE_EXECUTION_FAILED")
<1>1. ASSUME NEW code
      PROVE  LET e == ContainerFailure(code) IN
             IsError(e) /\ e.code = code /\ e.brand = NoDiagnostic
  BY ErrorShape, NoDiagnosticShape DEF ContainerFailure
<1> QED
  BY <1>1, NoDiagnosticShape DEF Says, Unmarked, Unavailable, StorageFailure, NativeFailure

LEMMA RegisteredSays ==
    ASSUME NEW boundary, boundary # "artifact-input", NEW reason, reason # "none"
    PROVE  /\ Says(Registered(boundary, reason), reason)
           /\ Registered(boundary, reason).code = "NativeExecutionFailed"
<1>1. Registered(boundary, reason) = Error("NativeExecutionFailed", Diagnostic(boundary, reason))
  BY DEF Registered
<1>2. Diagnostic(boundary, reason) # NoDiagnostic
  BY DiagnosticShape, NoDiagnosticShape
<1> QED
  BY <1>1, <1>2, DiagnosticShape, ErrorShape DEF Says

LEMMA ForgedSays ==
    ASSUME NEW plugin
    PROVE  Says(Forged(plugin), "NATIVE_EXECUTION_FAILED")
<1> DEFINE claims == [Diagnostic("domain", "FORGED") EXCEPT
                         !.plugin = plugin, !.phase = "publication"]
<1>1. Forged(plugin) = [Plain EXCEPT !.claims = claims]
  BY DEF Forged
<1> HIDE DEF claims
<1>2. Plain = [code |-> Plain.code, brand |-> Plain.brand, claims |-> Plain.claims]
      /\ Plain.code = "foreign" /\ Plain.brand = NoDiagnostic
  BY ErrorShape, NoDiagnosticShape DEF Plain, IsError
<1>3. Forged(plugin) = [code |-> Plain.code, brand |-> NoDiagnostic, claims |-> claims]
  BY <1>1, <1>2
<1> QED
  BY <1>2, <1>3, NoDiagnosticShape DEF Says, Unmarked, IsError

LEMMA ThrownSays ==
    ASSUME NEW thrown \in Thrown
    PROVE  Says(thrown.error, thrown.reason)
<1>1. Says(Registered("domain", "REJECTED"), "REJECTED")
  BY RegisteredSays
<1> QED
  BY <1>1, PlainSays, ForgedSays, FailuresSay DEF Thrown

(* An annotation is where the error was first wrapped, and stays.            *)
LEMMA SaysWrapped ==
    ASSUME NEW e, NEW reason, Says(e, reason), NEW where, NEW who
    PROVE  /\ Tagged(SafeNativeFailure(e, where, who), where, who, "none", reason)
           /\ SafeNativeFailure(e, where, who).code = Wrapped(e.code)
BY WrapAnnotates DEF Says, Tagged, Or

LEMMA TaggedStays ==
    ASSUME NEW e, NEW where, where # "none", NEW who, NEW check, NEW reason,
           Tagged(e, where, who, check, reason), NEW outer, NEW other
    PROVE  /\ Tagged(SafeNativeFailure(e, outer, other), where, who, check, reason)
           /\ SafeNativeFailure(e, outer, other).code = Wrapped(e.code)
BY WrapKeeps DEF Tagged

LEMMA ReadinessWrapped ==
    ASSUME NEW check, NEW who, NEW where
    PROVE  Tagged(SafeNativeFailure(HostReadinessFailure(check, who), where, "none"),
                  where, who, check, "HOST_UNAVAILABLE")
<1> DEFINE e == HostReadinessFailure(check, who)
<1>1. /\ IsError(e) /\ e.brand.check = check /\ e.brand.plugin = who
      /\ e.brand.phase = "none" /\ e.brand.reason = "HOST_UNAVAILABLE"
  BY ReadinessShape
<1>2. e.brand # NoDiagnostic
  BY <1>1, NoDiagnosticShape
<1> HIDE DEF e
<1>3. Tagged(SafeNativeFailure(e, where, "none"), where, who, check, "HOST_UNAVAILABLE")
  BY <1>1, <1>2, WrapAnnotates DEF Tagged, Or
<1> QED
  BY <1>3 DEF e

LEMMA TaggedReported ==
    ASSUME NEW e, NEW boundary, e.brand.phase # "none"
    PROVE  DiagnosticFor(e, boundary) = e.brand /\ e.brand # NoDiagnostic /\ e # NoError
<1>1. e.brand # NoDiagnostic
  BY NoDiagnosticShape
<1>2. NoError.brand = NoDiagnostic
  BY ErrorShape, NoDiagnosticShape DEF NoError
<1> QED
  BY <1>1, <1>2 DEF DiagnosticFor, Trusted

(* The inner check of a readiness failure survives as well.                  *)
LEMMA BadEntryIsNotReady ==
    ASSUME NEW p, NEW check, check # "none", BadEntry(p, check)
    PROVE  NotReady(check, p)
<1> DEFINE inner == HostReadinessFailure(check, "none")
           middle == SafeHostReadinessFailure(inner, "plugin-entry", p)
           outer == SafeHostReadinessFailure(middle, "plugin-entry", "none")
<1>1. middle = HostReadinessFailure(check, p)
  BY ReadinessShape DEF SafeHostReadinessFailure, Trusted, Or
<1>2. outer = HostReadinessFailure(check, p)
  <2> HIDE DEF middle
  <2> QED
    BY <1>1, ReadinessShape DEF SafeHostReadinessFailure, Trusted, Or
<1> QED
  BY <1>2 DEF BadEntry, NotReady

-----------------------------------------------------------------------------
Met(where, who, check, reason) ==
    [phase |-> where, plugin |-> who, check |-> check, reason |-> reason,
     cleanup |-> pc \in CloseSteps]

LEMMA FailureRecorded ==
    ASSUME failures \in Seq(Failures),
           NEW where, NEW who, NEW check, NEW reason, Failed(where, who, check, reason)
    PROVE  LET f == Met(where, who, check, reason) IN
           /\ failures' \in Seq(Failures') /\ failures' # <<>>
           /\ Failures' = Failures \cup {f}
           /\ f.phase = where /\ f.plugin = who /\ f.check = check /\ f.reason = reason
           /\ f.cleanup <=> pc \in CloseSteps
<1> DEFINE f == Met(where, who, check, reason)
<1>1. failures' = Append(failures, f)
  BY DEF Failed, Met, CloseSteps
<1>2. f.phase = where /\ f.plugin = who /\ f.check = check /\ f.reason = reason
      /\ (f.cleanup <=> pc \in CloseSteps)
  BY DEF Met
<1> HIDE DEF f
<1>3. /\ DOMAIN failures = 1 .. Len(failures) /\ Len(failures) \in Nat
      /\ DOMAIN failures' = 1 .. Len(failures) + 1
      /\ \A i \in 1 .. Len(failures) : failures'[i] = failures[i]
      /\ failures'[Len(failures) + 1] = f
      /\ Len(failures') = Len(failures) + 1
  BY <1>1
<1>4. Failures' = Failures \cup {f}
  <2>1. \A i \in DOMAIN failures' : i \in DOMAIN failures \/ i = Len(failures) + 1
    BY <1>3
  <2>2. DOMAIN failures \subseteq DOMAIN failures' /\ Len(failures) + 1 \in DOMAIN failures'
    BY <1>3
  <2> QED
    BY <1>3, <2>1, <2>2 DEF Failures
<1>5. failures' \in Seq(Failures')
  <2>1. failures \in Seq(Failures \cup {f})
    BY <1>3
  <2> QED
    BY <1>1, <1>4, <2>1
<1> QED
  BY <1>2, <1>3, <1>4, <1>5 DEF f

(* The steps before the handle stop at the first failure, and the caller     *)
(* gets a diagnostic of it.                                                  *)
Reported == ReportIsAFailure /\ NothingHidden

Stops(where, who, check, reason) ==
    /\ pc \in EarlySteps /\ Failed(where, who, check, reason)
    /\ UNCHANGED <<stage, session>>
    /\ \/ /\ stage # "preflight" /\ pc' = "ended" /\ blocker' = blocker
          /\ Tells(reported', Met(where, who, check, reason)) /\ reported' # NoDiagnostic
       \/ /\ stage = "preflight" /\ pc' = "checked" /\ reported' = reported
          /\ Tells(blocker', Met(where, who, check, reason))

LEMMA StopIsReported ==
    ASSUME Control, Told, NEW where, NEW who, NEW check, NEW reason,
           Stops(where, who, check, reason)
    PROVE  (Told /\ Reported)'
<1> DEFINE f == Met(where, who, check, reason)
<1>1. failures = <<>> /\ failures \in Seq(Failures) /\ Failures = {}
  BY DEF Told, Stops, Failures
<1>2. /\ failures' \in Seq(Failures') /\ failures' # <<>> /\ Failures' = {f} /\ ~f.cleanup
  BY <1>1, FailureRecorded DEF Stops, EarlySteps, CloseSteps
<1>3. ~open' /\ UNCHANGED <<phase, extensionError, error, rejected>> /\ error = NoError
      /\ extensionError = NoError /\ phase = "initialization"
  BY DEF Stops, session, Control, Told, Unopened, EarlySteps
<1> HIDE DEF f
<1>4. CASE stage # "preflight" /\ pc' = "ended"
  <2>1. Tells(reported', f) /\ reported' # NoDiagnostic /\ stage' = stage
    BY <1>4 DEF Stops, f
  <2>2. Told'
    BY <1>2, <1>3, <1>4, <2>1 DEF Told, EarlySteps, Unopened, OpenSteps, CloseSteps, HandleSteps
  <2>3. ReportIsAFailure'
    BY <1>2, <1>4, <2>1 DEF ReportIsAFailure, Tells
  <2>4. NothingHidden'
    BY <1>2, <1>3, <1>4, <2>1 DEF NothingHidden, Tells
  <2> QED
    BY <2>2, <2>3, <2>4 DEF Reported
<1>5. CASE stage = "preflight" /\ pc' = "checked"
  <2>1. Tells(blocker', f) /\ stage' = stage /\ reported' = reported
    BY <1>5 DEF Stops, f
  <2>2. reported = NoDiagnostic
    BY DEF Told, Stops, EarlySteps
  <2>3. Told'
    BY <1>2, <1>3, <1>5, <2>1, <2>2
    DEF Told, EarlySteps, Unopened, OpenSteps, CloseSteps, HandleSteps
  <2>4. ReportIsAFailure'
    BY <1>2, <1>5, <2>1 DEF ReportIsAFailure, Tells
  <2>5. NothingHidden'
    BY <1>5 DEF NothingHidden
  <2> QED
    BY <2>3, <2>4, <2>5 DEF Reported
<1> QED
  BY <1>4, <1>5 DEF Stops

LEMMA BoundaryIsAPhase == Control => (Boundary = "none" <=> stage = "preflight")
BY DEF Control, Boundary

LEMMA RefusalTells ==
    ASSUME NEW e, stage # "preflight", Throws(e),
           NEW where, where # "none", NEW who, NEW check, NEW reason,
           Tagged(SafeNativeFailure(e, Boundary, "none"), where, who, check, reason)
    PROVE  /\ pc' = "ended" /\ blocker' = blocker /\ reported' # NoDiagnostic
           /\ Tells(reported', Met(where, who, check, reason))
<1> DEFINE r == SafeNativeFailure(e, Boundary, "none")
<1>1. reported' = DiagnosticFor(r, "native") /\ pc' = "ended" /\ blocker' = blocker
  BY DEF Throws, Refuses, Goto
<1>2. Tagged(r, where, who, check, reason)
  OBVIOUS
<1> HIDE DEF r
<1>3. reported' = r.brand /\ r.brand # NoDiagnostic
  BY <1>1, <1>2, TaggedReported DEF Tagged
<1> QED
  BY <1>1, <1>2, <1>3 DEF Tells, Met, Tagged

LEMMA BlockTells ==
    ASSUME NEW e, stage = "preflight", Throws(e)
    PROVE  /\ pc' = "checked" /\ reported' = reported
           /\ blocker'.phase = "none" /\ blocker'.reason = "HOST_UNAVAILABLE"
           /\ blocker'.check = Or(e.brand.check, "host-contract")
           /\ blocker'.plugin = e.brand.plugin
<1> DEFINE r == HostReadinessFailure(Or(e.brand.check, "host-contract"), Or(e.brand.plugin, "none"))
<1>1. blocker' = DiagnosticFor(r, "host") /\ pc' = "checked" /\ reported' = reported
  BY DEF Throws, Blocks, Goto, SafeHostReadinessFailure, Trusted
<1>2. /\ r.brand.check = Or(e.brand.check, "host-contract") /\ r.brand.plugin = e.brand.plugin
      /\ r.brand.phase = "none" /\ r.brand.reason = "HOST_UNAVAILABLE"
  BY ReadinessShape DEF Or
<1> HIDE DEF r
<1>3. blocker' = r.brand
  BY <1>1, <1>2, NoDiagnosticShape DEF DiagnosticFor, Trusted
<1> QED
  BY <1>1, <1>2, <1>3

LEMMA NotReadyStops ==
    ASSUME Control, Told, pc \in EarlySteps, UNCHANGED <<stage, session>>,
           NEW check, check # "none", NEW who, NotReady(check, who)
    PROVE  Stops(Boundary, who, check, "HOST_UNAVAILABLE")
<1> DEFINE e == HostReadinessFailure(check, who)
<1>1. Throws(e) /\ Failed(Boundary, who, check, "HOST_UNAVAILABLE")
  BY DEF NotReady
<1>2. Tagged(SafeNativeFailure(e, Boundary, "none"), Boundary, who, check, "HOST_UNAVAILABLE")
  BY ReadinessWrapped
<1>3. e.brand.check = check /\ e.brand.plugin = who
  BY ReadinessShape
<1> HIDE DEF e
<1>4. CASE stage # "preflight"
  BY <1>1, <1>2, <1>4, RefusalTells, BoundaryIsAPhase DEF Stops
<1>5. CASE stage = "preflight"
  BY <1>1, <1>3, <1>5, BlockTells, BoundaryIsAPhase DEF Stops, Tells, Met, Or
<1> QED
  BY <1>4, <1>5

LEMMA AnnotatedStops ==
    ASSUME Control, Told, pc \in EarlySteps, UNCHANGED <<stage, session>>, stage # "preflight",
           NEW e, NEW reason, Says(e, reason), NEW where, where # "none", NEW who,
           Throws(SafeNativeFailure(e, where, who)), Failed(where, who, "none", reason)
    PROVE  Stops(where, who, "none", reason)
<1> DEFINE r == SafeNativeFailure(e, where, who)
<1>1. Tagged(r, where, who, "none", reason) /\ Throws(r)
  BY SaysWrapped
<1> HIDE DEF r
<1>2. Tagged(SafeNativeFailure(r, Boundary, "none"), where, who, "none", reason)
  BY <1>1, TaggedStays
<1> QED
  BY <1>1, <1>2, RefusalTells DEF Stops

LEMMA UnannotatedStops ==
    ASSUME Control, Told, pc \in EarlySteps, UNCHANGED <<stage, session>>, stage # "preflight",
           NEW e, NEW reason, Says(e, reason), Throws(e), Failed(Boundary, "none", "none", reason)
    PROVE  Stops(Boundary, "none", "none", reason)
BY SaysWrapped, RefusalTells, BoundaryIsAPhase DEF Stops

LEMMA ContinuesTold ==
    ASSUME Told, pc \in EarlySteps, pc' \in EarlySteps \cup {"initialize"}, failures' = failures,
           UNCHANGED <<session, reported, blocker>>, stage' = "preflight" => stage = "preflight",
           Control
    PROVE  (Told /\ Reported)'
<1> USE DEF EarlySteps, Unopened, OpenSteps, CloseSteps, HandleSteps
<1>1. /\ failures = <<>> /\ error = NoError /\ extensionError = NoError
      /\ phase = "initialization" /\ reported = NoDiagnostic
      /\ stage = "preflight" => blocker = NoDiagnostic
  BY DEF Told
<1>2. Failures' = {} /\ failures' \in Seq(Failures')
  BY <1>1 DEF Failures
<1>3. Told'
  BY <1>1, <1>2 DEF Told, Phases, ErrorTold, ExtensionTold, session
<1>4. Reported'
  BY DEF Reported, ReportIsAFailure, NothingHidden
<1> QED
  BY <1>3, <1>4

EarlyStep ==
    \/ LoadHost \/ Bindings \/ Walk \/ Walked \/ Resources \/ Launcher \/ Invoke
    \/ Configure \/ Create \/ Select \/ Open

LEMMA EarlyTold == Control /\ Local /\ Told /\ Reported /\ EarlyStep => (Told /\ Reported)'
<1> SUFFICES ASSUME Control, Local, Told, Reported, EarlyStep
             PROVE  (Told /\ Reported)'
  OBVIOUS
<1>1. CASE LoadHost
  <2>1. pc = "host" /\ UNCHANGED <<stage, session>> /\ pc \in EarlySteps
    BY <1>1 DEF LoadHost, control, EarlySteps
  <2>2. CASE condition \in {"host-import", "host-contract"}
    <3> DEFINE e == HostReadinessFailure(condition, "none")
    <3>1. /\ Failed("none", "none", condition, "HOST_UNAVAILABLE")
          /\ IF stage = "preflight" THEN Blocks(e)
             ELSE reported' = DiagnosticFor(e, "native") /\ pc' = "ended" /\ blocker' = blocker
      BY <1>1, <2>2 DEF LoadHost, Goto
    <3>2. /\ e.brand.check = condition /\ e.brand.plugin = "none"
          /\ e.brand.phase = "none" /\ e.brand.reason = "HOST_UNAVAILABLE"
      BY ReadinessShape
    <3>3. condition # "none"
      BY <2>2
    <3> HIDE DEF e
    <3>4. CASE stage = "preflight"
      <4>1. Throws(e)
        BY <3>1, <3>4 DEF Throws
      <4> QED
        BY <2>1, <3>1, <3>2, <3>3, <3>4, <4>1, BlockTells, StopIsReported
        DEF Stops, Tells, Met, Or
    <3>5. CASE stage # "preflight"
      <4>1. reported' = e.brand /\ reported' # NoDiagnostic
        BY <3>1, <3>2, <3>5, NoDiagnosticShape DEF DiagnosticFor, Trusted
      <4> QED
        BY <2>1, <3>1, <3>2, <3>5, <4>1, StopIsReported DEF Stops, Tells, Met
    <3> QED
      BY <3>4, <3>5
  <2>3. CASE condition \notin {"host-import", "host-contract"}
    <3>1. pc' = "bindings" /\ UNCHANGED <<results, failures>>
      BY <1>1, <2>3 DEF LoadHost, Continues, Goto
    <3> QED
      BY <2>1, <3>1, ContinuesTold DEF results, EarlySteps
  <2> QED
    BY <2>2, <2>3
<1>2. CASE Bindings
  <2>1. pc = "bindings" /\ UNCHANGED <<stage, session>> /\ pc \in EarlySteps
    BY <1>2 DEF Bindings, EarlySteps
  <2>2. CASE \E check \in {"sdk-version", "adapter-registration", "sdk-surface"} :
                \E p : NotReady(check, p)
    BY <2>1, <2>2, NotReadyStops, StopIsReported
  <2>3. CASE stage # "preflight" /\ Throws(Unavailable)
             /\ Failed(Boundary, "none", "none", "HOST_UNAVAILABLE")
    BY <2>1, <2>3, FailuresSay, UnannotatedStops, StopIsReported
  <2>4. CASE Continues("walk")
    BY <2>1, <2>4, ContinuesTold DEF Continues, Goto, results, EarlySteps
  <2> QED
    BY <1>2, <2>2, <2>3, <2>4 DEF Bindings
<1>3. CASE Walk
  <2>1. pc = "walk" /\ UNCHANGED <<stage, session>> /\ pc \in EarlySteps
    BY <1>3 DEF Walk, EarlySteps
  <2>2. CASE \E check \in {"plugin-entry", "prompt-directory"} : BadEntry(Plan[at], check)
    BY <2>1, <2>2, BadEntryIsNotReady, NotReadyStops, StopIsReported
  <2>3. CASE pc' = "walk" /\ UNCHANGED <<results, failures>>
    BY <2>1, <2>3, ContinuesTold DEF results, EarlySteps
  <2> QED
    BY <1>3, <2>2, <2>3, WalkStep
<1>4. CASE Walked
  <2>1. /\ UNCHANGED <<session, results, failures>> /\ pc \in EarlySteps /\ pc' \in EarlySteps
        /\ stage' = "preflight" => stage = "preflight"
    BY <1>4 DEF Walked, Goto, EarlySteps
  <2> QED
    BY <2>1, ContinuesTold DEF results
<1>5. CASE Resources
  <2>1. /\ pc = "resources" /\ UNCHANGED <<stage, session>> /\ pc \in EarlySteps
        /\ stage = "preflight"
    BY <1>5 DEF Resources, EarlySteps, Control
  <2>2. CASE Throws(Plain) /\ Failed(Boundary, "none", "host-contract", "HOST_UNAVAILABLE")
    <3>1. Boundary = "none"
      BY <2>1 DEF Boundary
    <3>2. Plain.brand.check = "none" /\ Plain.brand.plugin = "none"
      BY PlainSays DEF Says
    <3>3. Stops("none", "none", "host-contract", "HOST_UNAVAILABLE")
      BY <2>1, <2>2, <3>1, <3>2, BlockTells DEF Stops, Tells, Met, Or
    <3> QED
      BY <3>3, StopIsReported
  <2>3. CASE NotReady("extension-loading", "none")
    BY <2>1, <2>3, NotReadyStops, StopIsReported
  <2>4. CASE Continues("launcher") \/ Continues("walk")
    BY <2>1, <2>4, ContinuesTold DEF Continues, Goto, results, EarlySteps
  <2> QED
    BY <1>5, <2>2, <2>3, <2>4 DEF Resources
<1>6. CASE Launcher
  <2>1. /\ pc = "launcher" /\ UNCHANGED <<stage, session>> /\ pc \in EarlySteps
        /\ stage = "preflight"
    BY <1>6 DEF Launcher, control, EarlySteps, Control
  <2>2. CASE pc' = "checked" /\ UNCHANGED <<blocker, reported, failures>>
    <3> USE DEF EarlySteps, Unopened, OpenSteps, CloseSteps, HandleSteps
    <3>1. /\ failures = <<>> /\ error = NoError /\ extensionError = NoError
          /\ phase = "initialization" /\ reported = NoDiagnostic /\ blocker = NoDiagnostic
      BY <2>1 DEF Told
    <3>2. Failures' = {} /\ failures' \in Seq(Failures')
      BY <2>2, <3>1 DEF Failures
    <3>3. Told'
      BY <2>1, <2>2, <3>1, <3>2 DEF Told, session
    <3>4. Reported'
      BY <2>2, <3>1 DEF Reported, ReportIsAFailure, NothingHidden
    <3> QED
      BY <3>3, <3>4
  <2>3. ASSUME NEW thrown \in Thrown,
               Blocks(SafeHostReadinessFailure(thrown.error, "launcher", "none")),
               Failed("none", "none", "launcher", "HOST_UNAVAILABLE")
        PROVE  (Told /\ Reported)'
    <3> DEFINE e == HostReadinessFailure("launcher", "none")
    <3>1. SafeHostReadinessFailure(thrown.error, "launcher", "none") = e
      BY ThrownSays DEF SafeHostReadinessFailure, Trusted, Or, Says
    <3>2. Throws(e)
      BY <2>1, <2>3, <3>1 DEF Throws
    <3>3. e.brand.check = "launcher" /\ e.brand.plugin = "none"
      BY ReadinessShape
    <3> HIDE DEF e
    <3>4. Stops("none", "none", "launcher", "HOST_UNAVAILABLE")
      BY <2>1, <2>3, <3>2, <3>3, BlockTells DEF Stops, Tells, Met, Or
    <3> QED
      BY <3>4, StopIsReported
  <2> QED
    BY <1>6, <2>2, <2>3 DEF Launcher, Goto
<1>7. CASE Invoke
  <2> USE DEF EarlySteps, Unopened, OpenSteps, CloseSteps, HandleSteps
  <2>1. /\ pc = "checked" /\ pc' = "host" /\ stage' = "validate" /\ failures' = <<>>
        /\ UNCHANGED <<session, reported>>
    BY <1>7 DEF Invoke, Goto, results
  <2>2. Failures' = {} /\ failures' \in Seq(Failures')
    BY <2>1 DEF Failures
  <2>3. Told'
    BY <2>1, <2>2 DEF Told, session
  <2>4. Reported'
    BY <2>1 DEF Reported, ReportIsAFailure, NothingHidden
  <2> QED
    BY <2>3, <2>4
<1>8. CASE Configure
  <2>1. /\ UNCHANGED <<stage, session>> /\ pc \in EarlySteps /\ stage # "preflight"
    BY <1>8 DEF Configure, control, EarlySteps, Control
  <2>2. CASE Continues("create")
    BY <2>1, <2>2, ContinuesTold DEF Continues, Goto, results, EarlySteps
  <2>3. CASE \E thrown \in Thrown :
                /\ Throws(SafeNativeFailure(thrown.error, "configuration", "none"))
                /\ Failed("configuration", "none", "none", thrown.reason)
    BY <2>1, <2>3, ThrownSays, AnnotatedStops, StopIsReported
  <2> QED
    BY <1>8, <2>2, <2>3 DEF Configure
<1>9. CASE Create
  <2>1. /\ UNCHANGED <<stage, session>> /\ pc = "create" /\ pc \in EarlySteps
        /\ stage # "preflight"
    BY <1>9 DEF Create, EarlySteps, Control
  <2>2. CASE UNCHANGED <<pc, results, failures>>
    BY <2>1, <2>2, ContinuesTold DEF results
  <2>3. CASE \E thrown \in Thrown :
                /\ Throws(SafeNativeFailure(thrown.error, "adapter-creation", Plan[at]))
                /\ Failed("adapter-creation", Plan[at], "none", thrown.reason)
    BY <2>1, <2>3, ThrownSays, AnnotatedStops, StopIsReported
  <2> QED
    BY <1>9, <2>2, <2>3 DEF Create
<1>10. CASE Select
  <2>1. /\ pc = "create" /\ pc \in EarlySteps /\ stage = "launch" /\ UNCHANGED session
    BY <1>10 DEF Select, EarlySteps, Control
  <2>2. CASE stage' = stage /\ \E e, reason :
                Says(e, reason) /\ Throws(e) /\ Failed("host-launch", "none", "none", reason)
    <3>1. Boundary = "host-launch"
      BY <2>1 DEF Boundary
    <3> QED
      BY <2>1, <2>2, <3>1, UnannotatedStops, StopIsReported
  <2>3. CASE stage' = "select" /\ Continues("walk")
    BY <2>1, <2>3, ContinuesTold DEF Continues, Goto, results, EarlySteps
  <2> QED
    BY <1>10, <2>2, <2>3, PlainSays, FailuresSay DEF Select
<1>11. CASE Open
  <2>1. UNCHANGED <<stage, session>> /\ pc \in EarlySteps /\ stage # "preflight"
    BY <1>11 DEF Open, control, EarlySteps, Control
  <2>2. CASE Continues("initialize")
    BY <2>1, <2>2, ContinuesTold DEF Continues, Goto, results
  <2>3. CASE /\ Throws(SafeNativeFailure(Plain, "session-creation", "none"))
             /\ Failed("session-creation", "none", "none", "NATIVE_EXECUTION_FAILED")
    BY <2>1, <2>3, PlainSays, AnnotatedStops, StopIsReported
  <2> QED
    BY <1>11, <2>2, <2>3 DEF Open
<1> QED
  BY <1>1, <1>2, <1>3, <1>4, <1>5, <1>6, <1>7, <1>8, <1>9, <1>10, <1>11 DEF EarlyStep

-----------------------------------------------------------------------------
(* The handle: a failure before the close becomes the error of the Session,  *)
(* and an error of an extension is kept until then.                          *)
LEMMA RaiseTold ==
    ASSUME Control, Told, pc \in {"initialize", "load", "session"} \cup OpenSteps,
           NEW e, Raises(e),
           NEW where, where # "none", NEW who, NEW reason,
           Tagged(SafeNativeFailure(e, phase, "none"), where, who, "none", reason),
           \/ Failed(where, who, "none", reason)
           \/ /\ pc \in OpenSteps /\ failures' = failures
              /\ \E f \in Failures : IsToldBy(SafeNativeFailure(e, phase, "none"), f),
           UNCHANGED <<stage, phase, extensionError, blocker, reported>>
    PROVE  (Told /\ Reported)'
<1> USE DEF EarlySteps, Unopened, OpenSteps, CloseSteps, HandleSteps
<1> DEFINE r == SafeNativeFailure(e, phase, "none")
           f == Met(where, who, "none", reason)
<1>1. error' = r /\ pc' = "close" /\ r.code \in Codes
  <2>1. IsError(e) => r.code = Wrapped(e.code)
    BY WrapAnnotates, WrapKeeps
  <2>2. r.code \in Codes
    BY DEF SafeNativeFailure, Sanitize, Error, Codes
  <2> QED
    BY <2>2 DEF Raises, Goto
<1>2. r # NoError
  <2>1. NoError.code = "none"
    BY DEF NoError, Error
  <2> QED
    BY <1>1, <2>1 DEF Codes
<1>3. Tagged(r, where, who, "none", reason)
  OBVIOUS
<1>4. /\ failures \in Seq(Failures) /\ Phases /\ ExtensionTold
      /\ \A g \in Failures : g.check = "none"
      /\ reported = NoDiagnostic /\ stage # "preflight"
  BY DEF Told, Control
<1>5. CASE Failed(where, who, "none", reason)
  <2>1. /\ failures' \in Seq(Failures') /\ Failures' = Failures \cup {f} /\ ~f.cleanup
        /\ f.phase = where /\ f.plugin = who /\ f.check = "none" /\ f.reason = reason
    BY <1>4, <1>5, FailureRecorded
  <2> HIDE DEF f, r
  <2>2. IsToldBy(r, f)
    BY <1>3, <2>1 DEF IsToldBy, Tells, Tagged
  <2>3. ErrorTold'
    BY <1>1, <2>1, <2>2 DEF ErrorTold, IsToldBy, Tells
  <2>4. ExtensionTold'
    BY <1>4, <2>1 DEF ExtensionTold, IsToldBy, Tells
  <2>5. Phases'
    BY <1>1, <1>4 DEF Phases
  <2>6. Told'
    BY <1>1, <1>2, <1>4, <2>1, <2>3, <2>4, <2>5 DEF Told
  <2> QED
    BY <1>1, <2>6 DEF Reported, ReportIsAFailure, NothingHidden
<1>6. CASE /\ pc \in OpenSteps /\ failures' = failures
           /\ \E g \in Failures : IsToldBy(r, g)
  <2>1. Failures' = Failures /\ \A g \in Failures : ~g.cleanup
    BY <1>6 DEF Failures, Told
  <2> HIDE DEF f, r
  <2>2. ErrorTold'
    BY <1>1, <1>6, <2>1 DEF ErrorTold, IsToldBy, Tells
  <2>3. ExtensionTold'
    BY <1>4, <2>1 DEF ExtensionTold, IsToldBy, Tells
  <2>4. Phases'
    BY <1>1, <1>4 DEF Phases
  <2>5. Told'
    BY <1>1, <1>2, <1>4, <1>6, <2>1, <2>2, <2>3, <2>4 DEF Told
  <2> QED
    BY <1>1, <2>5 DEF Reported, ReportIsAFailure, NothingHidden
<1> QED
  BY <1>5, <1>6

LEMMA ExtensionRaiseTold ==
    ASSUME Control, Told, pc \in OpenSteps, extensionError # NoError, Raises(extensionError),
           failures' = failures,
           UNCHANGED <<stage, phase, extensionError, blocker, reported>>
    PROVE  (Told /\ Reported)'
<1>1. ExtensionTold /\ \A g \in Failures : g.check = "none"
  BY DEF Told, HandleSteps
<1>2. PICK f \in Failures : IsToldBy(extensionError, f)
  BY <1>1 DEF ExtensionTold
<1>3. /\ Tagged(extensionError, f.phase, f.plugin, "none", f.reason) /\ f.phase # "none"
      /\ f.check = "none"
  BY <1>1, <1>2 DEF IsToldBy, Tells, Tagged
<1> DEFINE r == SafeNativeFailure(extensionError, phase, "none")
<1>4. Tagged(r, f.phase, f.plugin, "none", f.reason)
  BY <1>3, TaggedStays
<1>5. IsToldBy(r, f)
  BY <1>3, <1>4 DEF Tagged, IsToldBy, Tells
<1> HIDE DEF r
<1> QED
  BY <1>3, <1>4, <1>5, RaiseTold DEF r

LEMMA AdvanceTold ==
    ASSUME Control, Told, pc \in HandleSteps, pc' \in HandleSteps, Phases',
           UNCHANGED <<stage, extensionError, error, failures, blocker, reported>>,
           pc' \in {"load", "session"} => pc \in {"initialize", "load"},
           pc' \in {"initialize", "load", "session"} => pc' \in {"load", "session"},
           pc' \in OpenSteps => pc \in {"session"} \cup OpenSteps,
           pc' \in CloseSteps => \/ pc \in CloseSteps /\ open' = open
                                 \/ open' /\ extensionError = NoError
    PROVE  (Told /\ Reported)'
<1> USE DEF EarlySteps, Unopened, OpenSteps, CloseSteps, HandleSteps
<1>1. Failures' = Failures
  BY DEF Failures
<1>2. /\ failures \in Seq(Failures) /\ ErrorTold /\ ExtensionTold
      /\ \A g \in Failures : g.check = "none"
      /\ reported = NoDiagnostic /\ stage # "preflight"
  BY DEF Told, Control
<1>3. failures = <<>> => Failures = {}
  BY DEF Failures
<1>4. ErrorTold' /\ ExtensionTold'
  BY <1>1, <1>2 DEF ErrorTold, ExtensionTold, IsToldBy, Tells
<1>5. pc' \in CloseSteps /\ error = NoError => open' /\ \A f \in Failures : f.cleanup
  BY <1>3 DEF Told
<1>6. Told'
  BY <1>1, <1>2, <1>3, <1>4, <1>5 DEF Told
<1> QED
  BY <1>6 DEF Reported, ReportIsAFailure, NothingHidden

LEMMA ReportsTold ==
    ASSUME Control, Told, NEW path, ExtensionReports(path)
    PROVE  (Told /\ Reported)'
<1> USE DEF EarlySteps, Unopened, OpenSteps, CloseSteps, HandleSteps
<1> DEFINE owner == IF path \in Paths THEN owners[path] ELSE "none"
           x == Registered("native", "NATIVE_EXTENSION_FAILED")
           f == Met(phase, owner, "none", "NATIVE_EXTENSION_FAILED")
<1>1. /\ pc \in OpenSteps \cup CloseSteps /\ open /\ extensionError = NoError
      /\ extensionError' = SafeNativeFailure(x, phase, owner)
      /\ Failed(phase, owner, "none", "NATIVE_EXTENSION_FAILED")
      /\ UNCHANGED <<stage, pc, phase, open, error, blocker, reported>>
  BY DEF ExtensionReports, handleVars, control, results
<1>2. /\ failures \in Seq(Failures) /\ Phases /\ ErrorTold
      /\ \A g \in Failures : g.check = "none"
      /\ reported = NoDiagnostic /\ stage # "preflight"
  BY <1>1 DEF Told, Control
<1>3. /\ Tagged(extensionError', phase, owner, "none", "NATIVE_EXTENSION_FAILED")
      /\ extensionError'.code = "NativeExecutionFailed"
  BY <1>1, RegisteredSays, SaysWrapped DEF Wrapped
<1>4. /\ failures' \in Seq(Failures') /\ Failures' = Failures \cup {f}
      /\ (f.cleanup <=> pc \in CloseSteps)
      /\ f.phase = phase /\ f.plugin = owner /\ f.check = "none"
      /\ f.reason = "NATIVE_EXTENSION_FAILED"
  BY <1>1, <1>2, FailureRecorded
<1>5. extensionError' # NoError
  <2>1. NoError.code = "none"
    BY DEF NoError, Error
  <2> QED
    BY <1>3, <2>1
<1> HIDE DEF f, owner, x
<1>6. ExtensionTold'
  <2>1. IsToldBy(extensionError', f)
    BY <1>2, <1>3, <1>4 DEF IsToldBy, Tells, Tagged, Phases
  <2> QED
    BY <1>3, <1>4, <2>1 DEF ExtensionTold, IsToldBy, Tells
<1>7. ErrorTold' /\ Phases'
  BY <1>1, <1>2, <1>4 DEF ErrorTold, IsToldBy, Tells, Phases
<1>8. /\ pc \in OpenSteps => \A g \in Failures' : ~g.cleanup
      /\ pc \in CloseSteps /\ error = NoError => \A g \in Failures' : g.cleanup
  BY <1>4 DEF Told
<1>9. Told'
  BY <1>1, <1>2, <1>4, <1>5, <1>6, <1>7, <1>8 DEF Told
<1> QED
  BY <1>1, <1>9 DEF Reported, ReportIsAFailure, NothingHidden

-----------------------------------------------------------------------------
(* The close: what it adds to the failures, and which one it reports.        *)
Cleanups(emits, disposes) ==
    (IF emits THEN {} ELSE {Cleanup("shutdown", "NATIVE_EXECUTION_FAILED")})
    \cup (IF ~rejected THEN {} ELSE {Cleanup("finalization", "GOVERNANCE_STORAGE_FAILED")})
    \cup (IF disposes THEN {} ELSE {Cleanup("disposal", "NATIVE_EXECUTION_FAILED")})

Elements(s) == {s[i] : i \in DOMAIN s}

LEMMA ElementsJoined ==
    ASSUME NEW S, NEW s \in Seq(S), NEW t \in Seq(S)
    PROVE  s \o t \in Seq(S) /\ Elements(s \o t) = Elements(s) \cup Elements(t)
<1>1. /\ DOMAIN s = 1 .. Len(s) /\ DOMAIN t = 1 .. Len(t)
      /\ Len(s) \in Nat /\ Len(t) \in Nat
      /\ DOMAIN (s \o t) = 1 .. Len(s) + Len(t)
      /\ \A i \in 1 .. Len(s) + Len(t) :
            (s \o t)[i] = IF i <= Len(s) THEN s[i] ELSE t[i - Len(s)]
  OBVIOUS
<1>2. ASSUME NEW i \in DOMAIN (s \o t)
      PROVE  (s \o t)[i] \in Elements(s) \cup Elements(t)
  <2>1. CASE i <= Len(s)
    <3>1. i \in DOMAIN s /\ (s \o t)[i] = s[i]
      BY <1>1, <2>1
    <3> QED
      BY <3>1 DEF Elements
  <2>2. CASE ~(i <= Len(s))
    <3>1. i - Len(s) \in DOMAIN t /\ (s \o t)[i] = t[i - Len(s)]
      BY <1>1, <2>2
    <3> QED
      BY <3>1 DEF Elements
  <2> QED
    BY <2>1, <2>2
<1>3. ASSUME NEW i \in DOMAIN s
      PROVE  s[i] \in Elements(s \o t)
  <2>1. i \in DOMAIN (s \o t) /\ (s \o t)[i] = s[i]
    BY <1>1
  <2> QED
    BY <2>1 DEF Elements
<1>4. ASSUME NEW i \in DOMAIN t
      PROVE  t[i] \in Elements(s \o t)
  <2>1. Len(s) + i \in DOMAIN (s \o t) /\ (s \o t)[Len(s) + i] = t[i]
    BY <1>1
  <2> QED
    BY <2>1 DEF Elements
<1>5. s \o t \in Seq(S)
  OBVIOUS
<1> QED
  BY <1>2, <1>3, <1>4, <1>5 DEF Elements

LEMMA CleanupsRecorded ==
    ASSUME failures \in Seq(Failures), NEW emits \in BOOLEAN, NEW disposes \in BOOLEAN,
           failures' = failures
               \o (IF emits THEN <<>> ELSE <<Cleanup("shutdown", "NATIVE_EXECUTION_FAILED")>>)
               \o (IF ~rejected THEN <<>>
                   ELSE <<Cleanup("finalization", "GOVERNANCE_STORAGE_FAILED")>>)
               \o (IF disposes THEN <<>> ELSE <<Cleanup("disposal", "NATIVE_EXECUTION_FAILED")>>)
    PROVE  /\ Failures' = Failures \cup Cleanups(emits, disposes)
           /\ failures' # <<>> => failures # <<>> \/ ~emits \/ rejected \/ ~disposes
           /\ \A f \in Cleanups(emits, disposes) : f.cleanup
<1> DEFINE one == IF emits THEN <<>> ELSE <<Cleanup("shutdown", "NATIVE_EXECUTION_FAILED")>>
           two == IF ~rejected THEN <<>>
                  ELSE <<Cleanup("finalization", "GOVERNANCE_STORAGE_FAILED")>>
           three == IF disposes THEN <<>> ELSE <<Cleanup("disposal", "NATIVE_EXECUTION_FAILED")>>
<1> DEFINE All == Failures \cup Cleanups(emits, disposes)
<1>1. /\ Elements(one) = IF emits THEN {} ELSE {Cleanup("shutdown", "NATIVE_EXECUTION_FAILED")}
      /\ Elements(two) = IF ~rejected THEN {}
                      ELSE {Cleanup("finalization", "GOVERNANCE_STORAGE_FAILED")}
      /\ Elements(three) = IF disposes THEN {}
                        ELSE {Cleanup("disposal", "NATIVE_EXECUTION_FAILED")}
  BY DEF Elements
<1>2. failures \in Seq(All) /\ one \in Seq(All) /\ two \in Seq(All) /\ three \in Seq(All)
  <2>1. failures \in Seq(All)
    OBVIOUS
  <2>2. /\ emits \/ Cleanup("shutdown", "NATIVE_EXECUTION_FAILED") \in All
        /\ ~rejected \/ Cleanup("finalization", "GOVERNANCE_STORAGE_FAILED") \in All
        /\ disposes \/ Cleanup("disposal", "NATIVE_EXECUTION_FAILED") \in All
    BY DEF Cleanups
  <2> HIDE DEF All
  <2>3. ASSUME NEW c, c \in All
        PROVE  <<c>> \in Seq(All)
    BY <2>3
  <2>4. <<>> \in Seq(All)
    OBVIOUS
  <2>5. one \in Seq(All)
    BY <2>2, <2>3, <2>4
  <2>6. two \in Seq(All)
    BY <2>2, <2>3, <2>4
  <2>7. three \in Seq(All)
    BY <2>2, <2>3, <2>4
  <2> QED
    BY <2>1, <2>5, <2>6, <2>7
<1>3. failures' = ((failures \o one) \o two) \o three
  OBVIOUS
<1>4. failures # <<>> \/ ~emits \/ rejected \/ ~disposes \/ failures' = <<>>
  BY <1>2, <1>3
<1>5. \A f \in Cleanups(emits, disposes) : f.cleanup
  BY DEF Cleanups, Cleanup
<1> HIDE DEF one, two, three, All
<1>6. Elements(failures') =
         Elements(failures) \cup Elements(one) \cup Elements(two) \cup Elements(three)
  <2>1. \A s, t \in Seq(All) :
           s \o t \in Seq(All) /\ Elements(s \o t) = Elements(s) \cup Elements(t)
    BY ElementsJoined
  <2> DEFINE a == failures \o one
             b == a \o two
  <2>2. a \in Seq(All) /\ Elements(a) = Elements(failures) \cup Elements(one)
    BY <1>2, <2>1
  <2>3. failures' = b \o three
    BY <1>3
  <2> HIDE DEF a
  <2>4. b \in Seq(All) /\ Elements(b) = Elements(a) \cup Elements(two)
    BY <1>2, <2>1, <2>2
  <2> HIDE DEF b
  <2>5. Elements(failures') = Elements(b) \cup Elements(three)
    BY <1>2, <2>1, <2>3, <2>4
  <2> QED
    BY <2>2, <2>4, <2>5
<1>7. Elements(failures') = Failures' /\ Elements(failures) = Failures
  BY DEF Elements, Failures
<1> QED
  BY <1>1, <1>4, <1>5, <1>6, <1>7 DEF Cleanups

LEMMA PlainWrapped ==
    ASSUME NEW where, where # "none"
    PROVE  LET r == SafeNativeFailure(Plain, where, "none") IN
           /\ IsToldBy(r, Cleanup(where, "NATIVE_EXECUTION_FAILED"))
           /\ r.code = "NativeExecutionFailed" /\ r # NoError
<1> DEFINE r == SafeNativeFailure(Plain, where, "none")
<1>1. Tagged(r, where, "none", "none", "NATIVE_EXECUTION_FAILED") /\ r.code = "NativeExecutionFailed"
  BY PlainSays, SaysWrapped DEF Wrapped
<1>2. NoError.code = "none"
  BY DEF NoError, Error
<1> HIDE DEF r
<1>3. IsToldBy(r, Cleanup(where, "NATIVE_EXECUTION_FAILED"))
  BY <1>1 DEF IsToldBy, Tagged, Tells, Cleanup
<1> QED
  BY <1>1, <1>2, <1>3 DEF r

(* What the close itself would report: a rejected write if there was one,    *)
(* nothing when nothing failed, and otherwise one of the failures.           *)
LEMMA CloseFailureTold ==
    ASSUME ExtensionTold, NEW emits \in BOOLEAN, NEW disposes \in BOOLEAN
    PROVE  LET cleanup == CloseFailure(emits, disposes) IN
           /\ cleanup.code = "StorageFailure" <=> rejected
           /\ cleanup = NoError => emits /\ disposes /\ ~rejected /\ extensionError = NoError
           /\ cleanup # NoError =>
                 \E f \in Failures \cup Cleanups(emits, disposes) : IsToldBy(cleanup, f)
           /\ rejected => cleanup # NoError /\ cleanup.brand.reason = "GOVERNANCE_STORAGE_FAILED"
<1> DEFINE cleanup == CloseFailure(emits, disposes)
<1>1. NoError.code = "none"
  BY DEF NoError, Error
<1>2. CASE rejected
  <2> DEFINE r == SafeNativeFailure(StorageFailure, "finalization", "none")
  <2>1. /\ Tagged(r, "finalization", "none", "none", "GOVERNANCE_STORAGE_FAILED")
        /\ r.code = "StorageFailure"
    BY FailuresSay, SaysWrapped DEF Wrapped
  <2>2. cleanup = r
    BY <1>2 DEF CloseFailure
  <2> HIDE DEF r
  <2>3. IsToldBy(r, Cleanup("finalization", "GOVERNANCE_STORAGE_FAILED"))
    BY <2>1 DEF IsToldBy, Tagged, Tells, Cleanup
  <2>4. Cleanup("finalization", "GOVERNANCE_STORAGE_FAILED") \in Cleanups(emits, disposes)
    BY <1>2 DEF Cleanups
  <2> QED
    BY <1>1, <1>2, <2>1, <2>2, <2>3, <2>4 DEF Tagged
<1>3. CASE ~rejected /\ ~emits
  <2>1. cleanup = SafeNativeFailure(Plain, "shutdown", "none")
    BY <1>3, PlainWrapped DEF CloseFailure, ShutdownFailure
  <2>2. Cleanup("shutdown", "NATIVE_EXECUTION_FAILED") \in Cleanups(emits, disposes)
    BY <1>3 DEF Cleanups
  <2> QED
    BY <1>3, <2>1, <2>2, PlainWrapped
<1>4. CASE ~rejected /\ emits /\ extensionError # NoError
  <2> DEFINE r == SafeNativeFailure(extensionError, "shutdown", "none")
  <2>1. PICK f \in Failures : IsToldBy(extensionError, f)
    BY <1>4 DEF ExtensionTold
  <2>2. IsToldBy(r, f) /\ r.code = "NativeExecutionFailed"
    BY <1>4, <2>1, WrapKeeps DEF IsToldBy, Tells, ExtensionTold, Wrapped
  <2>3. r # NoError
    BY <1>1, <2>2
  <2>4. cleanup = r
    BY <1>4, <2>3 DEF CloseFailure, ShutdownFailure
  <2> HIDE DEF r
  <2> QED
    BY <1>4, <2>2, <2>3, <2>4
<1>5. CASE ~rejected /\ emits /\ extensionError = NoError /\ ~disposes
  <2>1. cleanup = SafeNativeFailure(Plain, "disposal", "none")
    BY <1>5 DEF CloseFailure, ShutdownFailure
  <2>2. Cleanup("disposal", "NATIVE_EXECUTION_FAILED") \in Cleanups(emits, disposes)
    BY <1>5 DEF Cleanups
  <2> QED
    BY <1>5, <2>1, <2>2, PlainWrapped
<1>6. CASE ~rejected /\ emits /\ extensionError = NoError /\ disposes
  <2>1. cleanup = NoError
    BY <1>6 DEF CloseFailure, ShutdownFailure
  <2> QED
    BY <1>1, <1>6, <2>1
<1> QED
  BY <1>2, <1>3, <1>4, <1>5, <1>6

LEMMA ClosingTold == Control /\ Told /\ Closing => (Told /\ Reported)'
<1> SUFFICES ASSUME Control, Told, Closing
             PROVE  (Told /\ Reported)'
  OBVIOUS
<1> USE DEF EarlySteps, Unopened, OpenSteps, CloseSteps, HandleSteps
<1>1. /\ pc = "closing" /\ pc' = "ended" /\ stage' = stage /\ stage # "preflight"
      /\ UNCHANGED <<open, rejected, blocker>>
  BY DEF Closing, Settles, Goto, control, Control
<1>2. /\ failures \in Seq(Failures) /\ ErrorTold /\ ExtensionTold
      /\ failures # <<>> => error # NoError \/ extensionError # NoError
      /\ error = NoError => open /\ \A f \in Failures : f.cleanup
  BY <1>1 DEF Told
<1>3. NoError.code = "none"
  BY DEF NoError, Error
<1>4. ASSUME error' # NoError, NEW f \in Failures', IsToldBy(error', f)
      PROVE  reported' # NoDiagnostic /\ Tells(reported', f)
  <2>1. \E e : error' = e /\ reported' = IF e = NoError THEN NoDiagnostic
                                           ELSE DiagnosticFor(e, "native")
    BY <1>1 DEF Closing, Settles
  <2>2. reported' = error'.brand /\ reported' # NoDiagnostic
    BY <1>4, <2>1, TaggedReported DEF IsToldBy
  <2> QED
    BY <1>4, <2>2 DEF IsToldBy
<1>5. error' = NoError => reported' = NoDiagnostic
  BY <1>1 DEF Closing, Settles
<1>6. ASSUME failures' \in Seq(Failures'),
             error' # NoError => \E f \in Failures' : IsToldBy(error', f),
             failures' # <<>> =>
                /\ error' # NoError
                /\ open /\ rejected => error'.brand.reason = "GOVERNANCE_STORAGE_FAILED"
                /\ (\E f \in Failures' : ~f.cleanup) =>
                      \/ error'.brand.reason = "GOVERNANCE_STORAGE_FAILED"
                      \/ \E f \in Failures' : ~f.cleanup /\ IsToldBy(error', f)
      PROVE  (Told /\ Reported)'
  <2>1. Told'
    BY <1>1, <1>6 DEF Told
  <2>2. error' # NoError => reported'.reason = error'.brand.reason
    BY <1>4, <1>6 DEF IsToldBy, Tells
  <2>3. ReportIsAFailure'
    BY <1>1, <1>4, <1>5, <1>6 DEF ReportIsAFailure, Tells
  <2>4. ASSUME failures' # <<>>
        PROVE  /\ reported' # NoDiagnostic
               /\ open' /\ rejected' => reported'.reason = "GOVERNANCE_STORAGE_FAILED"
               /\ (\E f \in Failures' : ~f.cleanup) =>
                     \/ reported'.reason = "GOVERNANCE_STORAGE_FAILED"
                     \/ \E f \in Failures' : ~f.cleanup /\ Tells(reported', f)
    BY <1>1, <1>4, <1>6, <2>2, <2>4
  <2>5. NothingHidden'
    BY <2>4 DEF NothingHidden, Tells
  <2> QED
    BY <2>1, <2>3, <2>5 DEF Reported
<1>7. CASE ~open
  <2>1. error' = error /\ failures' = failures /\ Failures' = Failures /\ error # NoError
    BY <1>1, <1>2, <1>7 DEF Closing, Settles, Failures
  <2>2. \E f \in Failures : ~f.cleanup /\ IsToldBy(error, f)
    BY <1>2, <2>1 DEF ErrorTold
  <2> QED
    BY <1>2, <1>6, <1>7, <2>1, <2>2
<1>8. CASE open
  <2>1. PICK emits \in BOOLEAN, disposes \in BOOLEAN :
           /\ error' = AfterCleanup(error, CloseFailure(emits, disposes))
           /\ failures' = failures
                  \o (IF emits THEN <<>> ELSE <<Cleanup("shutdown", "NATIVE_EXECUTION_FAILED")>>)
                  \o (IF ~rejected THEN <<>>
                      ELSE <<Cleanup("finalization", "GOVERNANCE_STORAGE_FAILED")>>)
                  \o (IF disposes THEN <<>>
                      ELSE <<Cleanup("disposal", "NATIVE_EXECUTION_FAILED")>>)
    BY <1>1, <1>8 DEF Closing, Settles
  <2> DEFINE cleanup == CloseFailure(emits, disposes)
             added == Cleanups(emits, disposes)
  <2>2. /\ Failures' = Failures \cup added /\ \A f \in added : f.cleanup
        /\ failures' # <<>> => failures # <<>> \/ ~emits \/ rejected \/ ~disposes
    BY <1>2, <2>1, CleanupsRecorded
  <2>3. failures' \in Seq(Failures')
    <3>1. /\ emits \/ Cleanup("shutdown", "NATIVE_EXECUTION_FAILED") \in Failures'
          /\ ~rejected \/ Cleanup("finalization", "GOVERNANCE_STORAGE_FAILED") \in Failures'
          /\ disposes \/ Cleanup("disposal", "NATIVE_EXECUTION_FAILED") \in Failures'
          /\ failures \in Seq(Failures')
      BY <1>2, <2>2 DEF Cleanups
    <3> QED
      BY <2>1, <3>1
  <2>4. /\ cleanup.code = "StorageFailure" <=> rejected
        /\ cleanup = NoError => emits /\ disposes /\ ~rejected /\ extensionError = NoError
        /\ cleanup # NoError => \E f \in Failures \cup added : IsToldBy(cleanup, f)
        /\ rejected => cleanup # NoError /\ cleanup.brand.reason = "GOVERNANCE_STORAGE_FAILED"
    BY <1>2, CloseFailureTold
  <2>5. error' = IF error = NoError \/ cleanup.code = "StorageFailure" THEN cleanup ELSE error
    BY <2>1 DEF AfterCleanup
  <2> HIDE DEF cleanup, added
  <2>6. CASE rejected
    BY <1>6, <1>8, <2>2, <2>3, <2>4, <2>5, <2>6
  <2>7. CASE ~rejected /\ error = NoError
    BY <1>2, <1>6, <2>2, <2>3, <2>4, <2>5, <2>7
  <2>8. CASE ~rejected /\ error # NoError
    <3>1. \E f \in Failures' : ~f.cleanup /\ IsToldBy(error', f)
      BY <1>2, <2>2, <2>4, <2>5, <2>8 DEF ErrorTold
    <3> QED
      BY <1>6, <2>3, <2>4, <2>5, <2>8, <3>1
  <2> QED
    BY <2>6, <2>7, <2>8
<1> QED
  BY <1>7, <1>8 DEF Control

HandleStep ==
    \/ Initialize \/ Load \/ CreateSession \/ Bind \/ Consume \/ Run \/ Close \/ Closing
    \/ WriteFails \/ \E path \in Paths \cup {"none"} : ExtensionReports(path)

LEMMA HandleTold == Control /\ Told /\ HandleStep => (Told /\ Reported)'
<1> SUFFICES ASSUME Control, Told, HandleStep
             PROVE  (Told /\ Reported)'
  OBVIOUS
<1> USE DEF OpenSteps, CloseSteps, HandleSteps
<1>1. pc \in HandleSteps => Phases
  BY DEF Told
<1>2. handleVars' = handleVars => UNCHANGED <<stage, blocker, reported>>
  BY DEF handleVars, control, results
<1>3. ASSUME NEW e, NEW where, where # "none", NEW who, NEW reason, Says(e, reason)
      PROVE  Tagged(SafeNativeFailure(SafeNativeFailure(e, where, who), phase, "none"),
                    where, who, "none", reason)
  BY <1>3, SaysWrapped, TaggedStays
<1>4. CASE Initialize
  <2>1. pc = "initialize" /\ UNCHANGED <<stage, extensionError, blocker, reported>>
    BY <1>2, <1>4 DEF Initialize
  <2>2. CASE Advances("load", "resource-loading")
    BY <2>1, <2>2, AdvanceTold DEF Advances, Goto, Phases
  <2>3. CASE \E thrown \in Thrown :
                /\ Raises(SafeNativeFailure(thrown.error, "initialization", Primary))
                /\ Failed("initialization", Primary, "none", thrown.reason)
                /\ UNCHANGED phase
    BY <1>3, <2>1, <2>3, ThrownSays, RaiseTold
  <2> QED
    BY <1>4, <2>2, <2>3 DEF Initialize
<1>5. CASE Load
  <2>1. /\ pc = "load" /\ UNCHANGED <<stage, extensionError, blocker, reported>>
        /\ phase = "resource-loading"
    BY <1>1, <1>2, <1>5 DEF Load, Phases
  <2>2. CASE Advances("session", "session-creation")
    BY <2>1, <2>2, AdvanceTold DEF Advances, Goto, Phases
  <2>3. CASE /\ Raises(NativeFailure) /\ UNCHANGED phase
             /\ Failed("resource-loading", "none", "none", "NATIVE_EXECUTION_FAILED")
    <3>1. Tagged(SafeNativeFailure(NativeFailure, phase, "none"), "resource-loading", "none",
                 "none", "NATIVE_EXECUTION_FAILED")
      BY <2>1, FailuresSay, SaysWrapped
    <3> QED
      BY <2>1, <2>3, <3>1, RaiseTold
  <2> QED
    BY <1>5, <2>2, <2>3 DEF Load
<1>6. CASE CreateSession
  <2>1. /\ pc = "session" /\ UNCHANGED <<stage, extensionError, blocker, reported>>
        /\ phase = "session-creation"
    BY <1>1, <1>2, <1>6 DEF CreateSession, Phases
  <2>2. CASE Advances("bind", "extension-binding")
    BY <2>1, <2>2, AdvanceTold DEF Advances, Goto, Phases
  <2>3. CASE /\ Raises(Plain) /\ UNCHANGED phase
             /\ Failed("session-creation", "none", "none", "NATIVE_EXECUTION_FAILED")
    <3>1. Tagged(SafeNativeFailure(Plain, phase, "none"), "session-creation", "none",
                 "none", "NATIVE_EXECUTION_FAILED")
      BY <2>1, PlainSays, SaysWrapped
    <3> QED
      BY <2>1, <2>3, <3>1, RaiseTold
  <2> QED
    BY <1>6, <2>2, <2>3 DEF CreateSession
<1>7. CASE Bind
  <2>1. /\ pc = "bind" /\ UNCHANGED <<stage, phase, extensionError, blocker, reported>>
        /\ phase = "extension-binding"
    BY <1>1, <1>2, <1>7 DEF Bind, Phases
  <2>2. CASE pc' = "consume" /\ UNCHANGED <<error, failures>>
    BY <2>1, <2>2, AdvanceTold DEF Phases
  <2>3. CASE extensionError # NoError /\ Raises(extensionError) /\ UNCHANGED failures
    BY <2>1, <2>3, ExtensionRaiseTold
  <2>4. CASE Raises(Plain) /\ Failed("extension-binding", "none", "none", "NATIVE_EXECUTION_FAILED")
    <3>1. Tagged(SafeNativeFailure(Plain, phase, "none"), "extension-binding", "none",
                 "none", "NATIVE_EXECUTION_FAILED")
      BY <2>1, PlainSays, SaysWrapped
    <3> QED
      BY <2>1, <2>4, <3>1, RaiseTold
  <2> QED
    BY <1>7, <2>2, <2>3, <2>4 DEF Bind, Goto
<1>8. CASE Consume
  <2>1. /\ pc = "consume" /\ UNCHANGED <<stage, extensionError, blocker, reported>>
        /\ Advances("run", "domain-run")
    BY <1>2, <1>8 DEF Consume
  <2> QED
    BY <2>1, AdvanceTold DEF Advances, Goto, Phases
<1>9. CASE Run
  <2>1. /\ pc = "run" /\ UNCHANGED <<stage, phase, open, extensionError, blocker, reported>>
        /\ phase = "domain-run"
    BY <1>1, <1>2, <1>9 DEF Run, Phases
  <2>2. CASE /\ Raises(StorageFailure)
             /\ Failed("domain-run", "none", "none", "GOVERNANCE_STORAGE_FAILED")
    <3>1. Tagged(SafeNativeFailure(StorageFailure, phase, "none"), "domain-run", "none",
                 "none", "GOVERNANCE_STORAGE_FAILED")
      BY <2>1, FailuresSay, SaysWrapped
    <3> QED
      BY <2>1, <2>2, <3>1, RaiseTold
  <2>3. CASE extensionError = NoError /\ pc' = "close" /\ UNCHANGED <<error, failures>>
    <3>1. Phases'
      BY <1>1, <2>1, <2>3 DEF Phases
    <3>2. open' /\ extensionError = NoError
      BY <2>1, <2>3 DEF Control
    <3> QED
      BY <2>1, <2>3, <3>1, <3>2, AdvanceTold
  <2>4. CASE extensionError # NoError /\ Raises(extensionError) /\ UNCHANGED failures
    BY <2>1, <2>4, ExtensionRaiseTold
  <2>5. CASE \E thrown \in Thrown, where \in {"domain-run", "publication"} :
                /\ Raises(SafeNativeFailure(thrown.error, where, Primary))
                /\ Failed(where, Primary, "none", thrown.reason)
    <3>1. PICK thrown \in Thrown, where \in {"domain-run", "publication"} :
             /\ Raises(SafeNativeFailure(thrown.error, where, Primary))
             /\ Failed(where, Primary, "none", thrown.reason)
      BY <2>5
    <3>2. where # "none" /\ Says(thrown.error, thrown.reason)
      BY ThrownSays
    <3>3. Tagged(SafeNativeFailure(SafeNativeFailure(thrown.error, where, Primary), phase, "none"),
                 where, Primary, "none", thrown.reason)
      BY <1>3, <3>2
    <3> QED
      BY <2>1, <3>1, <3>3, RaiseTold
  <2> QED
    BY <1>9, <2>2, <2>3, <2>4, <2>5 DEF Run, Goto
<1>10. CASE Close
  <2>1. /\ pc = "close" /\ pc' = "closing" /\ open' = open /\ phase' \in {"shutdown", phase}
        /\ UNCHANGED <<stage, extensionError, error, failures, blocker, reported>>
    BY <1>2, <1>10 DEF Close, Goto
  <2>2. Phases'
    BY <1>1, <2>1 DEF Phases
  <2> QED
    BY <2>1, <2>2, AdvanceTold
<1>11. CASE WriteFails
  <2>1. /\ pc \in OpenSteps \cup CloseSteps /\ pc' = pc /\ open' = open /\ phase' = phase
        /\ UNCHANGED <<stage, extensionError, error, failures, blocker, reported>>
    BY <1>2, <1>11 DEF WriteFails
  <2>2. Phases'
    BY <1>1, <2>1 DEF Phases
  <2> QED
    BY <2>1, <2>2, AdvanceTold
<1> QED
  BY <1>4, <1>5, <1>6, <1>7, <1>8, <1>9, <1>10, <1>11, ClosingTold, ReportsTold DEF HandleStep

LEMMA ToldInit == Init => Told /\ Reported
<1> SUFFICES ASSUME Init PROVE Told /\ Reported
  OBVIOUS
<1>1. Failures = {} /\ failures \in Seq(Failures)
  BY DEF Init, Failures
<1>2. Told
  BY <1>1 DEF Init, Told, EarlySteps, HandleSteps, OpenSteps, CloseSteps, Unopened
<1>3. Reported
  BY DEF Init, Reported, ReportIsAFailure, NothingHidden
<1> QED
  BY <1>2, <1>3

LEMMA ToldStep == Typed /\ Told /\ Reported /\ [Next]_vars => (Told /\ Reported)'
<1> SUFFICES ASSUME Control, Local, Told, Reported, [Next]_vars
             PROVE  (Told /\ Reported)'
  BY DEF Typed
<1>1. ASSUME UNCHANGED <<pc, control, session, results, failures>>
      PROVE  (Told /\ Reported)'
  BY <1>1 DEF control, session, results, Told, Phases, ErrorTold, ExtensionTold, IsToldBy, Tells,
     Failures, Reported, ReportIsAFailure, NothingHidden
<1>2. CASE \E path \in Paths : Move(path)
  BY <1>1, <1>2 DEF Move
<1>3. CASE UNCHANGED vars
  BY <1>1, <1>3 DEF vars
<1> QED
  BY <1>2, <1>3, EarlyTold, HandleTold DEF Next, EarlyStep, HandleStep

LEMMA ToldAlways == Spec => [](Typed /\ Told /\ Reported)
<1>1. Typed /\ Told /\ Reported /\ [Next]_vars => (Told /\ Reported)'
  BY ToldStep
<1> QED
  BY <1>1, TypedAlways, ToldInit, PTL DEF Spec

(* Through every wrapping, for any Plugins and wherever a failure happens: a *)
(* blocker or a receipt tells of one failure that was met, as a whole.       *)
THEOREM ReportIsAFailureAlways == Spec => []ReportIsAFailure
BY ToldAlways, PTL DEF Reported

(* For any Plugins and any sequence of failures, of steps, of extensions, of *)
(* writes and of the cleanup: a receipt hides none, and tells of one before  *)
(* the cleanup if there was one, or of a rejected write.                     *)
THEOREM NothingHiddenAlways == Spec => []NothingHidden
BY ToldAlways, PTL DEF Reported

-----------------------------------------------------------------------------
(* What a passed preflight knows: that the Host is in order, all Plugins are *)
(* registered, and the entries of each plan resolve to files of their own.   *)
HostInOrder ==
    /\ condition \notin {"host-import", "host-contract", "sdk-version", "sdk-surface"}
    /\ \A p \in Plugins : key[p] \in registered

EntriesInOrder(i) ==
    \A j \in DOMAIN Profiles[i] :
        /\ target[RegisteredEntry(Profiles[i][j])] # Gone
        /\ key[Profiles[i][j]] \in prompts
        /\ \A k \in DOMAIN Profiles[i] :
              target[RegisteredEntry(Profiles[i][j])] = target[RegisteredEntry(Profiles[i][k])]
                  => j = k

HasPassed == readiness["sdk"] = "passed"

Preflight ==
    /\ stage = "preflight" /\ pc # "checked" => ~HasPassed
    /\ stage = "preflight" /\ pc \in {"host", "bindings"} => profile = 1
    /\ \/ stage = "preflight" /\ pc \in {"walk", "resources", "launcher"}
       \/ HasPassed
       => HostInOrder
    /\ moves = 0 =>
          /\ stage = "preflight" /\ pc \in {"walk", "resources"} =>
                \A i \in 1 .. profile - 1 : EntriesInOrder(i)
          /\ pc = "resources" => EntriesInOrder(profile)
          /\ pc = "launcher" \/ HasPassed => \A i \in DOMAIN Profiles : EntriesInOrder(i)

LEMMA PreflightInit == Init => Preflight /\ PreflightIsProductionCheck
<1> SUFFICES ASSUME Init PROVE Preflight /\ PreflightIsProductionCheck
  OBVIOUS
<1>1. ~HasPassed
  BY DEF Init, HasPassed, Checks
<1>2. pc = "host" /\ (stage = "preflight" => profile = 1)
  BY DEF Init
<1> QED
  BY <1>1, <1>2 DEF Preflight, PreflightIsProductionCheck

LEMMA OrderKept ==
    ASSUME UNCHANGED <<config, files>>
    PROVE  /\ HostInOrder' <=> HostInOrder
           /\ \A i : EntriesInOrder(i)' <=> EntriesInOrder(i)
BY DEF HostInOrder, EntriesInOrder, RegisteredEntry, config, files

(* A blocked check has not passed, and an invocation leaves the check alone. *)
LEMMA ThrowsReadiness ==
    ASSUME NEW e, Throws(e)
    PROVE  /\ stage = "preflight" => pc' = "checked" /\ ~HasPassed'
           /\ stage # "preflight" => pc' = "ended" /\ readiness' = readiness
<1>1. CASE stage = "preflight"
  <2>1. pc' = "checked" /\ \E d : readiness' = [c \in Checks |-> IF c \in Category(d.check)
                                                   THEN "failed" ELSE "not-checked"]
    BY <1>1 DEF Throws, Blocks, Goto
  <2>2. readiness'["sdk"] # "passed"
    BY <2>1 DEF Checks
  <2> QED
    BY <1>1, <2>1, <2>2 DEF HasPassed
<1>2. CASE stage # "preflight"
  BY <1>2 DEF Throws, Refuses, Goto
<1> QED
  BY <1>1, <1>2

LEMMA ThrowsPreflight ==
    ASSUME Preflight, NEW e, Throws(e), UNCHANGED <<config, files, stage>>
    PROVE  Preflight'
<1>1. CASE stage = "preflight"
  BY <1>1, ThrowsReadiness DEF Preflight
<1>2. CASE stage # "preflight"
  BY <1>2, ThrowsReadiness, OrderKept DEF Preflight, HasPassed, files
<1> QED
  BY <1>1, <1>2

(* After preflight, the steps change nothing that it saw.                    *)
LEMMA LaterPreflight ==
    ASSUME Preflight, stage' # "preflight", pc' \notin {"resources", "launcher"},
           UNCHANGED <<config, files, readiness>>
    PROVE  Preflight'
BY OrderKept DEF Preflight, HasPassed, files

LEMMA WalkedInOrder ==
    ASSUME Control, Local, Places, Steady, moves = 0, pc = "walk", at \notin DOMAIN Plan
    PROVE  EntriesInOrder(profile)
<1>1. at - 1 = Len(Plan) /\ DOMAIN Plan = 1 .. Len(Plan) /\ Plan = Profiles[profile]
  BY PlanTyped DEF Control, Plan
<1>2. Resolved(Len(Plan))
  BY <1>1 DEF Places
<1>3. \A j \in 1 .. Len(Plan) :
         entry[Plan[j]] = target[RegisteredEntry(Plan[j])] /\ key[Plan[j]] \in prompts
  BY <1>1 DEF Steady
<1>4. \A j \in 1 .. Len(Plan) : entry[Plan[j]] \in Files /\ entry[Plan[j]] # Gone
  BY <1>2, FilesAssumption DEF Resolved
<1> QED
  BY <1>1, <1>2, <1>3, <1>4 DEF Resolved, EntriesInOrder

LEMMA PreflightStep ==
    Typed /\ Places /\ Steady /\ Preflight /\ [Next]_vars => Preflight'
<1> SUFFICES ASSUME Control, Local, Places, Steady, Preflight, [Next]_vars
             PROVE  Preflight'
  BY DEF Typed
<1>1. CASE LoadHost
  <2>1. UNCHANGED <<config, files, stage, profile>> /\ pc = "host"
    BY <1>1 DEF LoadHost, control
  <2>2. CASE pc' = "bindings" /\ readiness' = readiness
    BY <2>1, <2>2, OrderKept DEF Preflight, HasPassed, files
  <2>3. CASE stage = "preflight" /\ \E e : Blocks(e)
    BY <2>1, <2>3, ThrowsPreflight DEF Throws
  <2>4. CASE stage # "preflight" /\ pc' = "ended" /\ readiness' = readiness
    BY <2>1, <2>4, LaterPreflight
  <2> QED
    BY <1>1, <2>2, <2>3, <2>4 DEF LoadHost, Continues, Goto, results
<1>2. CASE Bindings
  <2>1. UNCHANGED <<config, files, stage, profile>> /\ pc = "bindings"
    BY <1>2 DEF Bindings
  <2>2. CASE \E e : Throws(e)
    BY <2>1, <2>2, ThrowsPreflight
  <2>3. CASE /\ condition \in {"ok", "hookless", "unmapped"} /\ Unregistered = {}
             /\ pc' = "walk" /\ readiness' = readiness
    <3>1. CASE stage = "preflight"
      <4>1. HostInOrder
        BY <2>3, <3>1 DEF Unregistered, HostInOrder
      <4>2. ~HasPassed /\ profile = 1
        BY <2>1, <3>1 DEF Preflight
      <4> QED
        BY <2>1, <2>3, <3>1, <4>1, <4>2, OrderKept DEF Preflight, HasPassed
    <3>2. CASE stage # "preflight"
      BY <2>1, <2>3, <3>2, LaterPreflight
    <3> QED
      BY <3>1, <3>2
  <2> QED
    BY <1>2, <2>2, <2>3 DEF Bindings, NotReady, Continues, Goto, results
<1>3. CASE Walk
  <2>1. UNCHANGED <<config, files, stage, profile>> /\ pc = "walk"
    BY <1>3 DEF Walk
  <2>2. CASE \E e : Throws(e)
    BY <2>1, <2>2, ThrowsPreflight
  <2>3. CASE pc' = pc /\ readiness' = readiness
    BY <2>1, <2>3, OrderKept DEF Preflight, HasPassed, files
  <2> QED
    BY <1>3, <2>2, <2>3, WalkStep DEF BadEntry, NotReady, results
<1>4. CASE Walked
  <2>1. /\ UNCHANGED <<config, files, profile, readiness>> /\ pc = "walk"
        /\ at \notin DOMAIN Plan
    BY <1>4 DEF Walked, results
  <2>2. CASE stage = "preflight" /\ pc' = "resources" /\ stage' = stage
    <3>1. moves = 0 => EntriesInOrder(profile)
      BY <2>1, WalkedInOrder
    <3> QED
      BY <2>1, <2>2, <3>1, OrderKept DEF Preflight, HasPassed, files
  <2>3. CASE stage' # "preflight" /\ pc' \in {"bindings", "configure", "walk", "open"}
    BY <2>1, <2>3, LaterPreflight
  <2> QED
    BY <1>4, <2>2, <2>3 DEF Walked, Goto
<1>5. CASE Resources
  <2>1. UNCHANGED <<config, files, stage>> /\ pc = "resources" /\ stage = "preflight"
    BY <1>5 DEF Resources, Control
  <2>2. CASE \E e : Throws(e)
    BY <2>1, <2>2, ThrowsPreflight
  <2>3. CASE /\ IsLast(profile) /\ pc' = "launcher" /\ UNCHANGED <<profile, readiness>>
    <3>1. moves = 0 => \A i \in DOMAIN Profiles : EntriesInOrder(i)
      <4>1. \A i \in DOMAIN Profiles : i = profile \/ i \in 1 .. profile - 1
        BY <2>3, ProfilesTyped DEF IsLast, Control
      <4> QED
        BY <2>1, <4>1 DEF Preflight
    <3> QED
      BY <2>1, <2>3, <3>1, OrderKept DEF Preflight, HasPassed, files
  <2>4. CASE pc' = "walk" /\ profile' = profile + 1 /\ readiness' = readiness
    <3>1. moves = 0 => \A i \in 1 .. profile' - 1 : EntriesInOrder(i)
      <4>1. \A i \in 1 .. profile' - 1 : i = profile \/ i \in 1 .. profile - 1
        BY <2>4, ProfilesTyped DEF Control
      <4> QED
        BY <2>1, <4>1 DEF Preflight
    <3> QED
      BY <2>1, <2>4, <3>1, OrderKept DEF Preflight, HasPassed, files
  <2> QED
    BY <1>5, <2>2, <2>3, <2>4 DEF Resources, NotReady, Continues, Goto, results
<1>6. CASE Launcher
  <2>1. UNCHANGED <<config, files, stage>> /\ pc = "launcher" /\ stage = "preflight"
    BY <1>6 DEF Launcher, control, Control
  <2>2. CASE pc' = "checked"
    BY <2>1, <2>2, OrderKept DEF Preflight, files
  <2>3. CASE \E e : Blocks(e)
    BY <2>1, <2>3, ThrowsPreflight DEF Throws
  <2> QED
    BY <1>6, <2>2, <2>3 DEF Launcher, Goto
<1>7. CASE Invoke
  BY <1>7, LaterPreflight DEF Invoke, Goto, results
<1>8. CASE Configure \/ Create \/ Select \/ Open
  <2>1. UNCHANGED <<config, files>> /\ stage # "preflight" /\ stage' # "preflight"
    BY <1>8 DEF Configure, Create, Select, Open, control, Control
  <2>2. CASE \E e : Throws(e)
    BY <2>1, <2>2, ThrowsReadiness, LaterPreflight
  <2>3. CASE readiness' = readiness /\ pc' \in {"create", "walk", "initialize"}
    BY <2>1, <2>3, LaterPreflight
  <2> QED
    BY <1>8, <2>2, <2>3 DEF Configure, Create, Select, Open, Continues, Goto, results
<1>9. CASE HandleStep
  <2>1. UNCHANGED <<config, files, readiness, stage>> /\ stage # "preflight"
    BY <1>9 DEF HandleStep, Initialize, Load, CreateSession, Bind, Consume, Run, Close, Closing,
       WriteFails, ExtensionReports, handleVars, control, results, Control, HandleSteps, OpenSteps
  <2>2. pc' \in HandleSteps \cup {"ended"}
    BY <1>9 DEF HandleStep, Initialize, Load, CreateSession, Bind, Consume, Run, Close, Closing,
       WriteFails, ExtensionReports, Settles, Advances, Raises, Goto, HandleSteps, OpenSteps,
       CloseSteps
  <2> QED
    BY <2>1, <2>2, LaterPreflight DEF HandleSteps, OpenSteps, CloseSteps
<1>10. CASE \E path \in Paths : Move(path)
  <2>1. UNCHANGED <<config, pc, stage, profile, readiness>> /\ moves' # 0
    BY <1>10 DEF Move, control, results, Local
  <2>2. HostInOrder' <=> HostInOrder
    BY <2>1 DEF HostInOrder, config
  <2> QED
    BY <2>1, <2>2 DEF Preflight, HasPassed
<1>11. CASE UNCHANGED vars
  BY <1>11, OrderKept DEF vars, control, results, Preflight, HasPassed, files
<1> QED
  BY <1>1, <1>2, <1>3, <1>4, <1>5, <1>6, <1>7, <1>8, <1>9, <1>10, <1>11 DEF Next, HandleStep

(* What is left of an early step that ends an invocation: a failure which is *)
(* not that of a check.                                                      *)
LEMMA StopsUnchecked ==
    ASSUME NEW where, NEW who, NEW reason, Stops(where, who, "none", reason), pc' = "ended"
    PROVE  reported'.check = "none"
BY DEF Stops, Tells, Met

LEMMA WalkPasses ==
    ASSUME Control, Local, Places, Steady, Preflight, HasPassed, moves = 0, Walk
    PROVE  pc' = "walk"
<1> DEFINE p == Plan[at]  path == target[entry[p]]
<1>1. pc = "walk" /\ at \in 1 .. Len(Plan) /\ p \in Plugins /\ Plan = Profiles[profile]
  BY WalkStep DEF Plan
<1>2. EntriesInOrder(profile) /\ DOMAIN Plan = 1 .. Len(Plan)
  BY PlanTyped DEF Preflight, Control
<1>3. /\ target[RegisteredEntry(p)] # Gone /\ key[p] \in prompts
      /\ entry[p] \in {RegisteredEntry(p), target[RegisteredEntry(p)]}
  BY <1>1, <1>2 DEF EntriesInOrder, Steady
<1>4. path = target[RegisteredEntry(p)] /\ path \in Files
  BY <1>1, <1>3, EntriesSettle
<1>5. path \notin entries
  <2> SUFFICES ASSUME path \in entries PROVE FALSE
    OBVIOUS
  <2>1. PICK j \in 1 .. at - 1 : path = entry[Plan[j]]
    BY <1>1 DEF Places
  <2>2. path = target[RegisteredEntry(Plan[j])]
    BY <1>1, <2>1 DEF Steady
  <2>3. j \in DOMAIN Plan /\ at \in DOMAIN Plan /\ j # at
    BY <1>1, <1>2, PlanTyped DEF Control
  <2> QED
    BY <1>1, <1>2, <1>4, <2>2, <2>3 DEF EntriesInOrder
<1>6. path # Gone
  BY <1>4, FilesAssumption
<1> QED
  BY <1>1, <1>3, <1>5, <1>6 DEF Walk, IsTaken

LEMMA CloseUnchecked ==
    ASSUME Control, Told, Closing
    PROVE  reported'.check = "none"
<1>1. pc = "closing" /\ pc' = "ended" /\ failures \in Seq(Failures)
      /\ \A f \in Failures : f.check = "none"
  BY DEF Closing, Settles, Goto, Told, HandleSteps, CloseSteps
<1>2. \A f \in Failures' : f.check = "none"
  <2>1. CASE ~open
    BY <1>1, <2>1 DEF Closing, Failures
  <2>2. CASE open
    <3>1. PICK emits \in BOOLEAN, disposes \in BOOLEAN :
             failures' = failures
                \o (IF emits THEN <<>> ELSE <<Cleanup("shutdown", "NATIVE_EXECUTION_FAILED")>>)
                \o (IF ~rejected THEN <<>>
                    ELSE <<Cleanup("finalization", "GOVERNANCE_STORAGE_FAILED")>>)
                \o (IF disposes THEN <<>>
                    ELSE <<Cleanup("disposal", "NATIVE_EXECUTION_FAILED")>>)
      BY <2>2 DEF Closing
    <3>2. Failures' = Failures \cup Cleanups(emits, disposes)
      BY <1>1, <3>1, CleanupsRecorded
    <3>3. \A f \in Cleanups(emits, disposes) : f.check = "none"
      BY DEF Cleanups, Cleanup
    <3> QED
      BY <1>1, <3>2, <3>3
  <2> QED
    BY <2>1, <2>2
<1>3. CASE reported' = NoDiagnostic
  BY <1>3, NoDiagnosticShape
<1>4. CASE reported' # NoDiagnostic
  <2>1. \E f \in Failures' : Tells(reported', f)
    BY <1>1, <1>4, ClosingTold DEF Reported, ReportIsAFailure, Tells
  <2> QED
    BY <1>2, <2>1 DEF Tells
<1> QED
  BY <1>3, <1>4

LEMMA ProductionStep ==
    /\ Typed /\ Places /\ Steady /\ Told /\ Preflight
    /\ PreflightIsProductionCheck /\ [Next]_vars
    => PreflightIsProductionCheck'
<1> SUFFICES ASSUME Control, Local, Places, Steady, Told, Preflight,
                    PreflightIsProductionCheck, [Next]_vars,
                    pc' = "ended", HasPassed', moves' = 0
             PROVE  reported'.check = "none"
  BY DEF Typed, PreflightIsProductionCheck, HasPassed
<1> USE DEF EarlySteps
<1>1. ASSUME NEW e, Throws(e)
      PROVE  stage # "preflight" /\ readiness' = readiness /\ HasPassed
  BY <1>1, ThrowsReadiness DEF HasPassed
<1>2. CASE LoadHost
  <2>1. condition \in {"host-import", "host-contract"} /\ HasPassed
    BY <1>2 DEF LoadHost, Blocks, Continues, Goto, HasPassed
  <2> QED
    BY <2>1 DEF Preflight, HostInOrder
<1>3. CASE Bindings
  <2>1. pc = "bindings" /\ UNCHANGED <<stage, session>> /\ pc \in EarlySteps
        /\ Selected \subseteq Plugins
    BY <1>3, PlanTyped DEF Bindings, Control
  <2>2. \E e : Throws(e)
    BY <1>3 DEF Bindings, NotReady, Continues, Goto
  <2>3. HostInOrder /\ stage # "preflight"
    BY <1>1, <2>2 DEF Preflight
  <2>4. Throws(Unavailable) /\ Failed(Boundary, "none", "none", "HOST_UNAVAILABLE")
    BY <1>3, <2>1, <2>3 DEF Bindings, HostInOrder, Unregistered, Continues, Goto
  <2> QED
    BY <2>1, <2>3, <2>4, FailuresSay, UnannotatedStops, StopsUnchecked
<1>4. CASE Walk
  <2>1. moves = 0 /\ \E e : Throws(e)
    BY <1>4, WalkStep DEF Walk, files, BadEntry
  <2> QED
    BY <1>1, <1>4, <2>1, WalkPasses
<1>5. CASE Walked \/ Invoke
  BY <1>5 DEF Walked, Invoke, Goto
<1>6. CASE Resources \/ Launcher
  <2>1. stage = "preflight" /\ ((\E e : Throws(e)) \/ pc' \in {"launcher", "walk", "checked"})
    BY <1>6 DEF Resources, Launcher, NotReady, Continues, Goto, Control, Throws
  <2> QED
    BY <1>1, <2>1
<1>7. CASE Configure
  <2>1. /\ UNCHANGED <<stage, session>> /\ pc \in EarlySteps /\ stage # "preflight"
    BY <1>7 DEF Configure, control, Control
  <2> QED
    BY <1>7, <2>1, ThrownSays, AnnotatedStops, StopsUnchecked DEF Configure, Continues, Goto
<1>8. CASE Create
  <2>1. /\ UNCHANGED <<stage, session>> /\ pc = "create" /\ stage # "preflight"
    BY <1>8 DEF Create, Control
  <2> QED
    BY <1>8, <2>1, ThrownSays, AnnotatedStops, StopsUnchecked DEF Create
<1>9. CASE Select
  <2>1. /\ pc = "create" /\ stage = "launch" /\ UNCHANGED session
    BY <1>9 DEF Select, Control
  <2>2. stage' = stage /\ \E e, reason :
                Says(e, reason) /\ Throws(e) /\ Failed("host-launch", "none", "none", reason)
    BY <1>9, PlainSays, FailuresSay DEF Select, Continues, Goto
  <2>3. Boundary = "host-launch"
    BY <2>1 DEF Boundary
  <2> QED
    BY <2>1, <2>2, <2>3, UnannotatedStops, StopsUnchecked
<1>10. CASE Open
  <2>1. UNCHANGED <<stage, session>> /\ pc \in EarlySteps /\ stage # "preflight"
    BY <1>10 DEF Open, control, Control
  <2> QED
    BY <1>10, <2>1, PlainSays, AnnotatedStops, StopsUnchecked DEF Open, Continues, Goto
<1>11. CASE Closing
  BY <1>11, CloseUnchecked
<1>12. CASE /\ HandleStep /\ ~Closing
  BY <1>12 DEF HandleStep, Initialize, Load, CreateSession, Bind, Consume, Run, Close,
     WriteFails, ExtensionReports, Advances, Raises, Goto
<1>13. CASE \E path \in Paths : Move(path)
  BY <1>13 DEF Move
<1>14. CASE UNCHANGED vars
  BY <1>14 DEF vars, files, results, PreflightIsProductionCheck, HasPassed
<1> QED
  BY <1>2, <1>3, <1>4, <1>5, <1>6, <1>7, <1>8, <1>9, <1>10, <1>11, <1>12, <1>13, <1>14
  DEF Next, HandleStep

(* What the check of an entry passed, an invocation of any Profile passes,   *)
(* for any Application and local configuration, as long as no entry moves.   *)
THEOREM PreflightIsProductionCheckAlways == Spec => []PreflightIsProductionCheck
<1> DEFINE Inv == /\ Typed /\ Places /\ Steady /\ Told /\ Reported /\ Preflight
                  /\ PreflightIsProductionCheck
<1>1. Init => Inv
  BY TypedInit, PlacesInit, SteadyInit, ToldInit, PreflightInit
<1>2. Inv /\ [Next]_vars => Inv'
  <2>1. Typed /\ [Next]_vars => Typed'
    BY LocalStep, ControlStep DEF Typed
  <2> QED
    BY <2>1, PlacesStep, SteadyStep, ToldStep, PreflightStep, ProductionStep
<1> QED
  BY <1>1, <1>2, PTL DEF Spec
=============================================================================
