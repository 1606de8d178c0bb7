------------------------------ MODULE Diagnostics ------------------------------
(***************************************************************************)
(* Errors and their safe diagnostics (container-core, failure).  An error  *)
(* crosses several boundaries on its way to a record, and each boundary    *)
(* throws a new one.  What is known about it travels in 'trusted', a       *)
(* WeakMap of the process: here the field 'brand' of the error.  'claims'  *)
(* is what the object says about itself, which nobody may believe.         *)
(***************************************************************************)

Diagnostic(boundary, reason) ==
    [boundary |-> boundary, reason |-> reason, check |-> "none",
     plugin |-> "none", phase |-> "none"]

NoDiagnostic == Diagnostic("none", "none")

Error(code, brand) == [code |-> code, brand |-> brand, claims |-> NoDiagnostic]

\* Anything that is not a ContainerFailure, and one that says it was reviewed:
\* a clone, or an object read back from JSON.
Plain == Error("foreign", NoDiagnostic)
Forged(plugin) ==
    [Plain EXCEPT !.claims = [Diagnostic("domain", "FORGED") EXCEPT
                                 !.plugin = plugin, !.phase = "publication"]]

ContainerFailure(code) == Error(code, NoDiagnostic)

\* What registerSafeDiagnostics returns for one of its reason codes.
Registered(boundary, reason) ==
    Error(IF boundary = "artifact-input" THEN "InvalidRecord" ELSE "NativeExecutionFailed",
          Diagnostic(boundary, reason))

Or(value, default) == IF value # "none" THEN value ELSE default

BelievesProperties(e) ==    \* mutant: the diagnostic is read off the error
    IF e.claims # NoDiagnostic THEN e.claims ELSE e.brand

Trusted(e) == e.brand

HostReadinessFailure(check, plugin) ==
    Error("NativeIntegrationNotReady",
          [Diagnostic("host", "HOST_UNAVAILABLE") EXCEPT !.check = check, !.plugin = plugin])

OuterCheckWins(e, fallback, plugin) ==      \* mutant: the inner check is lost
    HostReadinessFailure(fallback, Or(Trusted(e).plugin, plugin))

SafeHostReadinessFailure(e, fallback, plugin) ==
    HostReadinessFailure(Or(Trusted(e).check, fallback), Or(Trusted(e).plugin, plugin))

Reason(code, boundary) ==
    CASE code = "StorageFailure"            -> "GOVERNANCE_STORAGE_FAILED"
      [] code = "PreconditionNotSatisfied"  -> "MISSING_DEPENDENCY"
      [] code = "BindingConflict"           -> "AMBIGUOUS_BINDING"
      [] code = "NativeIntegrationNotReady" -> "HOST_UNAVAILABLE"
      [] code = "InvalidRecord" /\ boundary = "governance-storage" -> "GOVERNANCE_RECORD_INVALID"
      [] code \in {"InvalidArguments", "InvalidRecord", "InvalidDefinition"} -> "REQUEST_REJECTED"
      [] OTHER -> IF boundary = "aspect" THEN "ASPECT_FAILED" ELSE "NATIVE_EXECUTION_FAILED"

DiagnosticFor(e, boundary) ==
    IF Trusted(e) # NoDiagnostic THEN Trusted(e)
    ELSE Diagnostic(IF e.code = "StorageFailure" THEN "governance-storage" ELSE boundary,
                    Reason(e.code, boundary))

ForgetsStorage(e) ==    \* mutant: every error becomes NativeExecutionFailed
    Error("NativeExecutionFailed", Trusted(e))

(* sanitizeNativeFailure: a new error without the text of the old one.       *)
Sanitize(e) ==
    LET code == IF e.code = "StorageFailure" THEN e.code ELSE "NativeExecutionFailed" IN
    IF Trusted(e) = NoDiagnostic /\ e.code = "NativeIntegrationNotReady"
       THEN Error(code, Diagnostic("host", "HOST_UNAVAILABLE"))
       ELSE Error(code, Trusted(e))

OutermostWins(e, phase, plugin) ==      \* mutant: every boundary annotates anew
    LET failure == Sanitize(e) IN
    Error(failure.code, [DiagnosticFor(failure, "native") EXCEPT
                            !.phase = phase, !.plugin = Or(plugin, @)])

(* safeNativeFailure with a context: "A more specific inner boundary         *)
(* survives outer wrapping."                                                 *)
SafeNativeFailure(e, phase, plugin) ==
    LET failure    == Sanitize(e)
        diagnostic == DiagnosticFor(failure, "native")
    IN  IF diagnostic.phase # "none" THEN failure
        ELSE Error(failure.code,
                   [diagnostic EXCEPT !.phase = phase, !.plugin = Or(plugin, @)])

NativeFailure == ContainerFailure("NativeExecutionFailed")
Unavailable == ContainerFailure("NativeIntegrationNotReady")
StorageFailure == ContainerFailure("StorageFailure")
=============================================================================
