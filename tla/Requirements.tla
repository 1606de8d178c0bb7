---------------------------- MODULE Requirements ----------------------------
(***************************************************************************)
(* From a request to the inputs of a Session (container-core):             *)
(* invocationRequirements and requestSchema (invocation.ts), the advisory  *)
(* check() of an Agent client (agent.ts), and the three resolutions of an  *)
(* invocation: prepareSession, executeSession's comparison of plans, and   *)
(* startSession's comparison with the bindings it records.                 *)
(*                                                                         *)
(* Every resolveArtifact reads the registry anew, and other Sessions       *)
(* publish in between.  What a matching Artifact must show, its type,      *)
(* version, assertion and producer, is one member of Facts.                *)
(***************************************************************************)
EXTENDS Naturals, Sequences

CONSTANTS
    Ids,            \* Artifact ids
    Facts,          \* type, version, assertion status and producer
    Names,          \* input names
    Values,         \* values of request.data
    Profiles,       \* the entries of the Application
    Requests,       \* the requests a caller may make
    NoId, NoName, NoData

Requirement == [accepts : SUBSET Facts, pin : Ids \cup {NoId},
                name : Names \cup {NoName}]

NamesOf(requirements) == {requirements[i].name : i \in DOMAIN requirements} \ {NoName}

\* As validateApplication leaves them: one requirement per name, and a data
\* contract only with request_mapping v1.
ASSUME ProfilesAssumption ==
    \A p \in Profiles :
        /\ p.v1 \in BOOLEAN /\ p.required \in BOOLEAN
        /\ p.values \subseteq Values    \* all of them without a data_schema
        /\ p.required => p.v1
        /\ p.requirements \in Seq(Requirement)
        /\ \A i, j \in DOMAIN p.requirements :
              p.requirements[i].name = p.requirements[j].name
                  => i = j \/ p.requirements[i].name = NoName
ASSUME RequestsAssumption ==
    \A r \in Requests :
        /\ r.instruction \in BOOLEAN
        /\ r.data \in Values \cup {NoData}
        /\ \E named \in SUBSET Names : r.inputs \in [named -> Ids]
ASSUME NoValueAssumption == NoId \notin Ids /\ NoName \notin Names /\ NoData \notin Values

VARIABLES
    profile, request,
    registry,       \* artifacts.jsonl
    pc,
    listing,        \* check's own listArtifacts
    inputs,         \* check's report on each requirement
    blockers,       \* the stages at which check found a blocker
    native,         \* check's native_preflight.status
    plan,           \* the resolution in progress
    agreed          \* the SessionPlan of invoke, then the recorded bindings

vars == <<profile, request, registry, pc, listing, inputs, blockers, native,
          plan, agreed>>

Records == [id : Ids, facts : Facts]
Inputs == [id : Ids \cup {NoId}, candidates : SUBSET Ids]

TypeOK ==
    /\ profile \in Profiles
    /\ request \in Requests
    /\ registry \in Seq(Records)
    /\ pc \in {"ready", "list", "inputs", "plan", "bindings", "preflight", "checked",
               "prepare", "revalidate", "start", "started", "refused"}
    /\ listing \in Seq(Records)
    /\ inputs \in Seq(Inputs)
    /\ blockers \subseteq {"input", "host-delivery", "host-bindings", "native-preflight"}
    /\ native \in {"not-checked", "passed", "failed"}
    /\ plan \in Seq(Ids)
    /\ agreed \in Seq(Ids)

Init ==
    /\ profile \in Profiles
    /\ request \in Requests
    /\ registry = <<>>
    /\ pc = "ready"
    /\ listing = <<>>
    /\ inputs = <<>>
    /\ blockers = {}
    /\ native = "not-checked"
    /\ plan = <<>>
    /\ agreed = <<>>

-----------------------------------------------------------------------------
Named(requirement) ==
    requirement.name # NoName /\ requirement.name \in DOMAIN request.inputs

(* invocationRequirements: the checks ... *)
OverridesPins == TRUE       \* mutant: the pin is not compared

KeepsPins ==
    \A i \in DOMAIN profile.requirements :
        LET r == profile.requirements[i] IN
        Named(r) => r.pin \in {NoId, request.inputs[r.name]}

Accepted ==
    /\ profile.required => request.data # NoData
    /\ request.instruction \/ request.data # NoData => profile.v1
    /\ request.data # NoData => request.data \in profile.values
    /\ DOMAIN request.inputs \subseteq NamesOf(profile.requirements)
    /\ KeepsPins

(* ... and the projection of the named references onto the requirements.     *)
IgnoresNames(requirement) == requirement      \* mutant: inputs are dropped

WithSelection(requirement) ==
    IF Named(requirement)
       THEN [requirement EXCEPT !.pin = request.inputs[requirement.name]]
       ELSE requirement

Effective == [i \in DOMAIN profile.requirements |-> WithSelection(profile.requirements[i])]

(* requestSchema, the JSON Schema that describe() returns for the entry, and *)
(* what it accepts.                                                          *)
PropertySchema(name) ==
    LET r == CHOOSE r \in {profile.requirements[i] : i \in DOMAIN profile.requirements} :
                 r.name = name
    IN IF r.pin = NoId THEN Ids ELSE {r.pin}

SchemaAccepts ==
    /\ profile.required => request.data # NoData
    /\ request.instruction => profile.v1
    /\ request.data # NoData => profile.v1 /\ request.data \in profile.values
    /\ \A name \in DOMAIN request.inputs :
          /\ name \in NamesOf(profile.requirements)
          /\ request.inputs[name] \in PropertySchema(name)

(* matchesArtifact. *)
AnyIdentity(record, requirement) == record.facts \in requirement.accepts  \* mutant

Matches(record, requirement) ==
    /\ record.facts \in requirement.accepts
    /\ requirement.pin \in {NoId, record.id}

Found(records, requirement) ==
    {records[i].id : i \in {j \in DOMAIN records : Matches(records[j], requirement)}}

TakesLatest(requirement) ==     \* mutant: the last match instead of a conflict
    LET found == {j \in DOMAIN registry : Matches(registry[j], requirement)}
    IN {registry[j].id : j \in {k \in found : \A l \in found : l <= k}}

(* resolveArtifact: the id that is the only match.  There is none when it    *)
(* throws PreconditionNotSatisfied (no match) or BindingConflict (several).  *)
Resolved(requirement) == {id \in Ids : Found(registry, requirement) = {id}}

-----------------------------------------------------------------------------
Goto(step) == pc' = step

(* Another Session publishes; its id is new.                                 *)
Publish ==
    /\ \E id \in Ids, facts \in Facts :
          /\ \A i \in DOMAIN registry : registry[i].id # id
          /\ registry' = Append(registry, [id |-> id, facts |-> facts])
    /\ UNCHANGED <<profile, request, pc, listing, inputs, blockers, native, plan, agreed>>

(* requestCopy at the start of check and of invoke.                          *)
Refuse ==
    /\ pc = "ready"
    /\ ~Accepted
    /\ Goto("refused")
    /\ UNCHANGED <<profile, request, registry, listing, inputs, blockers, native, plan, agreed>>

BeginCheck ==
    /\ pc \in {"ready", "checked"}
    /\ Accepted
    /\ inputs' = <<>> /\ blockers' = {} /\ native' = "not-checked" /\ plan' = <<>>
    /\ Goto("list")
    /\ UNCHANGED <<profile, request, registry, listing, agreed>>

List ==
    /\ pc = "list"
    /\ listing' = registry
    /\ Goto("inputs")
    /\ UNCHANGED <<profile, request, registry, inputs, blockers, native, plan, agreed>>

AnyOfKind(requirement) ==   \* mutant: candidates by type alone
    {listing[i].id : i \in {j \in DOMAIN listing : listing[j].facts \in requirement.accepts}}

Candidates(requirement) == Found(listing, requirement)

(* One requirement: candidates from the listing, status from a new reading.  *)
CheckInput ==
    /\ pc = "inputs"
    /\ Len(inputs) < Len(Effective)
    /\ LET requirement == Effective[Len(inputs) + 1]
           resolved == Resolved(requirement)
       IN /\ \E id \in IF resolved = {} THEN {NoId} ELSE resolved :
                inputs' = Append(inputs, [id |-> id, candidates |-> Candidates(requirement)])
          /\ blockers' = IF resolved = {} THEN blockers \cup {"input"} ELSE blockers
    /\ UNCHANGED <<profile, request, registry, pc, listing, native, plan, agreed>>

(* Without a declared host, or with a blocked input, the host is not asked.  *)
CheckDelivery ==
    /\ pc = "inputs"
    /\ Len(inputs) = Len(Effective)
    /\ \/ Goto(IF blockers = {} THEN "plan" ELSE "checked") /\ UNCHANGED blockers
       \/ Goto("checked") /\ blockers' = blockers \cup {"host-delivery"}
    /\ UNCHANGED <<profile, request, registry, listing, inputs, native, plan, agreed>>

(* checkBindings, where the binding has one.                                 *)
CheckBindings ==
    /\ pc = "bindings"
    /\ \/ Goto("preflight") /\ UNCHANGED blockers
       \/ Goto("checked") /\ blockers' = blockers \cup {"host-bindings"}
    /\ UNCHANGED <<profile, request, registry, listing, inputs, native, plan, agreed>>

(* Not requested; requested and passed; failed; or requested of a binding    *)
(* that has none, which is a blocker.                                        *)
Preflight ==
    /\ pc = "preflight"
    /\ \/ UNCHANGED <<blockers, native>>
       \/ native' = "passed" /\ UNCHANGED blockers
       \/ native' \in {"failed", "not-checked"}
          /\ blockers' = blockers \cup {"native-preflight"}
    /\ Goto("checked")
    /\ UNCHANGED <<profile, request, registry, listing, inputs, plan, agreed>>

BeginInvoke ==
    /\ pc \in {"ready", "checked"}
    /\ Accepted
    /\ plan' = <<>>
    /\ Goto("prepare")
    /\ UNCHANGED <<profile, request, registry, listing, inputs, blockers, native, agreed>>

Resolving == {"plan", "prepare", "revalidate", "start"}

(* A failed resolution ends the check, whose caller then has no report, or   *)
(* the invocation.                                                           *)
Fails == Goto(IF pc = "plan" THEN "checked" ELSE "refused")

(* The next requirement of a resolution.  startSession compares at once.     *)
ResolveNext ==
    /\ pc \in Resolving
    /\ Len(plan) < Len(Effective)
    /\ LET resolved == Resolved(Effective[Len(plan) + 1]) IN
       \/ \E id \in resolved :
             IF pc = "start" /\ id # agreed[Len(plan) + 1]
                THEN Fails /\ plan' = plan
                ELSE plan' = Append(plan, id) /\ pc' = pc
       \/ resolved = {} /\ Fails /\ plan' = plan
    /\ UNCHANGED <<profile, request, registry, listing, inputs, blockers, native, agreed>>

EndResolution ==
    /\ pc \in Resolving
    /\ Len(plan) = Len(Effective)
    /\ \/ pc = "plan" /\ Goto("bindings") /\ agreed' = agreed
       \/ pc = "prepare" /\ Goto("revalidate") /\ agreed' = plan
       \/ pc = "revalidate" /\ agreed' = agreed
          /\ Goto(IF plan = agreed THEN "start" ELSE "refused")
       \/ pc = "start" /\ Goto("started") /\ agreed' = agreed
    /\ plan' = <<>>
    /\ UNCHANGED <<profile, request, registry, listing, inputs, blockers, native>>

Next ==
    \/ Publish \/ Refuse \/ BeginCheck \/ List \/ CheckInput \/ CheckDelivery
    \/ CheckBindings \/ Preflight \/ BeginInvoke \/ ResolveNext \/ EndResolution

Spec == Init /\ [][Next]_vars

-----------------------------------------------------------------------------
Satisfied(i) == i \in DOMAIN inputs /\ inputs[i].id # NoId
Blocked(i) == i \in DOMAIN inputs /\ inputs[i].id = NoId

(* "Describe's request_schema defines the envelope and data shape"           *)
(* (AGENT_API.md): the schema accepts exactly the requests that check and    *)
(* invoke accept.                                                            *)
SchemaDescribesRequests == SchemaAccepts <=> Accepted

(* Whatever is published between a check, the plan of invoke and the record  *)
(* of the Session: an input that check reported as satisfied is the input    *)
(* the Session starts with, or the Session does not start.                   *)
NoSilentRebinding ==
    pc = "started" => \A i \in DOMAIN agreed : Satisfied(i) => agreed[i] = inputs[i].id

(* What the request names and what the profile pins is what a Session starts *)
(* with, and it shows the facts the profile requires.                        *)
SelectionIsHonoured ==
    pc = "started" => \A i \in DOMAIN profile.requirements :
        LET r == profile.requirements[i] IN
        /\ Named(r) => agreed[i] = request.inputs[r.name]
        /\ r.pin \in {NoId, agreed[i]}
        /\ \E j \in DOMAIN registry :
              registry[j].id = agreed[i] /\ registry[j].facts \in r.accepts

(* Naming an input protects it: once satisfied, no publication takes it away *)
(* (an input selected by its facts alone can still become ambiguous).        *)
NamedInputsLast ==
    \A i \in DOMAIN inputs :
        Satisfied(i) /\ Effective[i].pin # NoId =>
            Found(registry, Effective[i]) = {inputs[i].id}

(* The candidates of a check, read before the status, agree with it: those   *)
(* of a satisfied input name no other Artifact, and a blocked input that     *)
(* shows candidates is ambiguous for good, so the request as it stands never *)
(* starts a Session.                                                         *)
CandidatesExplain ==
    \A i \in DOMAIN inputs :
        /\ Satisfied(i) => inputs[i].candidates \subseteq {inputs[i].id}
        /\ Blocked(i) /\ inputs[i].candidates # {} => pc # "started"
=============================================================================
