------------------------- MODULE RequirementsProofs -------------------------
(***************************************************************************)
(* Proofs about Requirements, for any Artifacts, facts, entries and        *)
(* requests.  The registry only grows, so what matched once still matches: *)
(* IInv records of every report and every resolution that its choice is    *)
(* among the matches, and that a resolution agrees with the report.        *)
(***************************************************************************)
EXTENDS Requirements, TLAPS

BeforeInvoke == {"ready", "list", "inputs", "plan", "bindings", "preflight", "checked"}

\* Where each part of an operation stands.
Progress ==
    /\ pc \notin {"ready", "refused"} => Accepted
    /\ pc \in BeforeInvoke \cup {"prepare"} => agreed = <<>>
    /\ pc \in {"ready", "list", "inputs"} => plan = <<>>
    /\ Len(plan) <= Len(profile.requirements)
    /\ Len(inputs) <= Len(profile.requirements)
    /\ pc \in {"revalidate", "start", "started"} =>
          Len(agreed) = Len(profile.requirements)
    /\ Len(agreed) <= Len(profile.requirements)

\* The listing of a check is a beginning of the registry.
ListedIsRegistered ==
    \A j \in DOMAIN listing : j \in DOMAIN registry /\ listing[j] = registry[j]

Ambiguous(requirement) ==
    \E a, b \in Found(registry, requirement) : a # b

ReportIsFounded ==
    \A i \in DOMAIN inputs :
        /\ Satisfied(i) => /\ inputs[i].id \in Found(registry, Effective[i])
                           /\ inputs[i].candidates \subseteq {inputs[i].id}
        /\ Blocked(i) /\ inputs[i].candidates # {} => Ambiguous(Effective[i])

Founded(chosen) ==
    \A i \in DOMAIN chosen :
        /\ chosen[i] \in Found(registry, Effective[i])
        /\ Satisfied(i) => chosen[i] = inputs[i].id
        /\ Blocked(i) => inputs[i].candidates = {}

IInv ==
    /\ TypeOK
    /\ Progress
    /\ ListedIsRegistered
    /\ ReportIsFounded
    /\ Founded(plan)
    /\ Founded(agreed)
-----------------------------------------------------------------------------
LEMMA InitIInv == Init => IInv
<1> SUFFICES ASSUME Init PROVE IInv
    OBVIOUS
<1>1. Len(profile.requirements) \in Nat
      BY ProfilesAssumption DEF Init
<1>2. TypeOK
      BY DEF Init, TypeOK
<1>3. QED
      BY <1>1, <1>2 DEF Init, IInv, Progress, ListedIsRegistered, ReportIsFounded, Founded,
         BeforeInvoke

(* The requirements with the request's selection are as many as before.      *)
LEMMA EffectiveLength ==
    ASSUME TypeOK
    PROVE  /\ Len(profile.requirements) \in Nat
           /\ DOMAIN profile.requirements = 1 .. Len(profile.requirements)
           /\ DOMAIN Effective = 1 .. Len(profile.requirements)
           /\ Len(Effective) = Len(profile.requirements)
<1> DEFINE n == Len(profile.requirements)
           S == {Effective[i] : i \in 1 .. n}
<1>1. n \in Nat /\ DOMAIN profile.requirements = 1 .. n
      BY ProfilesAssumption DEF TypeOK
<1>2. Effective = [i \in 1 .. n |-> Effective[i]]
      BY <1>1 DEF Effective
<1>3. Effective \in [1 .. n -> S]
      BY <1>2
<1>4. Len(Effective) = n
      BY <1>1, <1>3
<1>5. QED
      BY <1>1, <1>2, <1>4

(* What matches is registered, and has an Artifact's identity.               *)
LEMMA FoundAreIds ==
    ASSUME NEW records \in Seq(Records), NEW requirement
    PROVE  Found(records, requirement) \subseteq Ids
<1> SUFFICES ASSUME NEW id \in Found(records, requirement) PROVE id \in Ids
    OBVIOUS
<1>1. PICK j \in DOMAIN records : id = records[j].id
      BY DEF Found
<1>2. records[j] \in Records
      BY <1>1
<1>3. QED
      BY <1>1, <1>2 DEF Records

(* A longer registry has what a shorter one had.                             *)
LEMMA FoundGrows ==
    ASSUME NEW shorter \in Seq(Records), NEW longer \in Seq(Records), NEW requirement,
           \A j \in DOMAIN shorter : j \in DOMAIN longer /\ longer[j] = shorter[j]
    PROVE  Found(shorter, requirement) \subseteq Found(longer, requirement)
BY DEF Found, Matches

LEMMA TypeStep == TypeOK /\ [Next]_vars => TypeOK'
<1> SUFFICES ASSUME TypeOK, [Next]_vars PROVE TypeOK'
    OBVIOUS
<1> USE DEF TypeOK, Goto
<1>1. CASE Publish
      BY <1>1 DEF Publish, Records
<1>2. CASE Refuse
      BY <1>2 DEF Refuse
<1>3. CASE BeginCheck
      BY <1>3 DEF BeginCheck
<1>4. CASE List
      BY <1>4 DEF List
<1>5. CASE CheckInput
  <2> DEFINE requirement == Effective[Len(inputs) + 1]
  <2>1. Candidates(requirement) \subseteq Ids /\ Resolved(requirement) \subseteq Ids
        BY FoundAreIds DEF Candidates, Resolved
  <2>2. PICK id \in Ids \cup {NoId} :
            inputs' = Append(inputs, [id |-> id, candidates |-> Candidates(requirement)])
        BY <1>5, <2>1 DEF CheckInput
  <2>3. [id |-> id, candidates |-> Candidates(requirement)] \in Inputs
        BY <2>1, <2>2 DEF Inputs
  <2>4. inputs' \in Seq(Inputs)
        BY <2>2, <2>3
  <2>5. QED
        BY <1>5, <2>4 DEF CheckInput
<1>6. CASE CheckDelivery
      BY <1>6 DEF CheckDelivery
<1>7. CASE CheckBindings
      BY <1>7 DEF CheckBindings
<1>8. CASE Preflight
      BY <1>8 DEF Preflight
<1>9. CASE BeginInvoke
      BY <1>9 DEF BeginInvoke
<1>10. CASE ResolveNext
  <2>1. plan' \in Seq(Ids)
    <3>1. CASE plan' = plan
          BY <3>1
    <3>2. CASE \E id \in Resolved(Effective[Len(plan) + 1]) : plan' = Append(plan, id)
          BY <3>2 DEF Resolved
    <3>3. QED
          BY <1>10, <3>1, <3>2 DEF ResolveNext
  <2>2. QED
        BY <1>10, <2>1 DEF ResolveNext, Fails, Resolving
<1>11. CASE EndResolution
      BY <1>11 DEF EndResolution
<1>12. CASE UNCHANGED vars
      BY <1>12 DEF vars
<1>13. QED
      BY <1>1, <1>2, <1>3, <1>4, <1>5, <1>6, <1>7, <1>8, <1>9, <1>10, <1>11, <1>12 DEF Next

(* Nothing but the registry, and check's and invoke's own state, changes.    *)
LEMMA SameRequest ==
    ASSUME [Next]_vars
    PROVE  profile' = profile /\ request' = request /\ Effective' = Effective
<1>1. profile' = profile /\ request' = request
      BY DEF Next, vars, Publish, Refuse, BeginCheck, List, CheckInput, CheckDelivery,
         CheckBindings, Preflight, BeginInvoke, ResolveNext, EndResolution
<1>2. QED
      BY <1>1 DEF Effective, WithSelection, Named

LEMMA ProgressStep == TypeOK /\ Progress /\ [Next]_vars => Progress'
<1> SUFFICES ASSUME TypeOK, Progress, [Next]_vars PROVE Progress'
    OBVIOUS
<1> DEFINE n == Len(profile.requirements)
<1>a. n \in Nat /\ Len(Effective) = n
      BY EffectiveLength
<1>b. n' = n
      BY SameRequest
<1>c. Accepted' = Accepted
      BY SameRequest DEF Accepted, KeepsPins, Named, NamesOf
<1>d. Len(plan) \in Nat /\ Len(inputs) \in Nat /\ Len(agreed) \in Nat
      BY DEF TypeOK
<1> USE <1>a, <1>b, <1>c, <1>d DEF Progress, Goto, BeforeInvoke
<1>1. CASE Publish
      BY <1>1 DEF Publish
<1>2. CASE Refuse
      BY <1>2 DEF Refuse
<1>3. CASE BeginCheck
      BY <1>3 DEF BeginCheck
<1>4. CASE List
      BY <1>4 DEF List
<1>5. CASE CheckInput
  <2>1. Len(inputs') = Len(inputs) + 1
        BY <1>5 DEF CheckInput, TypeOK
  <2>2. QED
        BY <1>5, <2>1 DEF CheckInput
<1>6. CASE CheckDelivery
      BY <1>6 DEF CheckDelivery
<1>7. CASE CheckBindings
      BY <1>7 DEF CheckBindings
<1>8. CASE Preflight
      BY <1>8 DEF Preflight
<1>9. CASE BeginInvoke
      BY <1>9 DEF BeginInvoke
<1>10. CASE ResolveNext
  <2>1. Len(plan') \in {Len(plan), Len(plan) + 1}
        BY <1>10 DEF ResolveNext, TypeOK
  <2>2. QED
        BY <1>10, <2>1 DEF ResolveNext, Resolving, Fails
<1>11. CASE EndResolution
      BY <1>11 DEF EndResolution, Resolving
<1>12. CASE UNCHANGED vars
      BY <1>12 DEF vars
<1>13. QED
      BY <1>1, <1>2, <1>3, <1>4, <1>5, <1>6, <1>7, <1>8, <1>9, <1>10, <1>11, <1>12 DEF Next

LEMMA RegistryGrows ==
    ASSUME TypeOK, [Next]_vars
    PROVE  /\ \A j \in DOMAIN registry : j \in DOMAIN registry' /\ registry'[j] = registry[j]
           /\ \A requirement :
                 Found(registry, requirement) \subseteq Found(registry', requirement)
<1>1. TypeOK'
      BY TypeStep
<1>2. \A j \in DOMAIN registry : j \in DOMAIN registry' /\ registry'[j] = registry[j]
  <2>1. CASE Publish
        BY <2>1 DEF Publish, TypeOK, Records
  <2>2. CASE registry' = registry
        BY <2>2
  <2>3. QED
        BY <2>1, <2>2 DEF Next, vars, Refuse, BeginCheck, List, CheckInput, CheckDelivery,
           CheckBindings, Preflight, BeginInvoke, ResolveNext, EndResolution
<1>3. registry \in Seq(Records) /\ registry' \in Seq(Records)
      BY <1>1 DEF TypeOK
<1>4. QED
      BY <1>2, <1>3, FoundGrows

LEMMA ListedStep ==
    TypeOK /\ ListedIsRegistered /\ [Next]_vars => ListedIsRegistered'
<1> SUFFICES ASSUME TypeOK, ListedIsRegistered, [Next]_vars PROVE ListedIsRegistered'
    OBVIOUS
<1>1. CASE List
      BY <1>1 DEF List, ListedIsRegistered
<1>2. CASE listing' = listing
      BY <1>2, RegistryGrows DEF ListedIsRegistered
<1>3. QED
      BY <1>1, <1>2 DEF Next, vars, Publish, Refuse, BeginCheck, CheckInput, CheckDelivery,
         CheckBindings, Preflight, BeginInvoke, ResolveNext, EndResolution

(* The report of an input, once made, keeps its grounds.                     *)
LEMMA ReportStep ==
    TypeOK /\ Progress /\ ListedIsRegistered /\ ReportIsFounded /\ [Next]_vars
        => ReportIsFounded'
<1> SUFFICES ASSUME TypeOK, Progress, ListedIsRegistered, ReportIsFounded, [Next]_vars
             PROVE  ReportIsFounded'
    OBVIOUS
<1>a. Effective' = Effective
      BY SameRequest
<1>b. \A requirement : Found(registry, requirement) \subseteq Found(registry, requirement)'
      BY RegistryGrows DEF Found, Matches
<1>1. CASE CheckInput
  <2> DEFINE i == Len(inputs) + 1
             requirement == Effective[i]
             found == Found(registry, requirement)
  <2>1. /\ registry' = registry
        /\ \E id \in IF Resolved(requirement) = {} THEN {NoId} ELSE Resolved(requirement) :
              inputs' = Append(inputs, [id |-> id, candidates |-> Candidates(requirement)])
        BY <1>1 DEF CheckInput
  <2>2. PICK id \in IF Resolved(requirement) = {} THEN {NoId} ELSE Resolved(requirement) :
              inputs' = Append(inputs, [id |-> id, candidates |-> Candidates(requirement)])
        BY <2>1
  <2>3. Candidates(requirement) \subseteq found
    <3>1. listing \in Seq(Records) /\ registry \in Seq(Records)
          BY DEF TypeOK
    <3>2. QED
          BY <3>1, FoundGrows DEF Candidates, ListedIsRegistered
  <2>4. found \subseteq Ids
        BY FoundAreIds DEF TypeOK
  <2>5. /\ id # NoId => found = {id}
        /\ id = NoId => ~ \E a \in Ids : found = {a}
        BY <2>2, NoValueAssumption DEF Resolved
  <2>6. id = NoId /\ Candidates(requirement) # {} => \E a, b \in found : a # b
        BY <2>3, <2>4, <2>5
  <2>7. /\ DOMAIN inputs' = 1 .. i
        /\ inputs'[i] = [id |-> id, candidates |-> Candidates(requirement)]
        /\ \A k \in 1 .. Len(inputs) : inputs'[k] = inputs[k]
        /\ DOMAIN inputs = 1 .. Len(inputs)
        BY <2>2 DEF TypeOK
  <2>8. ASSUME NEW k \in DOMAIN inputs'
        PROVE  /\ Satisfied(k)' => /\ inputs'[k].id \in Found(registry', Effective'[k])
                                   /\ inputs'[k].candidates \subseteq {inputs'[k].id}
               /\ Blocked(k)' /\ inputs'[k].candidates # {} =>
                     \E a, b \in Found(registry', Effective'[k]) : a # b
    <3>1. CASE k = i
          BY <3>1, <1>a, <2>1, <2>3, <2>5, <2>6, <2>7 DEF Satisfied, Blocked
    <3>2. CASE k \in 1 .. Len(inputs)
          BY <3>2, <1>a, <2>1, <2>7 DEF ReportIsFounded, Satisfied, Blocked, Ambiguous
    <3>3. Len(inputs) \in Nat
          BY DEF TypeOK
    <3>4. QED
          BY <2>7, <2>8, <3>1, <3>2, <3>3
  <2>9. QED
        BY <2>8 DEF ReportIsFounded, Ambiguous
<1>2. CASE BeginCheck
      BY <1>2 DEF BeginCheck, ReportIsFounded
<1>3. CASE inputs' = inputs
      BY <1>3, <1>a, <1>b DEF ReportIsFounded, Satisfied, Blocked, Ambiguous
<1>4. QED
      BY <1>1, <1>2, <1>3 DEF Next, vars, Publish, Refuse, List, CheckDelivery,
         CheckBindings, Preflight, BeginInvoke, ResolveNext, EndResolution

(* A resolution, once made, keeps its grounds and agrees with the report.    *)
LEMMA KeptFounded ==
    ASSUME TypeOK, [Next]_vars, inputs' = inputs, NEW chosen, Founded(chosen)
    PROVE  \A i \in DOMAIN chosen :
              /\ chosen[i] \in Found(registry', Effective'[i])
              /\ Satisfied(i)' => chosen[i] = inputs'[i].id
              /\ Blocked(i)' => inputs'[i].candidates = {}
BY SameRequest, RegistryGrows DEF Founded, Satisfied, Blocked

LEMMA NothingIsFounded ==
    ASSUME plan' = <<>>
    PROVE  Founded(plan)'
BY DEF Founded

LEMMA FoundedStep ==
    IInv /\ [Next]_vars => Founded(plan)' /\ Founded(agreed)'
<1> SUFFICES ASSUME IInv, [Next]_vars PROVE Founded(plan)' /\ Founded(agreed)'
    OBVIOUS
<1> USE DEF IInv
<1>1. CASE CheckInput
      BY <1>1 DEF CheckInput, Progress, BeforeInvoke, Founded
<1>2. CASE BeginCheck
      BY <1>2 DEF BeginCheck, Progress, BeforeInvoke, Founded
<1>3. CASE ResolveNext
  <2>1. inputs' = inputs /\ agreed' = agreed /\ registry' = registry /\ Effective' = Effective
        BY <1>3, SameRequest DEF ResolveNext
  <2>2. Founded(agreed)'
        BY <2>1, KeptFounded DEF Founded
  <2>3. CASE plan' = plan
        BY <2>1, <2>3, KeptFounded DEF Founded
  <2>4. ASSUME NEW id \in Resolved(Effective[Len(plan) + 1]), plan' = Append(plan, id)
        PROVE  Founded(plan)'
    <3> DEFINE i == Len(plan) + 1
    <3>1. Found(registry, Effective[i]) = {id}
          BY <2>4 DEF Resolved
    <3>2. /\ Satisfied(i) => inputs[i].id = id
          /\ Blocked(i) => inputs[i].candidates = {}
          BY <3>1 DEF ReportIsFounded, Satisfied, Blocked, Ambiguous
    <3>3. /\ DOMAIN plan' = 1 .. i
          /\ plan'[i] = id
          /\ DOMAIN plan = 1 .. Len(plan) /\ Len(plan) \in Nat
          /\ \A k \in 1 .. Len(plan) : plan'[k] = plan[k]
          BY <2>4, FoundAreIds DEF TypeOK, Resolved
    <3>4. ASSUME NEW k \in DOMAIN plan'
          PROVE  /\ plan'[k] \in Found(registry', Effective'[k])
                 /\ Satisfied(k)' => plan'[k] = inputs'[k].id
                 /\ Blocked(k)' => inputs'[k].candidates = {}
      <4>1. CASE k = i
            BY <4>1, <2>1, <3>1, <3>2, <3>3 DEF Satisfied, Blocked
      <4>2. CASE k \in 1 .. Len(plan)
            BY <4>2, <2>1, <3>3 DEF Founded, Satisfied, Blocked
      <4>3. QED
            BY <3>3, <3>4, <4>1, <4>2
    <3>5. QED
          BY <3>4 DEF Founded
  <2>5. QED
        BY <1>3, <2>2, <2>3, <2>4 DEF ResolveNext
<1>4. CASE EndResolution
  <2>1. inputs' = inputs /\ plan' = <<>> /\ agreed' \in {plan, agreed}
        BY <1>4 DEF EndResolution
  <2>2. Founded(plan)'
        BY <2>1, NothingIsFounded
  <2>3. Founded(agreed)'
    <3>1. CASE agreed' = plan
          BY <2>1, <3>1, KeptFounded DEF Founded
    <3>2. CASE agreed' = agreed
          BY <2>1, <3>2, KeptFounded DEF Founded
    <3>3. QED
          BY <2>1, <3>1, <3>2
  <2>4. QED
        BY <2>2, <2>3
<1>5. CASE inputs' = inputs /\ plan' \in {plan, <<>>} /\ agreed' = agreed
  <2>1. Founded(agreed)'
        BY <1>5, KeptFounded DEF Founded
  <2>2. CASE plan' = plan
        BY <1>5, <2>2, KeptFounded DEF Founded
  <2>3. CASE plan' = <<>>
        BY <2>1, <2>3, NothingIsFounded
  <2>4. QED
        BY <1>5, <2>1, <2>2, <2>3
<1>6. QED
      BY <1>1, <1>2, <1>3, <1>4, <1>5 DEF Next, vars, Publish, Refuse, List, CheckDelivery,
         CheckBindings, Preflight, BeginInvoke

LEMMA StepIInv == IInv /\ [Next]_vars => IInv'
BY TypeStep, ProgressStep, ListedStep, ReportStep, FoundedStep DEF IInv

LEMMA AlwaysIInv == Spec => []IInv
BY InitIInv, StepIInv, PTL DEF Spec

-----------------------------------------------------------------------------
(* The state of a check or an invocation always has its type.                *)
THEOREM RequirementsTypeCorrect == Spec => []TypeOK
<1>1. IInv => TypeOK
      BY DEF IInv
<1>2. QED
      BY <1>1, AlwaysIInv, PTL

(* An input that check reported as satisfied is never replaced by another:   *)
(* a Session starts with it or not at all.                                   *)
THEOREM NoSilentRebindingAlways == Spec => []NoSilentRebinding
<1>1. IInv => NoSilentRebinding
      BY DEF IInv, Founded, NoSilentRebinding
<1>2. QED
      BY <1>1, AlwaysIInv, PTL

(* A satisfied input whose identity is given stays the only match for good.  *)
THEOREM NamedInputsLastAlways == Spec => []NamedInputsLast
<1>1. ASSUME IInv, NEW i \in DOMAIN inputs, Satisfied(i), Effective[i].pin # NoId
      PROVE  Found(registry, Effective[i]) = {inputs[i].id}
  <2>1. inputs[i].id \in Found(registry, Effective[i])
        BY <1>1 DEF IInv, ReportIsFounded
  <2>2. \A id \in Found(registry, Effective[i]) : id = Effective[i].pin
        BY <1>1 DEF Found, Matches
  <2>3. QED
        BY <2>1, <2>2
<1>2. IInv => NamedInputsLast
      BY <1>1 DEF NamedInputsLast
<1>3. QED
      BY <1>2, AlwaysIInv, PTL

(* What the request names and the profile pins is what a Session starts with.*)
THEOREM SelectionIsHonouredAlways == Spec => []SelectionIsHonoured
<1>1. ASSUME IInv, pc = "started", NEW i \in DOMAIN profile.requirements
      PROVE  LET r == profile.requirements[i] IN
             /\ Named(r) => agreed[i] = request.inputs[r.name]
             /\ r.pin \in {NoId, agreed[i]}
             /\ \E j \in DOMAIN registry :
                   registry[j].id = agreed[i] /\ registry[j].facts \in r.accepts
  <2> DEFINE r == profile.requirements[i]
  <2>1. i \in DOMAIN agreed
        BY <1>1, EffectiveLength DEF IInv, Progress, TypeOK
  <2>2. agreed[i] \in Found(registry, WithSelection(r))
        BY <1>1, <2>1 DEF IInv, Founded, Effective
  <2>3. PICK j \in DOMAIN registry :
            /\ registry[j].id = agreed[i]
            /\ registry[j].facts \in WithSelection(r).accepts
            /\ WithSelection(r).pin \in {NoId, agreed[i]}
        BY <2>2 DEF Found, Matches
  <2>4. r \in Requirement
        BY <1>1, ProfilesAssumption DEF IInv, TypeOK
  <2>5. CASE Named(r)
    <3>1. request.inputs[r.name] \in Ids
          BY <1>1, <2>5, RequestsAssumption DEF IInv, TypeOK, Named
    <3>2. /\ WithSelection(r).pin = request.inputs[r.name]
          /\ WithSelection(r).accepts = r.accepts
          BY <2>4, <2>5 DEF WithSelection, Requirement
    <3>3. agreed[i] = request.inputs[r.name]
          BY <2>3, <3>1, <3>2, NoValueAssumption
    <3>4. r.pin \in {NoId, request.inputs[r.name]}
          BY <1>1, <2>5 DEF IInv, Progress, Accepted, KeepsPins
    <3>5. QED
          BY <2>3, <3>2, <3>3, <3>4
  <2>6. CASE ~Named(r)
        BY <2>3, <2>6 DEF WithSelection
  <2>7. QED
        BY <2>5, <2>6
<1>2. IInv => SelectionIsHonoured
      BY <1>1 DEF SelectionIsHonoured
<1>3. QED
      BY <1>2, AlwaysIInv, PTL

(* The candidates of a report agree with its statuses.                       *)
THEOREM CandidatesExplainAlways == Spec => []CandidatesExplain
<1>1. ASSUME IInv, NEW i \in DOMAIN inputs
      PROVE  /\ Satisfied(i) => inputs[i].candidates \subseteq {inputs[i].id}
             /\ Blocked(i) /\ inputs[i].candidates # {} => pc # "started"
  <2>1. pc = "started" => i \in DOMAIN agreed
        BY <1>1, EffectiveLength DEF IInv, Progress, TypeOK
  <2>2. QED
        BY <1>1, <2>1 DEF IInv, ReportIsFounded, Founded
<1>2. IInv => CandidatesExplain
      BY <1>1 DEF CandidatesExplain
<1>3. QED
      BY <1>2, AlwaysIInv, PTL

(* request_schema accepts exactly the requests that check and invoke accept. *)
THEOREM SchemaDescribesRequestsAlways == Spec => []SchemaDescribesRequests
<1>1. ASSUME TypeOK, NEW i \in DOMAIN profile.requirements,
             profile.requirements[i].name # NoName
      PROVE  PropertySchema(profile.requirements[i].name) =
                 IF profile.requirements[i].pin = NoId THEN Ids
                 ELSE {profile.requirements[i].pin}
  <2>1. \A j \in DOMAIN profile.requirements :
            profile.requirements[j].name = profile.requirements[i].name => j = i
        BY <1>1, ProfilesAssumption DEF TypeOK
  <2>2. \A r \in {profile.requirements[j] : j \in DOMAIN profile.requirements} :
            r.name = profile.requirements[i].name => r = profile.requirements[i]
        BY <2>1
  <2>3. QED
        BY <2>2 DEF PropertySchema
<1>2. ASSUME TypeOK PROVE SchemaDescribesRequests
  <2>1. \A name \in DOMAIN request.inputs : request.inputs[name] \in Ids
        BY <1>2, RequestsAssumption DEF TypeOK
  <2>2. NoName \notin DOMAIN request.inputs
        BY <1>2, RequestsAssumption, NoValueAssumption DEF TypeOK
  <2>3. ASSUME DOMAIN request.inputs \subseteq NamesOf(profile.requirements)
        PROVE  KeepsPins <=> \A name \in DOMAIN request.inputs :
                                request.inputs[name] \in PropertySchema(name)
    <3>1. ASSUME KeepsPins, NEW name \in DOMAIN request.inputs
          PROVE  request.inputs[name] \in PropertySchema(name)
      <4>1. PICK i \in DOMAIN profile.requirements :
                profile.requirements[i].name = name /\ name # NoName
            BY <2>3, <3>1 DEF NamesOf
      <4>2. QED
            BY <1>1, <1>2, <2>1, <3>1, <4>1 DEF KeepsPins, Named
    <3>2. ASSUME \A name \in DOMAIN request.inputs :
                     request.inputs[name] \in PropertySchema(name)
          PROVE  KeepsPins
          BY <1>1, <1>2, <3>2 DEF KeepsPins, Named
    <3>3. QED
          BY <3>1, <3>2
  <2>4. QED
        BY <2>3 DEF SchemaDescribesRequests, SchemaAccepts, Accepted
<1>3. QED
      BY <1>2, RequirementsTypeCorrect, PTL
=============================================================================
