------------------------------ MODULE Application ------------------------------
(***************************************************************************)
(* The definition of an Application (container-core, application, and the  *)
(* Module of runtime-pi's host-module.ts that supplies one): what          *)
(* validateApplication accepts, and what the rest of the system makes of   *)
(* it.  An invocation finds its Session Profile by the entry it names      *)
(* (agent.ts), a command by the Profile; the resolved Plugins become the   *)
(* Session's, each served by the adapter under its binding key; and a      *)
(* later inspection puts the Session back under an entry.                  *)
(***************************************************************************)
EXTENDS DataSchema

CONSTANTS
    Candidates,     \* the definitions a module may export
    Identifiers,    \* the strings id() admits
    EntryNames,     \* the strings that may name an entry
    None            \* an optional field that is left out

ASSUME CandidatesAssumption ==
    \A definition \in Candidates : \A i \in DOMAIN definition.profiles :
        definition.profiles[i].entry # None
            => definition.profiles[i].entry.schema \in Schemas \cup {None}
ASSUME NoneAssumption == None \notin Identifiers \cup EntryNames \cup Data

VARIABLES
    candidate,
    verdict,        \* of validateApplication
    registered,     \* the local registrations of definePiApplicationModule
    outcome,        \* of the call that asks for a Session
    asked,          \* how it was asked for
    session,        \* the plan that was started
    refusal         \* the diagnostics the refusal of request data may carry

call == <<outcome, asked, session, refusal>>
vars == <<candidate, verdict, registered, call>>

Profiles == candidate.profiles
Plugins == candidate.plugins

Init ==
    /\ candidate \in Candidates
    /\ verdict = "unknown"
    /\ registered = <<>>
    /\ outcome = "none"
    /\ asked = [entry |-> None, data |-> None, schema |-> None]
    /\ session = [profile |-> None, primary |-> None, plugins |-> <<>>]
    /\ refusal = {}

-----------------------------------------------------------------------------
(* validateApplication, first item by item ...                               *)
Optional(value, set) == value = None \/ value \in set

EntryIsWellFormed(entry) ==
    /\ entry.id \in EntryNames
    /\ entry.required \/ entry.schema # None => entry.v1
    /\ entry.schema # None => IsDataSchema(entry.schema)

RequirementIsWellFormed(requirement) ==
    /\ Optional(requirement.producer, Identifiers)
    /\ Optional(requirement.name, Identifiers)

WellFormed ==
    /\ candidate.id \in Identifiers /\ candidate.runtime \in Identifiers
    /\ Profiles # <<>>
    /\ \A i \in DOMAIN Plugins :
          /\ Plugins[i].id \in Identifiers
          /\ Plugins[i].role \in {"domain", "aspect"}
          /\ Plugins[i].key \in Identifiers
          /\ Plugins[i].runtime = candidate.runtime
    /\ \A i \in DOMAIN Profiles :
          /\ Profiles[i].id \in Identifiers
          /\ Profiles[i].entry # None => EntryIsWellFormed(Profiles[i].entry)
          /\ Optional(Profiles[i].primary, Identifiers)
          /\ \A j \in DOMAIN Profiles[i].aspects : Profiles[i].aspects[j] \in Identifiers
          /\ \A j \in DOMAIN Profiles[i].requirements :
                RequirementIsWellFormed(Profiles[i].requirements[j])

(* ... then the names of entries and inputs ...                              *)
EntryOf(profile) == IF profile.entry = None THEN profile.id ELSE profile.entry.id

ComparesProfiles ==         \* mutant: the ids of the profiles are compared
    IsInjective([i \in DOMAIN Profiles |-> Profiles[i].id])

EntriesDiffer == IsInjective([i \in DOMAIN Profiles |-> EntryOf(Profiles[i])])

InputNamesDiffer ==
    \A i \in DOMAIN Profiles :
        LET requirements == Profiles[i].requirements IN
        \A j, k \in DOMAIN requirements :
            requirements[j].name = requirements[k].name
                => j = k \/ requirements[j].name = None

(* ... what each profile selects, as selectProfile does for any of them ...  *)
Selected(profile) ==
    (IF profile.primary = None THEN <<>> ELSE <<profile.primary>>) \o profile.aspects

IdsDiffer ==
    /\ IsInjective([i \in DOMAIN Plugins |-> Plugins[i].id])
    /\ IsInjective([i \in DOMAIN Profiles |-> Profiles[i].id])

RoleOf(profile, id) == IF id = profile.primary THEN "domain" ELSE "aspect"

AnyPlugin(profile) ==       \* mutant: the roles are not compared
    \A j \in DOMAIN Selected(profile) :
        \E i \in DOMAIN Plugins : Plugins[i].id = Selected(profile)[j]

HasItsPlugins(profile) ==
    \A j \in DOMAIN Selected(profile) :
        \E i \in DOMAIN Plugins :
            /\ Plugins[i].id = Selected(profile)[j]
            /\ Plugins[i].role = RoleOf(profile, Selected(profile)[j])

(* ... and a declared producer for every requirement.                        *)
HasProducer(requirement) ==
    \E i \in DOMAIN Plugins :
        /\ requirement.producer \in {None, Plugins[i].id}
        /\ requirement.contract \in Plugins[i].produces

ValidateApplication ==
    /\ WellFormed /\ EntriesDiffer /\ InputNamesDiffer /\ IdsDiffer
    /\ \A i \in DOMAIN Profiles :
          /\ IsInjective(Selected(Profiles[i]))
          /\ HasItsPlugins(Profiles[i])
          /\ \A j \in DOMAIN Profiles[i].requirements :
                HasProducer(Profiles[i].requirements[j])

(* defineApplication, loadApplication, createTask and openTask all start so. *)
Define ==
    /\ verdict = "unknown"
    /\ verdict' = IF ValidateApplication THEN "accepted" ELSE "refused"
    /\ UNCHANGED <<candidate, registered, call>>

-----------------------------------------------------------------------------
(* definePiApplicationModule: each descriptor comes with its registration,   *)
(* here the number of its place.                                             *)
SharesRegistrations == TRUE     \* mutant: one adapter may serve two Plugins

KeysDiffer == IsInjective([i \in DOMAIN Plugins |-> Plugins[i].key])

Register ==
    /\ verdict = "accepted" /\ registered = <<>>
    /\ KeysDiffer
    /\ registered' = [key \in {Plugins[i].key : i \in DOMAIN Plugins} |->
                         CHOOSE i \in DOMAIN Plugins : Plugins[i].key = key]
    /\ UNCHANGED <<candidate, verdict, call>>

-----------------------------------------------------------------------------
(* resolveProfile, prepareSession and the composition startSession compares. *)
PluginNamed(id) == CHOOSE i \in DOMAIN Plugins : Plugins[i].id = id

CanPrepare(profile) == profile.requirements # <<>> => profile.primary # None

Plan(profile) ==
    [profile |-> profile.id,
     primary |-> profile.primary,
     plugins |-> [j \in DOMAIN Selected(profile) |-> PluginNamed(Selected(profile)[j])]]

StartWith(id, request) ==
    /\ outcome' = "started"
    /\ asked' = request
    /\ \E i \in DOMAIN Profiles :
          /\ Profiles[i].id = id
          /\ CanPrepare(Profiles[i])
          /\ session' = Plan(Profiles[i])
    /\ UNCHANGED <<candidate, verdict, registered, refusal>>

NeedsData(profile) == profile.entry # None /\ profile.entry.required

(* profileFor, and the checks of invocationRequirements on the data.         *)
TakesData(profile, data) ==
    /\ NeedsData(profile) => data # None
    /\ data # None => profile.entry # None /\ profile.entry.v1

Ready == verdict = "accepted" /\ outcome = "none"

Invoke(entry, data) ==
    /\ Ready
    /\ \E i \in DOMAIN Profiles :
          /\ EntryOf(Profiles[i]) = entry
          /\ TakesData(Profiles[i], data)
          /\ LET schema == IF data = None THEN None ELSE Profiles[i].entry.schema
                 errors == IF schema = None THEN {} ELSE ValidateData(schema, data)
                 request == [entry |-> entry, data |-> data, schema |-> schema]
             IN IF errors = {}
                   THEN StartWith(Profiles[i].id, request)
                   ELSE /\ outcome' = "refused"
                        /\ asked' = request
                        /\ refusal' = errors
                        /\ UNCHANGED <<candidate, verdict, registered, session>>

(* loom session start names a Profile, and makes no request.                 *)
StartProfile(id) ==
    /\ Ready
    /\ \E i \in DOMAIN Profiles : Profiles[i].id = id /\ ~NeedsData(Profiles[i])
    /\ StartWith(id, [entry |-> None, data |-> None, schema |-> None])

Next ==
    \/ Define \/ Register
    \/ \E entry \in EntryNames, data \in Data \cup {None} : Invoke(entry, data)
    \/ \E id \in Identifiers : StartProfile(id)

Spec == Init /\ [][Next]_vars

-----------------------------------------------------------------------------
(* Under which entry inspect lists a Session: that of its request, or the    *)
(* one of its Profile.                                                       *)
ProfilesOfSession == {i \in DOMAIN Profiles : Profiles[i].id = session.profile}

ListedUnder ==
    IF asked.entry # None THEN {asked.entry}
    ELSE {EntryOf(Profiles[i]) : i \in ProfilesOfSession}

ProfilesOfEntry(entry) == {i \in DOMAIN Profiles : EntryOf(Profiles[i]) = entry}

(* A Session that starts runs what its caller may expect of the entry: one   *)
(* entry lists it, describe's one Profile for that entry is the Session's,   *)
(* one domain Plugin, the primary, runs, everything else is an aspect of it, *)
(* and each is served by its own adapter when one Module supplies both.      *)
StartedAsDeclared ==
    outcome = "started" =>
        /\ \E i \in DOMAIN Profiles :
              /\ ProfilesOfSession = {i}
              /\ ListedUnder = {EntryOf(Profiles[i])}
              /\ ProfilesOfEntry(EntryOf(Profiles[i])) = {i}
              /\ DOMAIN session.plugins = DOMAIN Selected(Profiles[i])
              /\ \A j \in DOMAIN session.plugins :
                    Plugins[session.plugins[j]].id = Selected(Profiles[i])[j]
        /\ IsInjective(session.plugins)
        /\ \A j \in DOMAIN session.plugins :
              LET plugin == Plugins[session.plugins[j]] IN
              /\ plugin.role = "domain" <=> plugin.id = session.primary
              /\ plugin.key \in DOMAIN registered => registered[plugin.key] = session.plugins[j]

(* Data that reaches a Session satisfies the Schema of its entry, data that  *)
(* does not is refused, and a refusal names only fields that the Schema      *)
(* declares ("Never returns request values or unknown property names in      *)
(* diagnostics", data-schema.ts), all of which a dotted path can hold.       *)
DataMatchesSchema ==
    asked.schema # None =>
        /\ outcome = "started" <=> Satisfies[asked.schema][asked.data]
        /\ \A e \in refusal : \A i \in DOMAIN e.path :
              "name" \in DOMAIN e.path[i] =>
                 e.path[i].name \in DeclaredNames[asked.schema] \cap PropertyNames
=============================================================================
