--------------------------- MODULE ApplicationProofs ---------------------------
(* Proofs about the definitions of Applications, for any candidates, any     *)
(* identifiers and any data Schemas: what starts is what was declared, and   *)
(* validateData, which calls itself for the parts of a Schema, finds an      *)
(* error exactly where the Schema is not satisfied, whatever its depth.      *)
EXTENDS Application, WellFoundedInduction, TLAPS

(* The plan of a Profile of the accepted definition.                         *)
Planned(i) ==
    /\ i \in DOMAIN Profiles
    /\ session = Plan(Profiles[i])
    /\ asked.entry \in {None, EntryOf(Profiles[i])}

(* The inductive invariant: what was accepted stays valid, and what started  *)
(* is the plan of one of its Profiles.                                       *)
Inv ==
    /\ verdict = "accepted" => ValidateApplication
    /\ outcome \in {"none", "refused", "started"}
    /\ outcome # "none" => verdict = "accepted"
    /\ \/ registered = <<>>
       \/ /\ KeysDiffer
          /\ registered = [key \in {Plugins[i].key : i \in DOMAIN Plugins} |->
                              CHOOSE i \in DOMAIN Plugins : Plugins[i].key = key]
    /\ outcome = "started" => \E i \in DOMAIN Profiles : Planned(i)

(* A start uses the Profile that has the id it is given.                     *)
LEMMA StartsThatProfile ==
    ASSUME ValidateApplication,
           NEW i \in DOMAIN Profiles, NEW request,
           request.entry \in {None, EntryOf(Profiles[i])},
           StartWith(Profiles[i].id, request)
    PROVE  /\ outcome' = "started"
           /\ \E j \in DOMAIN Profiles : Planned(j)'
<1>1. PICK j \in DOMAIN Profiles : Profiles[j].id = Profiles[i].id /\ session' = Plan(Profiles[j])
  BY DEF StartWith
<1>2. IsInjective([k \in DOMAIN Profiles |-> Profiles[k].id])
  BY DEF ValidateApplication, IdsDiffer
<1>3. j = i
  BY <1>1, <1>2 DEF IsInjective
<1>4. candidate' = candidate /\ outcome' = "started" /\ asked' = request
  BY DEF StartWith
<1>5. Planned(i)'
  BY <1>1, <1>3, <1>4 DEF Planned, Plan, Profiles, Plugins, Selected, PluginNamed, EntryOf
<1> QED
  BY <1>4, <1>5 DEF Profiles

LEMMA InvInit == Init => Inv
  BY DEF Init, Inv

LEMMA InvNext == Inv /\ [Next]_vars => Inv'
<1> SUFFICES ASSUME Inv, [Next]_vars
             PROVE  Inv'
  OBVIOUS
<1> USE DEF Inv
<1>1. CASE Define
  <2>1. candidate' = candidate /\ UNCHANGED <<registered, outcome, asked, session>>
    BY <1>1 DEF Define, call
  <2>2. verdict' = "accepted" => ValidateApplication
    BY <1>1 DEF Define
  <2>3. outcome = "none"
    BY <1>1 DEF Define
  <2> QED
    BY <2>1, <2>2, <2>3 DEF ValidateApplication, WellFormed, EntriesDiffer, InputNamesDiffer,
       IdsDiffer, HasItsPlugins, HasProducer, Profiles, Plugins, KeysDiffer
<1>2. ASSUME candidate' = candidate, verdict' = verdict
      PROVE  /\ (verdict = "accepted" => ValidateApplication)'
             /\ KeysDiffer' = KeysDiffer
             /\ Plugins' = Plugins /\ Profiles' = Profiles
             /\ \A i : Plan(Profiles[i])' = Plan(Profiles[i])
             /\ \A i : EntryOf(Profiles[i])' = EntryOf(Profiles[i])
  <2>1. ValidateApplication' = ValidateApplication
    BY <1>2 DEF ValidateApplication, WellFormed, EntriesDiffer, InputNamesDiffer,
       IdsDiffer, HasItsPlugins, HasProducer, Profiles, Plugins
  <2> QED
    BY <1>2, <2>1 DEF KeysDiffer, Plugins, Profiles, Plan, Selected, PluginNamed, EntryOf
<1>3. CASE Register
  <2>1. candidate' = candidate /\ verdict' = verdict /\ UNCHANGED <<outcome, asked, session>>
    BY <1>3 DEF Register, call
  <2>2. KeysDiffer /\ registered' = [key \in {Plugins[i].key : i \in DOMAIN Plugins} |->
                                        CHOOSE i \in DOMAIN Plugins : Plugins[i].key = key]
    BY <1>3 DEF Register
  <2> QED
    BY <1>2, <2>1, <2>2 DEF Planned
<1>4. ASSUME NEW i \in DOMAIN Profiles, NEW request, Ready,
             request.entry \in {None, EntryOf(Profiles[i])},
             StartWith(Profiles[i].id, request)
      PROVE  Inv'
  <2>1. ValidateApplication
    BY <1>4 DEF Ready
  <2>2. outcome' = "started" /\ \E j \in DOMAIN Profiles : Planned(j)'
    BY <1>4, <2>1, StartsThatProfile
  <2>3. candidate' = candidate /\ verdict' = verdict /\ registered' = registered
    BY <1>4 DEF StartWith
  <2> QED
    BY <1>2, <1>4, <2>2, <2>3 DEF Ready
<1>5. ASSUME NEW entry \in EntryNames, NEW data \in Data \cup {None}, Invoke(entry, data)
      PROVE  Inv'
  <2>1. PICK i \in DOMAIN Profiles :
           /\ EntryOf(Profiles[i]) = entry
           /\ LET schema == IF data = None THEN None ELSE Profiles[i].entry.schema
                  errors == IF schema = None THEN {} ELSE ValidateData(schema, data)
                  request == [entry |-> entry, data |-> data, schema |-> schema]
              IN IF errors = {}
                    THEN StartWith(Profiles[i].id, request)
                    ELSE /\ outcome' = "refused"
                         /\ asked' = request
                         /\ refusal' = errors
                         /\ UNCHANGED <<candidate, verdict, registered, session>>
    BY <1>5 DEF Invoke
  <2> DEFINE schema == IF data = None THEN None ELSE Profiles[i].entry.schema
             request == [entry |-> entry, data |-> data, schema |-> schema]
  <2>2. CASE StartWith(Profiles[i].id, request)
    <3>1. request.entry \in {None, EntryOf(Profiles[i])}
      BY <2>1
    <3> HIDE DEF request
    <3> QED
      BY <1>4, <1>5, <2>2, <3>1 DEF Invoke
  <2>3. CASE outcome' = "refused" /\ UNCHANGED <<candidate, verdict, registered, session>>
    BY <1>2, <1>5, <2>3 DEF Invoke, Ready
  <2> QED
    BY <2>1, <2>2, <2>3
<1>6. ASSUME NEW id \in Identifiers, StartProfile(id)
      PROVE  Inv'
  <2> DEFINE request == [entry |-> None, data |-> None, schema |-> None]
  <2>1. Ready /\ StartWith(id, request)
    BY <1>6 DEF StartProfile
  <2>2. PICK i \in DOMAIN Profiles : Profiles[i].id = id
    BY <1>6 DEF StartProfile
  <2>3. request.entry \in {None, EntryOf(Profiles[i])}
    OBVIOUS
  <2> HIDE DEF request
  <2> QED
    BY <1>4, <2>1, <2>2, <2>3
<1>7. CASE UNCHANGED vars
  <2>1. candidate' = candidate /\ verdict' = verdict /\ UNCHANGED <<registered, outcome, asked, session>>
    BY <1>7 DEF vars, call
  <2> QED
    BY <1>2, <2>1 DEF Planned
<1> QED
  BY <1>1, <1>3, <1>5, <1>6, <1>7 DEF Next

(* The Plugins of an accepted Profile's plan are those it selects, each once.*)
LEMMA PlanIsDeclared ==
    ASSUME ValidateApplication,
           NEW i \in DOMAIN Profiles
    PROVE  LET plan == Plan(Profiles[i]) IN
           /\ DOMAIN plan.plugins = DOMAIN Selected(Profiles[i])
           /\ \A j \in DOMAIN plan.plugins :
                 /\ plan.plugins[j] \in DOMAIN Plugins
                 /\ Plugins[plan.plugins[j]].id = Selected(Profiles[i])[j]
                 /\ Plugins[plan.plugins[j]].role = RoleOf(Profiles[i], Selected(Profiles[i])[j])
           /\ IsInjective(plan.plugins)
<1> DEFINE plan == Plan(Profiles[i])
           chosen == Selected(Profiles[i])
<1>1. plan.plugins = [j \in DOMAIN chosen |-> PluginNamed(chosen[j])]
  BY DEF Plan
<1>2. IsInjective([k \in DOMAIN Plugins |-> Plugins[k].id])
  BY DEF ValidateApplication, IdsDiffer
<1>3. HasItsPlugins(Profiles[i]) /\ IsInjective(chosen)
  BY DEF ValidateApplication
<1>4. ASSUME NEW j \in DOMAIN chosen
      PROVE  /\ PluginNamed(chosen[j]) \in DOMAIN Plugins
             /\ Plugins[PluginNamed(chosen[j])].id = chosen[j]
             /\ Plugins[PluginNamed(chosen[j])].role = RoleOf(Profiles[i], chosen[j])
  <2>1. PICK k \in DOMAIN Plugins :
           Plugins[k].id = chosen[j] /\ Plugins[k].role = RoleOf(Profiles[i], chosen[j])
    BY <1>3 DEF HasItsPlugins
  <2>2. PluginNamed(chosen[j]) \in DOMAIN Plugins /\ Plugins[PluginNamed(chosen[j])].id = chosen[j]
    BY <2>1 DEF PluginNamed
  <2>3. PluginNamed(chosen[j]) = k
    BY <1>2, <2>1, <2>2 DEF IsInjective
  <2> QED
    BY <2>1, <2>2, <2>3
<1> HIDE DEF plan, chosen
<1>5. IsInjective(plan.plugins)
  BY <1>1, <1>3, <1>4 DEF IsInjective
<1> QED
  BY <1>1, <1>4, <1>5 DEF plan, chosen

LEMMA InvImpliesStartedAsDeclared == Inv => StartedAsDeclared
<1> SUFFICES ASSUME Inv, outcome = "started"
             PROVE  StartedAsDeclared
  BY DEF StartedAsDeclared
<1>1. ValidateApplication
  BY DEF Inv
<1>2. PICK i \in DOMAIN Profiles : Planned(i)
  BY DEF Inv
<1>3. session = Plan(Profiles[i]) /\ asked.entry \in {None, EntryOf(Profiles[i])}
  BY <1>2 DEF Planned
<1>4. /\ DOMAIN session.plugins = DOMAIN Selected(Profiles[i])
      /\ \A j \in DOMAIN session.plugins :
            /\ session.plugins[j] \in DOMAIN Plugins
            /\ Plugins[session.plugins[j]].id = Selected(Profiles[i])[j]
            /\ Plugins[session.plugins[j]].role = RoleOf(Profiles[i], Selected(Profiles[i])[j])
      /\ IsInjective(session.plugins)
  BY <1>1, <1>3, PlanIsDeclared
<1>5. session.profile = Profiles[i].id /\ session.primary = Profiles[i].primary
  BY <1>3 DEF Plan
<1>6. ProfilesOfSession = {i}
  <2>1. IsInjective([k \in DOMAIN Profiles |-> Profiles[k].id])
    BY <1>1 DEF ValidateApplication, IdsDiffer
  <2> QED
    BY <1>5, <2>1 DEF IsInjective, ProfilesOfSession
<1>7. ProfilesOfEntry(EntryOf(Profiles[i])) = {i}
  <2>1. IsInjective([k \in DOMAIN Profiles |-> EntryOf(Profiles[k])])
    BY <1>1 DEF ValidateApplication, EntriesDiffer
  <2> QED
    BY <2>1 DEF IsInjective, ProfilesOfEntry
<1>8. ListedUnder = {EntryOf(Profiles[i])}
  BY <1>3, <1>6 DEF ListedUnder
<1>9. ASSUME NEW j \in DOMAIN session.plugins
      PROVE  LET plugin == Plugins[session.plugins[j]] IN
             /\ plugin.role = "domain" <=> plugin.id = session.primary
             /\ plugin.key \in DOMAIN registered => registered[plugin.key] = session.plugins[j]
  <2> DEFINE k == session.plugins[j]
  <2>1. Plugins[k].role = "domain" <=> Plugins[k].id = session.primary
    BY <1>4, <1>5 DEF RoleOf
  <2>2. ASSUME Plugins[k].key \in DOMAIN registered
        PROVE  registered[Plugins[k].key] = k
    <3>1. /\ KeysDiffer
          /\ registered = [key \in {Plugins[m].key : m \in DOMAIN Plugins} |->
                              CHOOSE m \in DOMAIN Plugins : Plugins[m].key = key]
      <4>1. registered # <<>>
        BY <2>2
      <4> QED
        BY <4>1 DEF Inv
    <3>2. k \in DOMAIN Plugins
      BY <1>4
    <3> DEFINE chosen == CHOOSE m \in DOMAIN Plugins : Plugins[m].key = Plugins[k].key
    <3>3. chosen \in DOMAIN Plugins /\ Plugins[chosen].key = Plugins[k].key
      BY <3>2
    <3>4. registered[Plugins[k].key] = chosen
      BY <2>2, <3>1
    <3> HIDE DEF chosen, k
    <3>5. chosen = k
      BY <3>1, <3>2, <3>3 DEF KeysDiffer, IsInjective
    <3> QED
      BY <3>4, <3>5
  <2> QED
    BY <2>1, <2>2
<1> QED
  BY <1>4, <1>6, <1>7, <1>8, <1>9 DEF StartedAsDeclared

(* For every definition an Application may export: a Session that starts is  *)
(* the plan of one Profile, one entry lists it, and its Plugins are those    *)
(* declared, in their roles and with their own adapters.                     *)
THEOREM StartedAsDeclaredAlways == Spec => []StartedAsDeclared
<1>1. Spec => []Inv
  BY InvInit, InvNext, PTL DEF Spec
<1> QED
  BY <1>1, InvImpliesStartedAsDeclared, PTL

-----------------------------------------------------------------------------
(* Recursion over data, without an operator as a parameter: an induction is  *)
(* over a set, and what a definition makes of a function is a function.      *)
LEMMA LeastNumber ==
    ASSUME NEW T, T \subseteq Nat, T # {}
    PROVE  \E n \in T : \A m \in T : n <= m
<1>1. IsWellFoundedOn(OpToRel(<, Nat), Nat)
  BY NatLessThanWellFounded
<1>2. PICK n \in T : \A m \in T : <<m, n>> \notin OpToRel(<, Nat)
  BY <1>1, WFMin
<1>3. \A m \in T : ~(m < n)
  BY <1>2 DEF OpToRel
<1> QED
  BY <1>3

(* What holds wherever it holds of all that is less deep holds everywhere.   *)
LEMMA DepthInduction ==
    ASSUME NEW D, NEW depth \in [D -> Nat], NEW T,
           \A v \in D : (\A w \in D : depth[w] < depth[v] => w \in T) => v \in T
    PROVE  D \subseteq T
<1> SUFFICES ASSUME D \ T # {} PROVE FALSE
  OBVIOUS
<1> DEFINE depths == {depth[v] : v \in D \ T}
<1>1. depths \subseteq Nat /\ depths # {}
  OBVIOUS
<1>2. PICK n \in depths : \A m \in depths : n <= m
  BY <1>1, LeastNumber
<1>3. PICK v \in D \ T : n = depth[v]
  OBVIOUS
<1>4. ASSUME NEW w \in D, depth[w] < depth[v], w \notin T PROVE FALSE
  <2>1. depth[w] \in depths
    BY <1>4
  <2>2. n <= depth[w]
    BY <1>2, <2>1
  <2> QED
    BY <1>3, <1>4, <2>2
<1> QED
  BY <1>3, <1>4

LEMMA CountInduction ==
    ASSUME NEW T, 0 \in T, \A n \in Nat : n \in T => n + 1 \in T
    PROVE  Nat \subseteq T
<1> SUFFICES ASSUME Nat \ T # {} PROVE FALSE
  OBVIOUS
<1>1. PICK n \in Nat \ T : \A m \in Nat \ T : n <= m
  BY LeastNumber
<1>2. n # 0 /\ n - 1 \in Nat /\ n - 1 \in T
  BY <1>1
<1> QED
  BY <1>1, <1>2

(* H takes an argument, and a function that is right for what is less deep.  *)
IsLocal(H, D, depth, B) ==
    \A v \in D : \A f, g \in [D -> B] :
        (\A w \in D : depth[w] < depth[v] => f[w] = g[w]) => H[<<v, f>>] = H[<<v, g>>]

UpTo(H, D, depth, B, default, n) ==
    {f \in [D -> B] : \A v \in D : f[v] = IF depth[v] < n THEN H[<<v, f>>] ELSE default}

LEMMA UpToAgree ==
    ASSUME NEW D, NEW depth \in [D -> Nat], NEW B, NEW H, IsLocal(H, D, depth, B), NEW default,
           NEW n \in Nat, NEW m \in Nat,
           NEW f \in UpTo(H, D, depth, B, default, n), NEW g \in UpTo(H, D, depth, B, default, m)
    PROVE  \A v \in D : depth[v] < n /\ depth[v] < m => f[v] = g[v]
<1> DEFINE T == {v \in D : depth[v] < n /\ depth[v] < m => f[v] = g[v]}
<1>1. ASSUME NEW v \in D, \A w \in D : depth[w] < depth[v] => w \in T
      PROVE  v \in T
  <2> SUFFICES ASSUME depth[v] < n, depth[v] < m PROVE f[v] = g[v]
    OBVIOUS
  <2>1. \A w \in D : depth[w] < depth[v] => f[w] = g[w]
    BY <1>1
  <2>2. f \in [D -> B] /\ g \in [D -> B] /\ f[v] = H[<<v, f>>] /\ g[v] = H[<<v, g>>]
    BY DEF UpTo
  <2> QED
    BY <2>1, <2>2 DEF IsLocal
<1> HIDE DEF T
<1>2. D \subseteq T
  BY <1>1, DepthInduction
<1> QED
  BY <1>2 DEF T

LEMMA UpToExists ==
    ASSUME NEW D, NEW depth \in [D -> Nat], NEW B, NEW default \in B,
           NEW H \in [D \X [D -> B] -> B], IsLocal(H, D, depth, B)
    PROVE  \A n \in Nat : UpTo(H, D, depth, B, default, n) # {}
<1> DEFINE S(n) == UpTo(H, D, depth, B, default, n)
           T == {n \in Nat : S(n) # {}}
<1>1. 0 \in T
  <2>1. [v \in D |-> default] \in S(0)
    BY DEF UpTo
  <2> QED
    BY <2>1
<1>2. ASSUME NEW n \in Nat, n \in T
      PROVE  n + 1 \in T
  <2>1. PICK f \in S(n) : TRUE
    BY <1>2
  <2>2. f \in [D -> B] /\ \A v \in D : f[v] = IF depth[v] < n THEN H[<<v, f>>] ELSE default
    BY <2>1 DEF UpTo
  <2> DEFINE g == [v \in D |-> IF depth[v] < n + 1 THEN H[<<v, f>>] ELSE default]
  <2>3. g \in [D -> B]
    BY <2>2
  <2>4. ASSUME NEW v \in D, depth[v] < n + 1
        PROVE  H[<<v, f>>] = H[<<v, g>>]
    <3>1. ASSUME NEW w \in D, depth[w] < depth[v]
          PROVE  f[w] = g[w]
      <4>1. depth[w] < n /\ depth[w] < n + 1
        BY <2>4, <3>1
      <4> QED
        BY <2>2, <4>1
    <3> HIDE DEF g
    <3> QED
      BY <2>2, <2>3, <3>1 DEF IsLocal
  <2>5. \A v \in D : g[v] = IF depth[v] < n + 1 THEN H[<<v, g>>] ELSE default
    BY <2>4
  <2> HIDE DEF g
  <2>6. g \in S(n + 1)
    BY <2>3, <2>5 DEF UpTo
  <2> QED
    BY <2>6
<1> HIDE DEF T
<1>3. Nat \subseteq T
  BY <1>1, <1>2, CountInduction
<1> QED
  BY <1>3 DEF T

Solutions(H, D, B) == {f \in [D -> B] : \A v \in D : f[v] = H[<<v, f>>]}

LEMMA RecursionExists ==
    ASSUME NEW D, NEW depth \in [D -> Nat], NEW B, NEW default \in B,
           NEW H \in [D \X [D -> B] -> B], IsLocal(H, D, depth, B)
    PROVE  Solutions(H, D, B) # {}
<1> DEFINE S(n) == UpTo(H, D, depth, B, default, n)
           F == [n \in Nat |-> CHOOSE f \in S(n) : TRUE]
           f == [v \in D |-> F[depth[v] + 1][v]]
<1>1. ASSUME NEW n \in Nat PROVE F[n] \in S(n)
  <2>1. S(n) # {}
    BY UpToExists
  <2>2. (CHOOSE g \in S(n) : TRUE) \in S(n)
    <3> HIDE DEF S
    <3> QED
      BY <2>1
  <2> QED
    BY <2>2
<1> HIDE DEF F
<1>2. ASSUME NEW n \in Nat
      PROVE  /\ F[n] \in [D -> B]
             /\ \A v \in D : depth[v] < n => F[n][v] = H[<<v, F[n]>>]
  BY <1>1 DEF UpTo
<1>3. f \in [D -> B]
  BY <1>2
<1>4. ASSUME NEW v \in D
      PROVE  f[v] = H[<<v, f>>]
  <2> DEFINE g == F[depth[v] + 1]
  <2>1. depth[v] + 1 \in Nat /\ depth[v] < depth[v] + 1
    OBVIOUS
  <2>2. g \in [D -> B] /\ g[v] = H[<<v, g>>] /\ f[v] = g[v]
    BY <1>2, <2>1
  <2>3. ASSUME NEW w \in D, depth[w] < depth[v]
        PROVE  f[w] = g[w]
    <3>1. /\ depth[w] + 1 \in Nat /\ depth[w] < depth[w] + 1 /\ depth[w] < depth[v] + 1
      BY <2>3
    <3>2. F[depth[w] + 1] \in S(depth[w] + 1) /\ g \in S(depth[v] + 1)
      BY <1>1, <2>1, <3>1
    <3>3. F[depth[w] + 1][w] = g[w]
      <4> HIDE DEF g
      <4> QED
        BY <2>1, <3>1, <3>2, UpToAgree
    <3> QED
      BY <3>3
  <2> HIDE DEF f, g
  <2> QED
    BY <1>3, <2>2, <2>3 DEF IsLocal
<1> HIDE DEF f
<1> QED
  BY <1>3, <1>4 DEF Solutions

-----------------------------------------------------------------------------
(* Sequences of checks, and what is found in them.                           *)
NoneFails(checks) == \A i \in DOMAIN checks : checks[i] = {}

LEMMA LeastIsMember ==
    ASSUME NEW T, T \subseteq Nat, T # {}
    PROVE  Min(T) \in T
<1>1. PICK n \in T : \A m \in T : n <= m
  BY LeastNumber
<1> QED
  BY <1>1 DEF Min

LEMMA FirstErrorsFound ==
    ASSUME NEW S, NEW checks \in Seq(S)
    PROVE  /\ FirstErrors(checks) = {} <=> NoneFails(checks)
           /\ FirstErrors(checks) # {} =>
                 \E i \in DOMAIN checks : FirstErrors(checks) = checks[i]
<1> DEFINE I == {i \in 1 .. Len(checks) : checks[i] # {}}
<1>1. DOMAIN checks = 1 .. Len(checks) /\ I \subseteq Nat /\ 0 \notin I
  OBVIOUS
<1>2. FirstErrors(checks) =
         IF (IF I # {} THEN Min(I) ELSE 0) = 0 THEN {} ELSE checks[IF I # {} THEN Min(I) ELSE 0]
  BY DEF FirstErrors, SelectInSeq
<1>3. CASE I = {}
  BY <1>1, <1>2, <1>3 DEF NoneFails
<1>4. CASE I # {}
  <2>1. Min(I) \in I
    BY <1>1, <1>4, LeastIsMember
  <2> DEFINE i == Min(I)
  <2>2. i \in DOMAIN checks /\ checks[i] # {} /\ i # 0
    BY <1>1, <2>1
  <2>3. FirstErrors(checks) = checks[i]
    <3> HIDE DEF I
    <3> QED
      BY <1>2, <1>4, <2>2
  <2> HIDE DEF i
  <2> QED
    BY <2>2, <2>3 DEF NoneFails
<1> QED
  BY <1>3, <1>4

LEMMA ChecksJoined ==
    ASSUME NEW S, NEW s \in Seq(S), NEW t \in Seq(S)
    PROVE  /\ s \o t \in Seq(S)
           /\ NoneFails(s \o t) <=> NoneFails(s) /\ NoneFails(t)
           /\ \A i \in DOMAIN (s \o t) :
                 \/ \E j \in DOMAIN s : (s \o t)[i] = s[j]
                 \/ \E j \in DOMAIN t : (s \o t)[i] = t[j]
<1>1. /\ DOMAIN s = 1 .. Len(s) /\ DOMAIN t = 1 .. Len(t)
      /\ Len(s) \in Nat /\ Len(t) \in Nat
      /\ DOMAIN (s \o t) = 1 .. Len(s) + Len(t)
      /\ \A i \in 1 .. Len(s) + Len(t) :
            (s \o t)[i] = IF i <= Len(s) THEN s[i] ELSE t[i - Len(s)]
  OBVIOUS
<1>2. ASSUME NEW i \in DOMAIN (s \o t)
      PROVE  \/ \E j \in DOMAIN s : (s \o t)[i] = s[j]
             \/ \E j \in DOMAIN t : (s \o t)[i] = t[j]
  <2>1. CASE i <= Len(s)
    BY <1>1, <2>1
  <2>2. CASE ~(i <= Len(s))
    <3>1. i - Len(s) \in DOMAIN t /\ (s \o t)[i] = t[i - Len(s)]
      BY <1>1, <2>2
    <3> QED
      BY <3>1
  <2> QED
    BY <2>1, <2>2
<1>3. ASSUME NEW i \in DOMAIN s
      PROVE  i \in DOMAIN (s \o t) /\ (s \o t)[i] = s[i]
  BY <1>1
<1>4. ASSUME NEW i \in DOMAIN t
      PROVE  Len(s) + i \in DOMAIN (s \o t) /\ (s \o t)[Len(s) + i] = t[i]
  BY <1>1
<1>5. NoneFails(s \o t) <=> NoneFails(s) /\ NoneFails(t)
  <2>1. ASSUME NoneFails(s), NoneFails(t) PROVE NoneFails(s \o t)
    BY <1>2, <2>1 DEF NoneFails
  <2>2. ASSUME NoneFails(s \o t) PROVE NoneFails(s) /\ NoneFails(t)
    <3>1. ASSUME NEW i \in DOMAIN s PROVE s[i] = {}
      BY <1>3, <2>2 DEF NoneFails
    <3>2. ASSUME NEW i \in DOMAIN t PROVE t[i] = {}
      BY <1>4, <2>2 DEF NoneFails
    <3> QED
      BY <3>1, <3>2 DEF NoneFails
  <2> QED
    BY <2>1, <2>2
<1> QED
  BY <1>2, <1>5

-----------------------------------------------------------------------------
(* The errors of data: their shape, and the errors below a place.            *)
FieldNames == UNION {DOMAIN v.fields : v \in Data}
RequiredNames == UNION {ToSet(s.required) : s \in Schemas}

Places ==
    {AtName(name) : name \in FieldNames \cup RequiredNames} \cup {AtIndex(i) : i \in Nat}

Rules == Keywords \cup {"false-schema"}
ErrorSet == [path : Seq(Places), rule : Rules]

LEMMA ErrorMade ==
    ASSUME NEW path \in Seq(Places), NEW rule \in Rules
    PROVE  [path |-> path, rule |-> rule] \in ErrorSet
BY DEF ErrorSet

LEMMA ErrorShape ==
    ASSUME NEW holds, NEW rule \in Rules
    PROVE  /\ ErrorUnless(holds, rule) \in SUBSET ErrorSet
           /\ ErrorUnless(holds, rule) = {} <=> holds
           /\ \A e \in ErrorUnless(holds, rule) : e.path = <<>>
<1>1. [path |-> <<>>, rule |-> rule] \in ErrorSet
  BY DEF ErrorSet
<1> QED
  BY <1>1 DEF ErrorUnless, Error

LEMMA PlaceShape ==
    /\ \A v \in Data : \A name \in DOMAIN v.fields : AtName(name) \in Places
    /\ \A s \in Schemas : \A name \in ToSet(s.required) : AtName(name) \in Places
    /\ \A i \in Nat : AtIndex(i) \in Places
<1>1. ASSUME NEW name \in FieldNames PROVE AtName(name) \in Places
  BY DEF Places
<1>2. ASSUME NEW name \in RequiredNames PROVE AtName(name) \in Places
  BY DEF Places
<1>3. \A v \in Data : DOMAIN v.fields \subseteq FieldNames
  BY DEF FieldNames
<1>4. ASSUME NEW s \in Schemas PROVE ToSet(s.required) \subseteq RequiredNames
  BY DEF RequiredNames
<1>5. \A i \in Nat : AtIndex(i) \in Places
  BY DEF Places
<1> QED
  BY <1>1, <1>2, <1>3, <1>4, <1>5

LEMMA UnderShape ==
    ASSUME NEW place \in Places, NEW errors \in SUBSET ErrorSet
    PROVE  /\ Under(place, errors) \in SUBSET ErrorSet
           /\ Under(place, errors) = {} <=> errors = {}
           /\ \A e \in Under(place, errors) : \E inner \in errors : e.path = <<place>> \o inner.path
<1>1. ASSUME NEW e \in errors
      PROVE  /\ [e EXCEPT !.path = <<place>> \o @] \in ErrorSet
             /\ [e EXCEPT !.path = <<place>> \o @].path = <<place>> \o e.path
  <2>1. e \in [path : Seq(Places), rule : Rules]
    BY DEF ErrorSet
  <2>2. <<place>> \o e.path \in Seq(Places)
    BY <2>1
  <2> QED
    BY <2>1, <2>2 DEF ErrorSet
<1> QED
  BY <1>1 DEF Under

IsBetween(n, s, atLeast, atMost) ==
    (Has(s, atLeast) => n >= s[atLeast]) /\ (Has(s, atMost) => n <= s[atMost])

LEMMA WithinShape ==
    ASSUME NEW n, NEW s, NEW atLeast \in Rules, NEW atMost \in Rules
    PROVE  /\ Within(n, s, atLeast, atMost) \in Seq(SUBSET ErrorSet)
           /\ NoneFails(Within(n, s, atLeast, atMost)) <=> IsBetween(n, s, atLeast, atMost)
           /\ \A i \in DOMAIN Within(n, s, atLeast, atMost) :
                 \A e \in Within(n, s, atLeast, atMost)[i] : e.path = <<>>
<1> DEFINE low == ErrorUnless(Has(s, atLeast) => n >= s[atLeast], atLeast)
           high == ErrorUnless(Has(s, atMost) => n <= s[atMost], atMost)
<1>1. /\ low \in SUBSET ErrorSet /\ high \in SUBSET ErrorSet
      /\ low = {} <=> (Has(s, atLeast) => n >= s[atLeast])
      /\ high = {} <=> (Has(s, atMost) => n <= s[atMost])
      /\ \A e \in low \cup high : e.path = <<>>
  BY ErrorShape
<1>2. Within(n, s, atLeast, atMost) = <<low, high>>
  BY DEF Within
<1> HIDE DEF low, high
<1>3. /\ <<low, high>> \in Seq(SUBSET ErrorSet) /\ DOMAIN <<low, high>> = {1, 2}
      /\ <<low, high>>[1] = low /\ <<low, high>>[2] = high
  BY <1>1
<1>4. NoneFails(<<low, high>>) <=> low = {} /\ high = {}
  BY <1>3 DEF NoneFails
<1>5. low = {} /\ high = {} <=> IsBetween(n, s, atLeast, atMost)
  BY <1>1, Zenon DEF IsBetween
<1> QED
  BY <1>1, <1>2, <1>3, <1>4, <1>5

LEMMA MissingShape ==
    ASSUME NEW s \in Schemas, NEW v \in Data, Has(s, "required")
    PROVE  /\ MissingName(s, v) \in SUBSET ErrorSet
           /\ MissingName(s, v) = {} <=> ToSet(s.required) \subseteq DOMAIN v.fields
           /\ \A e \in MissingName(s, v) :
                 \E name \in ToSet(s.required) : e.path = <<AtName(name)>>
<1> DEFINE names == s.required
           I == {i \in 1 .. Len(names) : names[i] \notin DOMAIN v.fields}
           k == IF I # {} THEN Min(I) ELSE 0
<1>1. names \in Seq(ToSet(names)) /\ DOMAIN names = 1 .. Len(names)
      /\ ToSet(names) = {names[i] : i \in 1 .. Len(names)} /\ I \subseteq Nat /\ 0 \notin I
  <2>1. names \in Seq(ToSet(names))
    BY SchemasAssumption
  <2>2. DOMAIN names = 1 .. Len(names)
    BY <2>1
  <2>3. ToSet(names) = {names[i] : i \in 1 .. Len(names)}
    BY <2>2, Zenon DEF ToSet
  <2> QED
    BY <2>1, <2>2, <2>3
<1>2. MissingName(s, v) =
         IF k = 0 THEN {} ELSE {[path |-> <<AtName(names[k])>>, rule |-> "required"]}
  BY DEF MissingName, SelectInSeq
<1>3. CASE I = {}
  BY <1>1, <1>2, <1>3
<1>4. CASE I # {}
  <2>1. k \in I
    BY <1>1, <1>4, LeastIsMember
  <2> HIDE DEF k
  <2>2. k # 0 /\ names[k] \in ToSet(names) /\ names[k] \notin DOMAIN v.fields
    BY <1>1, <2>1
  <2>3. AtName(names[k]) \in Places
    BY <2>2, PlaceShape
  <2>4. [path |-> <<AtName(names[k])>>, rule |-> "required"] \in ErrorSet
    <3> DEFINE place == AtName(names[k])
    <3>1. place \in Places
      BY <2>3
    <3> HIDE DEF place
    <3> DEFINE path == <<place>>
    <3>2. path \in Seq(Places)
      BY <3>1
    <3> HIDE DEF path
    <3>3. [path |-> path, rule |-> "required"] \in ErrorSet
      BY <3>2, ErrorMade DEF Rules, Keywords
    <3> QED
      BY <3>3 DEF path, place
  <2>5. MissingName(s, v) = {[path |-> <<AtName(names[k])>>, rule |-> "required"]}
    BY <1>2, <2>2
  <2>6. ~(ToSet(names) \subseteq DOMAIN v.fields)
    BY <2>2
  <2> QED
    BY <2>2, <2>4, <2>5, <2>6
<1> QED
  BY <1>3, <1>4

LEMMA ScalarShape ==
    ASSUME NEW s, NEW v
    PROVE  /\ ScalarChecks(s, v) \in Seq(SUBSET ErrorSet)
           /\ NoneFails(ScalarChecks(s, v)) <=>
                 /\ Has(s, "type") => IsOfType(v, s.type)
                 /\ Has(s, "const") => v = s.const
                 /\ Has(s, "enum") => v \in ToSet(s.enum)
           /\ \A i \in DOMAIN ScalarChecks(s, v) : \A e \in ScalarChecks(s, v)[i] : e.path = <<>>
<1> DEFINE type == ErrorUnless(Has(s, "type") => IsOfType(v, s.type), "type")
           const == ErrorUnless(Has(s, "const") => v = s.const, "const")
           enum == ErrorUnless(Has(s, "enum") => v \in ToSet(s.enum), "enum")
<1>1. {"type", "const", "enum"} \subseteq Rules
  BY DEF Rules, Keywords
<1>2. /\ type \in SUBSET ErrorSet /\ const \in SUBSET ErrorSet /\ enum \in SUBSET ErrorSet
      /\ type = {} <=> (Has(s, "type") => IsOfType(v, s.type))
      /\ const = {} <=> (Has(s, "const") => v = s.const)
      /\ enum = {} <=> (Has(s, "enum") => v \in ToSet(s.enum))
      /\ \A e \in type \cup const \cup enum : e.path = <<>>
  BY <1>1, ErrorShape
<1>3. ScalarChecks(s, v) = <<type, const, enum>>
  BY DEF ScalarChecks
<1> HIDE DEF type, const, enum
<1>4. /\ <<type, const, enum>> \in Seq(SUBSET ErrorSet)
      /\ DOMAIN <<type, const, enum>> = {1, 2, 3}
      /\ <<type, const, enum>>[1] = type /\ <<type, const, enum>>[2] = const
      /\ <<type, const, enum>>[3] = enum
  BY <1>2
<1> QED
  BY <1>2, <1>3, <1>4 DEF NoneFails

(* What may stand for Errors where a Schema's parts are looked up.           *)
ErrorFunctions == [Schemas -> [Data -> SUBSET ErrorSet]]

LEMMA ErrorsOfPart ==
    ASSUME NEW errors \in ErrorFunctions, NEW part \in Schemas, NEW w \in Data
    PROVE  errors[part][w] \in SUBSET ErrorSet
<1>1. errors[part] \in [Data -> SUBSET ErrorSet]
  BY DEF ErrorFunctions
<1> QED
  BY <1>1

LEMMA PropertyParts ==
    ASSUME NEW s \in Schemas, NEW name \in DOMAIN Properties(s)
    PROVE  /\ Has(s, "properties") /\ s.properties[name] = Properties(s)[name]
           /\ Properties(s)[name] \in Schemas /\ Depth[Properties(s)[name]] < Depth[s]
<1>1. Has(s, "properties")
  BY DEF Properties
<1>2. Properties(s) = s.properties
  BY <1>1 DEF Properties
<1> QED
  BY <1>1, <1>2, SchemasAssumption

IsFieldClean(errors, s, v, name) ==
    IF name \in DOMAIN Properties(s)
       THEN errors[Properties(s)[name]][v.fields[name]] = {}
       ELSE Has(s, "additionalProperties") => s.additionalProperties

LEMMA FieldShape ==
    ASSUME NEW errors \in ErrorFunctions, NEW s \in Schemas,
           NEW v \in Data, v.kind = "object", NEW name \in DOMAIN v.fields
    PROVE  /\ FieldErrors(errors, s, v, name) \in SUBSET ErrorSet
           /\ FieldErrors(errors, s, v, name) = {} <=> IsFieldClean(errors, s, v, name)
           /\ \A e \in FieldErrors(errors, s, v, name) :
                 \/ e.path = <<>>
                 \/ /\ name \in DOMAIN Properties(s)
                    /\ \E inner \in errors[Properties(s)[name]][v.fields[name]] :
                          e.path = <<AtName(name)>> \o inner.path
<1>1. v.fields[name] \in Data
  BY DataAssumption
<1>2. CASE name \in DOMAIN Properties(s)
  <2> DEFINE inside == errors[Properties(s)[name]][v.fields[name]]
  <2>1. FieldErrors(errors, s, v, name) = Under(AtName(name), inside)
    BY <1>2, PropertyParts DEF FieldErrors
  <2>2. inside \in SUBSET ErrorSet
    BY <1>1, <1>2, PropertyParts, ErrorsOfPart
  <2>3. AtName(name) \in Places
    BY PlaceShape
  <2> HIDE DEF inside
  <2>4. /\ Under(AtName(name), inside) \in SUBSET ErrorSet
        /\ Under(AtName(name), inside) = {} <=> inside = {}
        /\ \A e \in Under(AtName(name), inside) :
              \E inner \in inside : e.path = <<AtName(name)>> \o inner.path
    BY <2>2, <2>3, UnderShape
  <2>5. inside = {} <=> IsFieldClean(errors, s, v, name)
    BY <1>2 DEF IsFieldClean, inside
  <2> QED
    BY <1>2, <2>1, <2>4, <2>5 DEF inside
<1>3. CASE name \notin DOMAIN Properties(s)
  <2>1. FieldErrors(errors, s, v, name) =
           ErrorUnless(Has(s, "additionalProperties") => s.additionalProperties,
                       "additionalProperties")
    BY <1>3 DEF FieldErrors, UndeclaredField
  <2>2. "additionalProperties" \in Rules
    BY DEF Rules, Keywords
  <2>3. IsFieldClean(errors, s, v, name) <=>
           (Has(s, "additionalProperties") => s.additionalProperties)
    BY <1>3, Zenon DEF IsFieldClean
  <2> QED
    BY <2>1, <2>2, <2>3, ErrorShape
<1> QED
  BY <1>2, <1>3

LEMMA ItemShape ==
    ASSUME NEW errors \in ErrorFunctions, NEW s \in Schemas, NEW v \in Data, v.kind = "array"
    PROVE  /\ ItemErrors(errors, s, v) \in Seq(SUBSET ErrorSet)
           /\ NoneFails(ItemErrors(errors, s, v)) <=>
                 (Has(s, "items") => \A i \in DOMAIN v.items : errors[s.items][v.items[i]] = {})
           /\ \A i \in DOMAIN ItemErrors(errors, s, v) : \A e \in ItemErrors(errors, s, v)[i] :
                 /\ Has(s, "items") /\ i \in Nat /\ v.items[i] \in Data
                 /\ \E inner \in errors[s.items][v.items[i]] : e.path = <<AtIndex(i)>> \o inner.path
<1>1. v.items \in Seq(Data)
  BY DataAssumption
<1>2. CASE Has(s, "items")
  <2> DEFINE inside(i) == errors[s.items][v.items[i]]
             all == [i \in DOMAIN v.items |-> Under(AtIndex(i), inside(i))]
  <2>1. ItemErrors(errors, s, v) = all
    BY <1>2 DEF ItemErrors
  <2>2. DOMAIN v.items = 1 .. Len(v.items) /\ Len(v.items) \in Nat
    BY <1>1
  <2>3. ASSUME NEW i \in DOMAIN v.items
        PROVE  /\ i \in Nat /\ v.items[i] \in Data
               /\ Under(AtIndex(i), inside(i)) \in SUBSET ErrorSet
               /\ Under(AtIndex(i), inside(i)) = {} <=> inside(i) = {}
               /\ \A e \in Under(AtIndex(i), inside(i)) :
                     \E inner \in inside(i) : e.path = <<AtIndex(i)>> \o inner.path
    <3>1. i \in Nat /\ v.items[i] \in Data
      BY <1>1, <2>2
    <3>2. inside(i) \in SUBSET ErrorSet
      BY <1>2, <3>1, SchemasAssumption, ErrorsOfPart
    <3>3. AtIndex(i) \in Places
      BY <3>1, PlaceShape
    <3> HIDE DEF inside
    <3> QED
      BY <3>1, <3>2, <3>3, UnderShape
  <2>4. all \in Seq(SUBSET ErrorSet)
    <3>1. all \in [DOMAIN v.items -> SUBSET ErrorSet]
      <4> HIDE DEF inside
      <4> QED
        BY <2>3
    <3> HIDE DEF all
    <3> QED
      BY <2>2, <3>1
  <2>5. DOMAIN all = DOMAIN v.items /\ \A i \in DOMAIN all : all[i] = Under(AtIndex(i), inside(i))
    OBVIOUS
  <2>6. NoneFails(all) <=> \A i \in DOMAIN v.items : inside(i) = {}
    <3> HIDE DEF inside, all
    <3> QED
      BY <2>3, <2>5 DEF NoneFails
  <2>7. \A i \in DOMAIN all : \A e \in all[i] :
           /\ i \in Nat /\ v.items[i] \in Data
           /\ \E inner \in inside(i) : e.path = <<AtIndex(i)>> \o inner.path
    <3> HIDE DEF inside, all
    <3> QED
      BY <2>3, <2>5
  <2> HIDE DEF all
  <2> QED
    BY <1>2, <2>1, <2>4, <2>6, <2>7
<1>3. CASE ~Has(s, "items")
  <2>1. ItemErrors(errors, s, v) = <<>>
    BY <1>3 DEF ItemErrors
  <2> QED
    BY <1>3, <2>1 DEF NoneFails
<1> QED
  BY <1>2, <1>3

FieldsClean(errors, s, v) ==
    \A name \in DOMAIN v.fields : IsFieldClean(errors, s, v, name)

PartsClean(errors, s, v) ==
    /\ v.kind = "object" =>
          /\ Has(s, "required") => ToSet(s.required) \subseteq DOMAIN v.fields
          /\ FieldsClean(errors, s, v)
    /\ v.kind = "array" =>
          /\ IsBetween(Len(v.items), s, "minItems", "maxItems")
          /\ Has(s, "items") => \A i \in DOMAIN v.items : errors[s.items][v.items[i]] = {}
    /\ v.kind = "string" => IsBetween(Len(v.text), s, "minLength", "maxLength")
    /\ v.kind = "number" => IsBetween(v.half, s, "minimum", "maximum")

(* Where an error may be: here, at a name that is required, or in a part.    *)
IsPlaced(errors, s, e) ==
    \/ e.path = <<>>
    \/ Has(s, "required") /\ \E name \in ToSet(s.required) : e.path = <<AtName(name)>>
    \/ \E name \in DOMAIN Properties(s), w \in Data :
          \E inner \in errors[Properties(s)[name]][w] : e.path = <<AtName(name)>> \o inner.path
    \/ /\ Has(s, "items")
       /\ \E i \in Nat, w \in Data :
             \E inner \in errors[s.items][w] : e.path = <<AtIndex(i)>> \o inner.path

LEMMA ObjectShape ==
    ASSUME NEW errors \in ErrorFunctions, NEW s \in Schemas, NEW v \in Data, v.kind = "object"
    PROVE  /\ PartChecks(errors, s, v) \in Seq(SUBSET ErrorSet)
           /\ NoneFails(PartChecks(errors, s, v)) <=> PartsClean(errors, s, v)
           /\ \A i \in DOMAIN PartChecks(errors, s, v) :
                 \A e \in PartChecks(errors, s, v)[i] : IsPlaced(errors, s, e)
<1> DEFINE missing == IF Has(s, "required") THEN MissingName(s, v) ELSE {}
           inside == UNION {FieldErrors(errors, s, v, name) : name \in DOMAIN v.fields}
<1>1. PartChecks(errors, s, v) = <<missing, inside>>
  BY DEF PartChecks
<1>2. /\ missing \in SUBSET ErrorSet
      /\ missing = {} <=> (Has(s, "required") => ToSet(s.required) \subseteq DOMAIN v.fields)
      /\ \A e \in missing : IsPlaced(errors, s, e)
  <2>1. CASE Has(s, "required")
    <3>1. missing = MissingName(s, v)
      BY <2>1
    <3> HIDE DEF missing
    <3>2. /\ missing \in SUBSET ErrorSet
          /\ missing = {} <=> ToSet(s.required) \subseteq DOMAIN v.fields
          /\ \A e \in missing : \E name \in ToSet(s.required) : e.path = <<AtName(name)>>
      BY <2>1, <3>1, MissingShape
    <3> QED
      BY <2>1, <3>2 DEF IsPlaced
  <2>2. CASE ~Has(s, "required")
    BY <2>2
  <2> QED
    BY <2>1, <2>2
<1>3. ASSUME NEW name \in DOMAIN v.fields, NEW e \in FieldErrors(errors, s, v, name)
      PROVE  e \in ErrorSet /\ IsPlaced(errors, s, e)
  <2>1. v.fields[name] \in Data
    BY DataAssumption
  <2>2. /\ e \in ErrorSet
        /\ \/ e.path = <<>>
           \/ /\ name \in DOMAIN Properties(s)
              /\ \E inner \in errors[Properties(s)[name]][v.fields[name]] :
                    e.path = <<AtName(name)>> \o inner.path
    BY FieldShape
  <2> QED
    BY <2>1, <2>2 DEF IsPlaced
<1>4. inside \in SUBSET ErrorSet /\ \A e \in inside : IsPlaced(errors, s, e)
  BY <1>3
<1>5. inside = {} <=> FieldsClean(errors, s, v)
  <2>1. inside = {} <=> \A name \in DOMAIN v.fields : FieldErrors(errors, s, v, name) = {}
    OBVIOUS
  <2>2. \A name \in DOMAIN v.fields :
           FieldErrors(errors, s, v, name) = {} <=> IsFieldClean(errors, s, v, name)
    BY FieldShape
  <2> HIDE DEF inside
  <2> QED
    BY <2>1, <2>2, Zenon DEF FieldsClean
<1> HIDE DEF missing, inside
<1>6. /\ <<missing, inside>> \in Seq(SUBSET ErrorSet) /\ DOMAIN <<missing, inside>> = {1, 2}
      /\ <<missing, inside>>[1] = missing /\ <<missing, inside>>[2] = inside
  BY <1>2, <1>4
<1>7. PartsClean(errors, s, v) <=>
         /\ Has(s, "required") => ToSet(s.required) \subseteq DOMAIN v.fields
         /\ FieldsClean(errors, s, v)
  BY DEF PartsClean
<1>8. NoneFails(<<missing, inside>>) <=> missing = {} /\ inside = {}
  BY <1>6 DEF NoneFails
<1>9. \A i \in DOMAIN <<missing, inside>> : \A e \in <<missing, inside>>[i] : IsPlaced(errors, s, e)
  BY <1>2, <1>4, <1>6
<1> QED
  BY <1>1, <1>2, <1>5, <1>6, <1>7, <1>8, <1>9

LEMMA ArrayShape ==
    ASSUME NEW errors \in ErrorFunctions, NEW s \in Schemas, NEW v \in Data, v.kind = "array"
    PROVE  /\ PartChecks(errors, s, v) \in Seq(SUBSET ErrorSet)
           /\ NoneFails(PartChecks(errors, s, v)) <=> PartsClean(errors, s, v)
           /\ \A i \in DOMAIN PartChecks(errors, s, v) :
                 \A e \in PartChecks(errors, s, v)[i] : IsPlaced(errors, s, e)
<1> DEFINE counts == Within(Len(v.items), s, "minItems", "maxItems")
           inside == ItemErrors(errors, s, v)
<1>1. PartChecks(errors, s, v) = counts \o inside
  BY DEF PartChecks
<1>2. "minItems" \in Rules /\ "maxItems" \in Rules
  BY DEF Rules, Keywords
<1>3. /\ counts \in Seq(SUBSET ErrorSet)
      /\ NoneFails(counts) <=> IsBetween(Len(v.items), s, "minItems", "maxItems")
      /\ \A i \in DOMAIN counts : \A e \in counts[i] : e.path = <<>>
  BY <1>2, WithinShape
<1>4. /\ inside \in Seq(SUBSET ErrorSet)
      /\ NoneFails(inside) <=>
            (Has(s, "items") => \A i \in DOMAIN v.items : errors[s.items][v.items[i]] = {})
      /\ \A i \in DOMAIN inside : \A e \in inside[i] :
            /\ Has(s, "items") /\ i \in Nat /\ v.items[i] \in Data
            /\ \E inner \in errors[s.items][v.items[i]] : e.path = <<AtIndex(i)>> \o inner.path
  BY ItemShape
<1>5. PartsClean(errors, s, v) <=>
         /\ IsBetween(Len(v.items), s, "minItems", "maxItems")
         /\ Has(s, "items") => \A i \in DOMAIN v.items : errors[s.items][v.items[i]] = {}
  BY DEF PartsClean
<1> HIDE DEF counts, inside
<1>6. /\ \A i \in DOMAIN counts : \A e \in counts[i] : IsPlaced(errors, s, e)
      /\ \A i \in DOMAIN inside : \A e \in inside[i] : IsPlaced(errors, s, e)
  <2>1. ASSUME NEW i \in DOMAIN inside, NEW e \in inside[i] PROVE IsPlaced(errors, s, e)
    <3>1. PICK inner \in errors[s.items][v.items[i]] : e.path = <<AtIndex(i)>> \o inner.path
      BY <1>4
    <3>2. Has(s, "items") /\ i \in Nat /\ v.items[i] \in Data
      BY <1>4
    <3> QED
      BY <3>1, <3>2, Zenon DEF IsPlaced
  <2>2. ASSUME NEW i \in DOMAIN counts, NEW e \in counts[i] PROVE IsPlaced(errors, s, e)
    BY <1>3 DEF IsPlaced
  <2> QED
    BY <2>1, <2>2
<1>7. /\ counts \o inside \in Seq(SUBSET ErrorSet)
      /\ NoneFails(counts \o inside) <=> NoneFails(counts) /\ NoneFails(inside)
      /\ \A i \in DOMAIN (counts \o inside) :
            \/ \E j \in DOMAIN counts : (counts \o inside)[i] = counts[j]
            \/ \E j \in DOMAIN inside : (counts \o inside)[i] = inside[j]
  BY <1>3, <1>4, ChecksJoined
<1> QED
  BY <1>1, <1>3, <1>4, <1>5, <1>6, <1>7

LEMMA PartShape ==
    ASSUME NEW errors \in ErrorFunctions, NEW s \in Schemas, NEW v \in Data
    PROVE  /\ PartChecks(errors, s, v) \in Seq(SUBSET ErrorSet)
           /\ NoneFails(PartChecks(errors, s, v)) <=> PartsClean(errors, s, v)
           /\ \A i \in DOMAIN PartChecks(errors, s, v) :
                 \A e \in PartChecks(errors, s, v)[i] : IsPlaced(errors, s, e)
<1>1. CASE v.kind = "object"
  BY <1>1, ObjectShape
<1>2. CASE v.kind = "array"
  BY <1>2, ArrayShape
<1>3. CASE v.kind = "string"
  <2>1. PartChecks(errors, s, v) = Within(Len(v.text), s, "minLength", "maxLength")
    BY <1>3 DEF PartChecks
  <2>2. "minLength" \in Rules /\ "maxLength" \in Rules
    BY DEF Rules, Keywords
  <2>3. PartsClean(errors, s, v) <=> IsBetween(Len(v.text), s, "minLength", "maxLength")
    BY <1>3 DEF PartsClean
  <2> DEFINE checks == Within(Len(v.text), s, "minLength", "maxLength")
  <2>4. /\ checks \in Seq(SUBSET ErrorSet)
        /\ NoneFails(checks) <=> IsBetween(Len(v.text), s, "minLength", "maxLength")
        /\ \A i \in DOMAIN checks : \A e \in checks[i] : e.path = <<>>
    BY <2>2, WithinShape
  <2> HIDE DEF checks
  <2>5. \A i \in DOMAIN checks : \A e \in checks[i] : IsPlaced(errors, s, e)
    BY <2>4 DEF IsPlaced
  <2> QED
    BY <2>1, <2>3, <2>4, <2>5 DEF checks
<1>4. CASE v.kind = "number"
  <2>1. PartChecks(errors, s, v) = Within(v.half, s, "minimum", "maximum")
    BY <1>4 DEF PartChecks
  <2>2. "minimum" \in Rules /\ "maximum" \in Rules
    BY DEF Rules, Keywords
  <2>3. PartsClean(errors, s, v) <=> IsBetween(v.half, s, "minimum", "maximum")
    BY <1>4 DEF PartsClean
  <2> DEFINE n == v.half
             checks == Within(n, s, "minimum", "maximum")
  <2> HIDE DEF n
  <2>4. /\ checks \in Seq(SUBSET ErrorSet)
        /\ NoneFails(checks) <=> IsBetween(n, s, "minimum", "maximum")
        /\ \A i \in DOMAIN checks : \A e \in checks[i] : e.path = <<>>
    BY <2>2, WithinShape
  <2> HIDE DEF checks
  <2>5. \A i \in DOMAIN checks : \A e \in checks[i] : IsPlaced(errors, s, e)
    BY <2>4 DEF IsPlaced
  <2> QED
    BY <2>1, <2>3, <2>4, <2>5 DEF checks, n
<1>5. CASE v.kind \notin {"object", "array", "string", "number"}
  <2>1. PartChecks(errors, s, v) = <<>> /\ PartsClean(errors, s, v)
    BY <1>5 DEF PartChecks, PartsClean
  <2> QED
    BY <2>1 DEF NoneFails
<1> QED
  BY <1>1, <1>2, <1>3, <1>4, <1>5

IsClean(errors, s, v) ==
    IF Has(s, "always") THEN s.always
    ELSE /\ Has(s, "type") => IsOfType(v, s.type)
         /\ Has(s, "const") => v = s.const
         /\ Has(s, "enum") => v \in ToSet(s.enum)
         /\ PartsClean(errors, s, v)

(* The first error comes from this Schema or from a part; there is none when *)
(* no check fails.                                                           *)
LEMMA SchemaErrorsShape ==
    ASSUME NEW errors \in ErrorFunctions, NEW s \in Schemas, NEW v \in Data
    PROVE  /\ SchemaErrors(errors, s, v) \in SUBSET ErrorSet
           /\ SchemaErrors(errors, s, v) = {} <=> IsClean(errors, s, v)
           /\ \A e \in SchemaErrors(errors, s, v) : IsPlaced(errors, s, e)
<1>1. CASE Has(s, "always")
  <2>1. SchemaErrors(errors, s, v) = ErrorUnless(s.always, "false-schema")
    BY <1>1 DEF SchemaErrors
  <2>2. "false-schema" \in Rules
    BY DEF Rules
  <2>3. /\ ErrorUnless(s.always, "false-schema") \in SUBSET ErrorSet
        /\ ErrorUnless(s.always, "false-schema") = {} <=> s.always
        /\ \A e \in ErrorUnless(s.always, "false-schema") : e.path = <<>>
    BY <2>2, ErrorShape
  <2>4. IsClean(errors, s, v) <=> s.always
    BY <1>1 DEF IsClean
  <2> QED
    BY <2>1, <2>3, <2>4 DEF IsPlaced
<1>2. CASE ~Has(s, "always")
  <2> DEFINE own == ScalarChecks(s, v)
             parts == PartChecks(errors, s, v)
             found == FirstErrors(own \o parts)
  <2>1. SchemaErrors(errors, s, v) = found
    BY <1>2 DEF SchemaErrors
  <2>2. /\ own \in Seq(SUBSET ErrorSet)
        /\ NoneFails(own) <=>
              /\ Has(s, "type") => IsOfType(v, s.type)
              /\ Has(s, "const") => v = s.const
              /\ Has(s, "enum") => v \in ToSet(s.enum)
        /\ \A i \in DOMAIN own : \A e \in own[i] : e.path = <<>>
    BY ScalarShape
  <2>3. /\ parts \in Seq(SUBSET ErrorSet)
        /\ NoneFails(parts) <=> PartsClean(errors, s, v)
        /\ \A i \in DOMAIN parts : \A e \in parts[i] : IsPlaced(errors, s, e)
    BY PartShape
  <2>4. IsClean(errors, s, v) <=> NoneFails(own) /\ NoneFails(parts)
    BY <1>2, <2>2, <2>3 DEF IsClean
  <2>5. \A i \in DOMAIN own : \A e \in own[i] : IsPlaced(errors, s, e)
    BY <2>2 DEF IsPlaced
  <2> HIDE DEF own, parts
  <2>6. /\ own \o parts \in Seq(SUBSET ErrorSet)
        /\ NoneFails(own \o parts) <=> NoneFails(own) /\ NoneFails(parts)
        /\ \A i \in DOMAIN (own \o parts) :
              \/ \E j \in DOMAIN own : (own \o parts)[i] = own[j]
              \/ \E j \in DOMAIN parts : (own \o parts)[i] = parts[j]
    BY <2>2, <2>3, ChecksJoined
  <2>7. /\ found = {} <=> NoneFails(own \o parts)
        /\ found # {} => \E i \in DOMAIN (own \o parts) : found = (own \o parts)[i]
    BY <2>6, FirstErrorsFound
  <2> HIDE DEF found
  <2>8. CASE found = {}
    BY <2>1, <2>4, <2>6, <2>7, <2>8
  <2>9. CASE found # {}
    <3>1. \/ \E j \in DOMAIN own : found = own[j]
          \/ \E j \in DOMAIN parts : found = parts[j]
      BY <2>6, <2>7, <2>9
    <3>2. found \in SUBSET ErrorSet /\ \A e \in found : IsPlaced(errors, s, e)
      BY <2>2, <2>3, <2>5, <3>1
    <3> QED
      BY <2>1, <2>4, <2>6, <2>7, <2>9, <3>2
  <2> QED
    BY <2>8, <2>9
<1> QED
  BY <1>1, <1>2

-----------------------------------------------------------------------------
(* The recursion of validateData ends: the errors of a Schema are looked up  *)
(* in those of its parts only, which are less deep.                          *)
AgreeBelow(f, g, s) == \A part \in Schemas : Depth[part] < Depth[s] => f[part] = g[part]

LEMMA ErrorsAreLocal ==
    ASSUME NEW f, NEW g, NEW s \in Schemas, AgreeBelow(f, g, s), NEW v \in Data
    PROVE  SchemaErrors(f, s, v) = SchemaErrors(g, s, v)
<1>1. ASSUME NEW name
      PROVE  FieldErrors(f, s, v, name) = FieldErrors(g, s, v, name)
  <2>1. CASE name \in DOMAIN Properties(s)
    <3>1. f[s.properties[name]] = g[s.properties[name]]
      BY <2>1, PropertyParts DEF AgreeBelow
    <3> QED
      BY <2>1, <3>1 DEF FieldErrors
  <2>2. CASE name \notin DOMAIN Properties(s)
    BY <2>2 DEF FieldErrors
  <2> QED
    BY <2>1, <2>2
<1>2. ItemErrors(f, s, v) = ItemErrors(g, s, v)
  <2>1. CASE Has(s, "items")
    <3>1. f[s.items] = g[s.items]
      BY <2>1, SchemasAssumption DEF AgreeBelow
    <3> QED
      BY <2>1, <3>1 DEF ItemErrors
  <2>2. CASE ~Has(s, "items")
    BY <2>2 DEF ItemErrors
  <2> QED
    BY <2>1, <2>2
<1>3. PartChecks(f, s, v) = PartChecks(g, s, v)
  <2>1. CASE v.kind = "object"
    <3>1. {FieldErrors(f, s, v, name) : name \in DOMAIN v.fields}
             = {FieldErrors(g, s, v, name) : name \in DOMAIN v.fields}
      BY <1>1
    <3>2. \A errors : PartChecks(errors, s, v) =
             <<IF Has(s, "required") THEN MissingName(s, v) ELSE {},
               UNION {FieldErrors(errors, s, v, name) : name \in DOMAIN v.fields}>>
      BY <2>1 DEF PartChecks
    <3> QED
      BY <3>1, <3>2
  <2>2. CASE v.kind # "object"
    BY <1>2, <2>2 DEF PartChecks
  <2> QED
    BY <2>1, <2>2
<1> QED
  BY <1>3 DEF SchemaErrors

ErrorStep ==
    [x \in Schemas \X ErrorFunctions |-> [v \in Data |-> SchemaErrors(x[2], x[1], v)]]

LEMMA ErrorsExist ==
    \E f \in ErrorFunctions : f = [s \in Schemas |-> [v \in Data |-> SchemaErrors(f, s, v)]]
<1> DEFINE B == [Data -> SUBSET ErrorSet]
           none == [v \in Data |-> {}]
<1>1. none \in B
  OBVIOUS
<1>2. ErrorFunctions = [Schemas -> B]
  BY DEF ErrorFunctions
<1> HIDE DEF none
<1>3. ASSUME NEW s \in Schemas, NEW f \in ErrorFunctions
      PROVE  /\ ErrorStep[<<s, f>>] = [v \in Data |-> SchemaErrors(f, s, v)]
             /\ ErrorStep[<<s, f>>] \in B
  <2>1. ErrorStep[<<s, f>>] = [v \in Data |-> SchemaErrors(f, s, v)]
    BY DEF ErrorStep
  <2>2. \A v \in Data : SchemaErrors(f, s, v) \in SUBSET ErrorSet
    BY SchemaErrorsShape
  <2> QED
    BY <2>1, <2>2
<1>4. ErrorStep \in [Schemas \X ErrorFunctions -> B]
  <2>1. ErrorStep = [x \in Schemas \X ErrorFunctions |-> ErrorStep[x]]
    BY DEF ErrorStep
  <2>2. ASSUME NEW x \in Schemas \X ErrorFunctions PROVE ErrorStep[x] \in B
    <3>1. x = <<x[1], x[2]>> /\ x[1] \in Schemas /\ x[2] \in ErrorFunctions
      OBVIOUS
    <3> HIDE DEF B
    <3> QED
      BY <1>3, <3>1
  <2> HIDE DEF B
  <2> QED
    BY <2>1, <2>2
<1>5. IsLocal(ErrorStep, Schemas, Depth, B)
  <2> SUFFICES ASSUME NEW s \in Schemas, NEW f \in [Schemas -> B], NEW g \in [Schemas -> B],
                      \A part \in Schemas : Depth[part] < Depth[s] => f[part] = g[part]
               PROVE  ErrorStep[<<s, f>>] = ErrorStep[<<s, g>>]
    BY DEF IsLocal
  <2>1. AgreeBelow(f, g, s)
    BY DEF AgreeBelow
  <2>2. \A v \in Data : SchemaErrors(f, s, v) = SchemaErrors(g, s, v)
    BY <2>1, ErrorsAreLocal
  <2>3. f \in ErrorFunctions /\ g \in ErrorFunctions
    BY <1>2
  <2>4. /\ ErrorStep[<<s, f>>] = [v \in Data |-> SchemaErrors(f, s, v)]
        /\ ErrorStep[<<s, g>>] = [v \in Data |-> SchemaErrors(g, s, v)]
    BY <1>3, <2>3
  <2>5. [v \in Data |-> SchemaErrors(f, s, v)] = [v \in Data |-> SchemaErrors(g, s, v)]
    BY <2>2, Zenon
  <2> QED
    BY <2>4, <2>5
<1>6. Solutions(ErrorStep, Schemas, B) # {}
  <2> HIDE DEF B
  <2>1. Depth \in [Schemas -> Nat]
    BY SchemasAssumption
  <2>2. ErrorStep \in [Schemas \X [Schemas -> B] -> B]
    BY <1>2, <1>4
  <2> QED
    BY <1>1, <1>5, <2>1, <2>2, RecursionExists
<1> PICK f \in [Schemas -> B] : \A s \in Schemas : f[s] = ErrorStep[<<s, f>>]
  BY <1>6 DEF Solutions
<1>7. \A s \in Schemas : ErrorStep[<<s, f>>] = [v \in Data |-> SchemaErrors(f, s, v)]
  BY <1>2, <1>3
<1>8. f = [s \in Schemas |-> [v \in Data |-> SchemaErrors(f, s, v)]]
  BY <1>7
<1> QED
  BY <1>2, <1>8

(* So Errors is what its definition says: its equation has one solution, and *)
(* at every Schema a set of errors.                                          *)
LEMMA ErrorsDefined ==
    /\ Errors \in ErrorFunctions
    /\ \A s \in Schemas, v \in Data : Errors[s][v] = SchemaErrors(Errors, s, v)
<1>1. PICK f \in ErrorFunctions : f = [s \in Schemas |-> [v \in Data |-> SchemaErrors(f, s, v)]]
  BY ErrorsExist
<1>2. Errors = [s \in Schemas |-> [v \in Data |-> SchemaErrors(Errors, s, v)]]
  BY <1>1, Zenon DEF Errors
<1> DEFINE T == {s \in Schemas : Errors[s] = f[s]}
<1>3. ASSUME NEW s \in Schemas, \A part \in Schemas : Depth[part] < Depth[s] => part \in T
      PROVE  s \in T
  <2>1. AgreeBelow(Errors, f, s)
    BY <1>3 DEF AgreeBelow
  <2>2. \A v \in Data : SchemaErrors(Errors, s, v) = SchemaErrors(f, s, v)
    BY <2>1, ErrorsAreLocal
  <2>3. Errors[s] = [v \in Data |-> SchemaErrors(Errors, s, v)]
    BY <1>2, Zenon
  <2>4. f[s] = [v \in Data |-> SchemaErrors(f, s, v)]
    BY <1>1, Zenon
  <2> QED
    BY <2>2, <2>3, <2>4
<1>4. Schemas \subseteq T
  <2> HIDE DEF T
  <2>1. Depth \in [Schemas -> Nat]
    BY SchemasAssumption
  <2> QED
    BY <1>3, <2>1, DepthInduction
<1>5. Errors = f
  <2>1. \A s \in Schemas : Errors[s] = f[s]
    BY <1>4
  <2>2. Errors = [s \in Schemas |-> Errors[s]] /\ f = [s \in Schemas |-> f[s]]
    <3>1. DOMAIN Errors = Schemas /\ DOMAIN f = Schemas
      BY <1>1, <1>2, Zenon
    <3> QED
      BY <1>1, <1>2, Zenon
  <2> QED
    BY <2>1, <2>2
<1>6. ASSUME NEW s \in Schemas, NEW v \in Data PROVE f[s][v] = SchemaErrors(f, s, v)
  <2>1. f[s] = [w \in Data |-> SchemaErrors(f, s, w)]
    BY <1>1, Zenon
  <2> QED
    BY <2>1, Zenon
<1> QED
  BY <1>5, <1>6

-----------------------------------------------------------------------------
(* Keyword by keyword, a Schema means what validateData checks.              *)
LEMMA HalvesAreEven ==
    ASSUME NEW half \in Int
    PROVE  half % 2 = 0 <=> \E n \in (-half .. half) \cup (half .. -half) : half = 2 * n
<1>1. ASSUME half % 2 = 0
      PROVE  \E n \in (-half .. half) \cup (half .. -half) : half = 2 * n
  <2> DEFINE n == half \div 2
  <2>1. n \in Int /\ half = 2 * n
    BY <1>1
  <2> HIDE DEF n
  <2>2. n \in (-half .. half) \cup (half .. -half)
    BY <2>1
  <2> QED
    BY <2>1, <2>2
<1>2. ASSUME NEW n \in Int, half = 2 * n
      PROVE  half % 2 = 0
  BY <1>2
<1> QED
  BY <1>1, <1>2

LEMMA TypeMeant ==
    ASSUME NEW f, NEW s \in Schemas, NEW v \in Data
    PROVE  Holds(f, s, v, "type") <=> IsOfType(v, s.type)
<1>1. v.kind \in Kinds /\ v.kind # "integer"
  BY DataAssumption DEF Kinds
<1>2. Holds(f, s, v, "type") <=>
         \/ v.kind = s.type
         \/ /\ s.type = "integer" /\ v.kind = "number"
            /\ \E n \in (-v.half .. v.half) \cup (v.half .. -v.half) : v.half = 2 * n
  BY DEF Holds
<1>3. CASE s.type = "integer" /\ v.kind = "number"
  <2>1. v.half \in Int
    BY <1>3, DataAssumption
  <2>2. v.half % 2 = 0 <=>
           \E n \in (-v.half .. v.half) \cup (v.half .. -v.half) : v.half = 2 * n
    BY <2>1, HalvesAreEven
  <2>3. IsOfType(v, s.type) <=> v.half % 2 = 0
    BY <1>3 DEF IsOfType
  <2>4. v.kind # s.type
    BY <1>3
  <2> QED
    BY <1>2, <1>3, <2>2, <2>3, <2>4
<1>4. CASE s.type = "integer" /\ v.kind # "number"
  <2>1. ~IsOfType(v, s.type)
    BY <1>4 DEF IsOfType
  <2> QED
    BY <1>1, <1>2, <1>4, <2>1
<1>5. CASE s.type # "integer"
  <2>1. IsOfType(v, s.type) <=> v.kind = s.type
    BY <1>5 DEF IsOfType
  <2> QED
    BY <1>2, <1>5, <2>1
<1> QED
  BY <1>3, <1>4, <1>5

LEMMA KeywordsMeant ==
    ASSUME NEW f, NEW s, NEW v
    PROVE  /\ Holds(f, s, v, "always") <=> s.always
           /\ Holds(f, s, v, "const") <=> v = s.const
           /\ Holds(f, s, v, "enum") <=> \E i \in DOMAIN s.enum : s.enum[i] = v
           /\ Holds(f, s, v, "minimum") <=> (v.kind = "number" => v.half >= s.minimum)
           /\ Holds(f, s, v, "maximum") <=> (v.kind = "number" => v.half <= s.maximum)
           /\ Holds(f, s, v, "minLength") <=> (v.kind = "string" => Len(v.text) >= s.minLength)
           /\ Holds(f, s, v, "maxLength") <=> (v.kind = "string" => Len(v.text) <= s.maxLength)
           /\ Holds(f, s, v, "minItems") <=> (v.kind = "array" => Len(v.items) >= s.minItems)
           /\ Holds(f, s, v, "maxItems") <=> (v.kind = "array" => Len(v.items) <= s.maxItems)
           /\ Holds(f, s, v, "items") <=>
                 (v.kind = "array" => \A i \in DOMAIN v.items : f[s.items][v.items[i]])
           /\ Holds(f, s, v, "required") <=>
                 (v.kind = "object" => ToSet(s.required) \subseteq DOMAIN v.fields)
           /\ Holds(f, s, v, "properties") <=>
                 (v.kind = "object" =>
                     \A name \in DOMAIN v.fields \cap DOMAIN s.properties :
                        f[s.properties[name]][v.fields[name]])
           /\ Holds(f, s, v, "additionalProperties") <=>
                 (v.kind = "object" /\ ~s.additionalProperties
                     => DOMAIN v.fields \subseteq DOMAIN Properties(s))
<1>1. Holds(f, s, v, "always") <=> s.always
  BY Zenon DEF Holds
<1>2. Holds(f, s, v, "const") <=> v = s.const
  BY DEF Holds
<1>3. Holds(f, s, v, "enum") <=> \E i \in DOMAIN s.enum : s.enum[i] = v
  BY DEF Holds
<1>4. Holds(f, s, v, "minimum") <=> (v.kind = "number" => v.half >= s.minimum)
  BY DEF Holds
<1>5. Holds(f, s, v, "maximum") <=> (v.kind = "number" => v.half <= s.maximum)
  BY DEF Holds
<1>6. Holds(f, s, v, "minLength") <=> (v.kind = "string" => Len(v.text) >= s.minLength)
  BY DEF Holds
<1>7. Holds(f, s, v, "maxLength") <=> (v.kind = "string" => Len(v.text) <= s.maxLength)
  BY DEF Holds
<1>8. Holds(f, s, v, "minItems") <=> (v.kind = "array" => Len(v.items) >= s.minItems)
  BY DEF Holds
<1>9. Holds(f, s, v, "maxItems") <=> (v.kind = "array" => Len(v.items) <= s.maxItems)
  BY DEF Holds
<1>10. Holds(f, s, v, "items") <=>
          (v.kind = "array" => \A i \in DOMAIN v.items : f[s.items][v.items[i]])
  BY DEF Holds
<1>11. Holds(f, s, v, "required") <=>
          (v.kind = "object" => ToSet(s.required) \subseteq DOMAIN v.fields)
  BY DEF Holds
<1>12. Holds(f, s, v, "properties") <=>
          (v.kind = "object" =>
              \A name \in DOMAIN v.fields \cap DOMAIN s.properties :
                 f[s.properties[name]][v.fields[name]])
  BY DEF Holds
<1>13. Holds(f, s, v, "additionalProperties") <=>
          (v.kind = "object" /\ ~s.additionalProperties
              => DOMAIN v.fields \subseteq DOMAIN Properties(s))
  BY DEF Holds
<1> QED
  BY <1>1, <1>2, <1>3, <1>4, <1>5, <1>6, <1>7, <1>8, <1>9, <1>10, <1>11, <1>12, <1>13

Meaningful == {"always", "type", "const", "enum", "minimum", "maximum", "minLength",
               "maxLength", "minItems", "maxItems", "items", "required", "properties",
               "additionalProperties"}

LEMMA OthersHold ==
    ASSUME NEW f, NEW s, NEW v, NEW keyword, keyword \notin Meaningful
    PROVE  Holds(f, s, v, keyword)
BY DEF Holds, Meaningful

LEMMA MeetsMeaningful ==
    ASSUME NEW f, NEW s, NEW v
    PROVE  Meets(f, s, v) <=>
              \A keyword \in Meaningful : Has(s, keyword) => Holds(f, s, v, keyword)
BY OthersHold DEF Meets, Has

(* Where validateData finds no error.                                        *)
NoErrors == [s \in Schemas |-> [v \in Data |-> Errors[s][v] = {}]]

LEMMA NoErrorsThere ==
    ASSUME NEW s \in Schemas, NEW v \in Data
    PROVE  NoErrors[s][v] <=> Errors[s][v] = {}
BY Zenon DEF NoErrors

LEMMA OwnMeant ==
    ASSUME NEW f, NEW s \in Schemas, NEW v \in Data
    PROVE  (\A keyword \in {"type", "const", "enum"} :
                Has(s, keyword) => Holds(f, s, v, keyword))
           <=> /\ Has(s, "type") => IsOfType(v, s.type)
               /\ Has(s, "const") => v = s.const
               /\ Has(s, "enum") => v \in ToSet(s.enum)
<1>1. Holds(f, s, v, "type") <=> IsOfType(v, s.type)
  BY TypeMeant
<1>2. Holds(f, s, v, "const") <=> v = s.const
  BY KeywordsMeant
<1>3. Holds(f, s, v, "enum") <=> v \in ToSet(s.enum)
  BY KeywordsMeant DEF ToSet
<1> QED
  BY <1>1, <1>2, <1>3

LEMMA BoundsMeant ==
    ASSUME NEW f, NEW s, NEW v
    PROVE  (\A keyword \in {"minimum", "maximum", "minLength", "maxLength", "minItems", "maxItems"} :
                Has(s, keyword) => Holds(f, s, v, keyword))
           <=> /\ v.kind = "array" => IsBetween(Len(v.items), s, "minItems", "maxItems")
               /\ v.kind = "string" => IsBetween(Len(v.text), s, "minLength", "maxLength")
               /\ v.kind = "number" => IsBetween(v.half, s, "minimum", "maximum")
<1>1. /\ Holds(f, s, v, "minimum") <=> (v.kind = "number" => v.half >= s.minimum)
      /\ Holds(f, s, v, "maximum") <=> (v.kind = "number" => v.half <= s.maximum)
      /\ Holds(f, s, v, "minLength") <=> (v.kind = "string" => Len(v.text) >= s.minLength)
      /\ Holds(f, s, v, "maxLength") <=> (v.kind = "string" => Len(v.text) <= s.maxLength)
      /\ Holds(f, s, v, "minItems") <=> (v.kind = "array" => Len(v.items) >= s.minItems)
      /\ Holds(f, s, v, "maxItems") <=> (v.kind = "array" => Len(v.items) <= s.maxItems)
  BY KeywordsMeant
<1> DEFINE H(keyword) == Has(s, keyword) => Holds(f, s, v, keyword)
<1>2. (\A keyword \in {"minimum", "maximum", "minLength", "maxLength", "minItems", "maxItems"} :
          H(keyword))
      <=> /\ H("minimum") /\ H("maximum") /\ H("minLength")
          /\ H("maxLength") /\ H("minItems") /\ H("maxItems")
  <2> HIDE DEF H
  <2> QED
    OBVIOUS
<1>3. H("minimum") /\ H("maximum") <=>
         (v.kind = "number" => IsBetween(v.half, s, "minimum", "maximum"))
  BY <1>1, Zenon DEF IsBetween
<1>4. H("minLength") /\ H("maxLength") <=>
         (v.kind = "string" => IsBetween(Len(v.text), s, "minLength", "maxLength"))
  BY <1>1, Zenon DEF IsBetween
<1>5. H("minItems") /\ H("maxItems") <=>
         (v.kind = "array" => IsBetween(Len(v.items), s, "minItems", "maxItems"))
  BY <1>1, Zenon DEF IsBetween
<1> QED
  BY <1>2, <1>3, <1>4, <1>5

LEMMA ItemsMeant ==
    ASSUME NEW s \in Schemas, NEW v \in Data
    PROVE  (Has(s, "items") => Holds(NoErrors, s, v, "items"))
           <=> (v.kind = "array" /\ Has(s, "items")
                   => \A i \in DOMAIN v.items : Errors[s.items][v.items[i]] = {})
<1>1. Holds(NoErrors, s, v, "items") <=>
         (v.kind = "array" => \A i \in DOMAIN v.items : NoErrors[s.items][v.items[i]])
  BY KeywordsMeant
<1>2. ASSUME v.kind = "array", Has(s, "items"), NEW i \in DOMAIN v.items
      PROVE  NoErrors[s.items][v.items[i]] <=> Errors[s.items][v.items[i]] = {}
  <2>1. v.items \in Seq(Data)
    BY <1>2, DataAssumption
  <2>2. v.items[i] \in Data
    BY <2>1
  <2>3. s.items \in Schemas
    BY <1>2, SchemasAssumption
  <2> QED
    BY <2>2, <2>3, NoErrorsThere
<1> QED
  BY <1>1, <1>2

LEMMA FieldsMeant ==
    ASSUME NEW s \in Schemas, NEW v \in Data
    PROVE  (\A keyword \in {"required", "properties", "additionalProperties"} :
                Has(s, keyword) => Holds(NoErrors, s, v, keyword))
           <=> (v.kind = "object" =>
                   /\ Has(s, "required") => ToSet(s.required) \subseteq DOMAIN v.fields
                   /\ FieldsClean(Errors, s, v))
<1>1. CASE v.kind # "object"
  BY <1>1, KeywordsMeant
<1>2. CASE v.kind = "object"
  <2>1. Holds(NoErrors, s, v, "required") <=> ToSet(s.required) \subseteq DOMAIN v.fields
    BY <1>2, KeywordsMeant
  <2>2. Holds(NoErrors, s, v, "properties") <=>
           \A name \in DOMAIN v.fields \cap DOMAIN s.properties :
              NoErrors[s.properties[name]][v.fields[name]]
    BY <1>2, KeywordsMeant
  <2>3. Holds(NoErrors, s, v, "additionalProperties") <=>
           (~s.additionalProperties => DOMAIN v.fields \subseteq DOMAIN Properties(s))
    BY <1>2, KeywordsMeant
  <2>4. (Has(s, "properties") => Holds(NoErrors, s, v, "properties")) <=>
           \A name \in DOMAIN v.fields : name \in DOMAIN Properties(s) =>
              Errors[Properties(s)[name]][v.fields[name]] = {}
    <3>1. ASSUME NEW name \in DOMAIN v.fields, name \in DOMAIN Properties(s)
          PROVE  /\ Has(s, "properties") /\ s.properties[name] = Properties(s)[name]
                 /\ NoErrors[Properties(s)[name]][v.fields[name]] <=>
                       Errors[Properties(s)[name]][v.fields[name]] = {}
      <4>1. /\ Has(s, "properties") /\ s.properties[name] = Properties(s)[name]
            /\ Properties(s)[name] \in Schemas
        BY <3>1, PropertyParts
      <4>2. v.fields[name] \in Data
        BY <1>2, DataAssumption
      <4> QED
        BY <4>1, <4>2, NoErrorsThere
    <3>2. Has(s, "properties") => DOMAIN Properties(s) = DOMAIN s.properties
      BY DEF Properties
    <3> QED
      BY <2>2, <3>1, <3>2
  <2>5. FieldsClean(Errors, s, v) <=>
           /\ \A name \in DOMAIN v.fields : name \in DOMAIN Properties(s) =>
                 Errors[Properties(s)[name]][v.fields[name]] = {}
           /\ \A name \in DOMAIN v.fields : name \notin DOMAIN Properties(s) =>
                 (Has(s, "additionalProperties") => s.additionalProperties)
    BY Zenon DEF FieldsClean, IsFieldClean
  <2>6. (Has(s, "additionalProperties") => Holds(NoErrors, s, v, "additionalProperties")) <=>
           \A name \in DOMAIN v.fields : name \notin DOMAIN Properties(s) =>
              (Has(s, "additionalProperties") => s.additionalProperties)
    BY <2>3, Zenon
  <2> QED
    BY <1>2, <2>1, <2>4, <2>5, <2>6
<1> QED
  BY <1>1, <1>2

LEMMA CleanIsMeant ==
    ASSUME NEW s \in Schemas, NEW v \in Data
    PROVE  IsClean(Errors, s, v) <=> Meets(NoErrors, s, v)
<1> DEFINE H(keyword) == Has(s, keyword) => Holds(NoErrors, s, v, keyword)
           own == {"type", "const", "enum"}
           bounds == {"minimum", "maximum", "minLength", "maxLength", "minItems", "maxItems"}
           fields == {"required", "properties", "additionalProperties"}
<1>1. CASE Has(s, "always")
  <2>1. \A keyword : Has(s, keyword) => keyword = "always"
    BY <1>1, SchemasAssumption DEF Has
  <2>2. Meets(NoErrors, s, v) <=> Holds(NoErrors, s, v, "always")
    BY <1>1, <2>1 DEF Meets, Has
  <2>3. Holds(NoErrors, s, v, "always") <=> s.always
    BY KeywordsMeant
  <2> QED
    BY <1>1, <2>2, <2>3 DEF IsClean
<1>2. CASE ~Has(s, "always")
  <2>1. Meaningful = {"always", "items"} \cup own \cup bounds \cup fields
    BY DEF Meaningful
  <2>2. Meets(NoErrors, s, v) <=> \A keyword \in Meaningful : H(keyword)
    BY MeetsMeaningful
  <2>3. H("always")
    BY <1>2
  <2> HIDE DEF own, bounds, fields, H
  <2>4. Meets(NoErrors, s, v) <=>
           /\ H("items")
           /\ \A keyword \in own : H(keyword)
           /\ \A keyword \in bounds : H(keyword)
           /\ \A keyword \in fields : H(keyword)
    BY <2>1, <2>2, <2>3
  <2>5. (\A keyword \in own : H(keyword)) <=>
           /\ Has(s, "type") => IsOfType(v, s.type)
           /\ Has(s, "const") => v = s.const
           /\ Has(s, "enum") => v \in ToSet(s.enum)
    BY OwnMeant DEF own, H
  <2>6. (\A keyword \in bounds : H(keyword)) <=>
           /\ v.kind = "array" => IsBetween(Len(v.items), s, "minItems", "maxItems")
           /\ v.kind = "string" => IsBetween(Len(v.text), s, "minLength", "maxLength")
           /\ v.kind = "number" => IsBetween(v.half, s, "minimum", "maximum")
    BY BoundsMeant, Zenon DEF bounds, H
  <2>7. H("items") <=>
           (v.kind = "array" /\ Has(s, "items")
               => \A i \in DOMAIN v.items : Errors[s.items][v.items[i]] = {})
    BY ItemsMeant DEF H
  <2>8. (\A keyword \in fields : H(keyword)) <=>
           (v.kind = "object" =>
               /\ Has(s, "required") => ToSet(s.required) \subseteq DOMAIN v.fields
               /\ FieldsClean(Errors, s, v))
    BY FieldsMeant DEF fields, H
  <2>9. PartsClean(Errors, s, v) <=>
           /\ H("items")
           /\ \A keyword \in bounds : H(keyword)
           /\ \A keyword \in fields : H(keyword)
    BY <2>6, <2>7, <2>8, Zenon DEF PartsClean
  <2> QED
    BY <1>2, <2>4, <2>5, <2>9, Zenon DEF IsClean
<1> QED
  BY <1>1, <1>2

LEMMA MeetsIsLocal ==
    ASSUME NEW f, NEW g, NEW s \in Schemas, AgreeBelow(f, g, s), NEW v
    PROVE  Meets(f, s, v) <=> Meets(g, s, v)
<1>1. ASSUME NEW keyword, Has(s, keyword)
      PROVE  Holds(f, s, v, keyword) <=> Holds(g, s, v, keyword)
  <2>1. CASE keyword = "items"
    <3>1. f[s.items] = g[s.items]
      BY <1>1, <2>1, SchemasAssumption DEF AgreeBelow
    <3>2. \A h : Holds(h, s, v, "items") <=>
             (v.kind = "array" => \A i \in DOMAIN v.items : h[s.items][v.items[i]])
      BY KeywordsMeant
    <3> QED
      BY <2>1, <3>1, <3>2
  <2>2. CASE keyword = "properties"
    <3>1. ASSUME NEW name \in DOMAIN s.properties
          PROVE  f[s.properties[name]] = g[s.properties[name]]
      <4>1. name \in DOMAIN Properties(s)
        BY <1>1, <2>2 DEF Properties
      <4> QED
        BY <4>1, PropertyParts DEF AgreeBelow
    <3>2. \A h : Holds(h, s, v, "properties") <=>
             (v.kind = "object" =>
                 \A name \in DOMAIN v.fields \cap DOMAIN s.properties :
                    h[s.properties[name]][v.fields[name]])
      BY KeywordsMeant
    <3> QED
      BY <2>2, <3>1, <3>2
  <2>3. CASE keyword \notin {"items", "properties"}
    BY <2>3 DEF Holds
  <2> QED
    BY <2>1, <2>2, <2>3
<1> QED
  BY <1>1 DEF Meets, Has

(* For every Schema, however deep, and every value: validateData finds no    *)
(* error exactly when the value satisfies all keywords of the Schema.        *)
THEOREM ValidateDataIsCorrect ==
    ASSUME NEW s \in Schemas, NEW v \in Data
    PROVE  ValidateData(s, v) = {} <=> Satisfies[s][v]
<1>1. ASSUME NEW t \in Schemas, NEW w \in Data
      PROVE  Errors[t][w] = {} <=> Meets(NoErrors, t, w)
  <2>1. SchemaErrors(Errors, t, w) = {} <=> IsClean(Errors, t, w)
    BY ErrorsDefined, SchemaErrorsShape
  <2> QED
    BY <2>1, ErrorsDefined, CleanIsMeant
<1>2. NoErrors = [t \in Schemas |-> [w \in Data |-> Meets(NoErrors, t, w)]]
  <2>1. \A t \in Schemas, w \in Data : (Errors[t][w] = {}) = Meets(NoErrors, t, w)
    <3>1. \A t, w : Meets(NoErrors, t, w) \in BOOLEAN
      BY DEF Meets
    <3> QED
      BY <1>1, <3>1
  <2> DEFINE M == [t \in Schemas |-> [w \in Data |-> Meets(NoErrors, t, w)]]
  <2>2. NoErrors = M
    BY <2>1 DEF NoErrors
  <2> QED
    BY <2>2
<1>3. Satisfies = [t \in Schemas |-> [w \in Data |-> Meets(Satisfies, t, w)]]
  BY <1>2, Zenon DEF Satisfies
<1> DEFINE T == {t \in Schemas : Satisfies[t] = NoErrors[t]}
<1>4. ASSUME NEW t \in Schemas, \A part \in Schemas : Depth[part] < Depth[t] => part \in T
      PROVE  t \in T
  <2>1. AgreeBelow(Satisfies, NoErrors, t)
    BY <1>4 DEF AgreeBelow
  <2>2. \A w \in Data : Meets(Satisfies, t, w) = Meets(NoErrors, t, w)
    <3>1. \A f, w : Meets(f, t, w) \in BOOLEAN
      BY DEF Meets
    <3> QED
      BY <2>1, <3>1, MeetsIsLocal
  <2>3. Satisfies[t] = [w \in Data |-> Meets(Satisfies, t, w)]
    BY <1>3, Zenon
  <2>4. NoErrors[t] = [w \in Data |-> Meets(NoErrors, t, w)]
    BY <1>2, Zenon
  <2> QED
    BY <2>2, <2>3, <2>4
<1>5. Schemas \subseteq T
  <2> HIDE DEF T
  <2>1. Depth \in [Schemas -> Nat]
    BY SchemasAssumption
  <2> QED
    BY <1>4, <2>1, DepthInduction
<1>6. Satisfies[s][v] = NoErrors[s][v]
  BY <1>5
<1> QED
  BY <1>6, NoErrorsThere DEF ValidateData

-----------------------------------------------------------------------------
(* The names in the errors are declared, at the depth they are found.        *)
NamesHere(s) == DOMAIN Properties(s) \cup (IF Has(s, "required") THEN ToSet(s.required) ELSE {})
NamesBelow(declared, s) ==
    UNION {declared[Properties(s)[name]] : name \in DOMAIN Properties(s)}
NamesInItems(declared, s) == IF Has(s, "items") THEN declared[s.items] ELSE {}

NamesOf(declared, s) == NamesHere(s) \cup NamesInItems(declared, s) \cup NamesBelow(declared, s)

SchemaNames == UNION {NamesHere(s) : s \in Schemas}

NamesStep ==
    [x \in Schemas \X [Schemas -> SUBSET SchemaNames] |-> NamesOf(x[2], x[1])]

LEMMA NamesAreLocal ==
    ASSUME NEW f, NEW g, NEW s \in Schemas, AgreeBelow(f, g, s)
    PROVE  NamesOf(f, s) = NamesOf(g, s)
<1>1. \A name \in DOMAIN Properties(s) : f[Properties(s)[name]] = g[Properties(s)[name]]
  BY PropertyParts DEF AgreeBelow
<1>2. Has(s, "items") => f[s.items] = g[s.items]
  BY SchemasAssumption DEF AgreeBelow
<1>3. NamesBelow(f, s) = NamesBelow(g, s)
  BY <1>1 DEF NamesBelow
<1>4. NamesInItems(f, s) = NamesInItems(g, s)
  BY <1>2 DEF NamesInItems
<1> QED
  BY <1>3, <1>4 DEF NamesOf

LEMMA NamesTyped ==
    ASSUME NEW s \in Schemas, NEW f \in [Schemas -> SUBSET SchemaNames]
    PROVE  NamesOf(f, s) \in SUBSET SchemaNames
<1>1. NamesHere(s) \subseteq SchemaNames
  BY DEF SchemaNames
<1>2. NamesBelow(f, s) \subseteq SchemaNames
  BY PropertyParts DEF NamesBelow
<1>3. NamesInItems(f, s) \subseteq SchemaNames
  BY SchemasAssumption DEF NamesInItems
<1> QED
  BY <1>1, <1>2, <1>3 DEF NamesOf

LEMMA DeclaredNamesDefined ==
    \A s \in Schemas : DeclaredNames[s] = NamesOf(DeclaredNames, s)
<1> DEFINE B == SUBSET SchemaNames
<1>1. ASSUME NEW s \in Schemas, NEW f \in [Schemas -> B]
      PROVE  NamesStep[<<s, f>>] = NamesOf(f, s) /\ NamesStep[<<s, f>>] \in B
  <2>1. NamesStep[<<s, f>>] = NamesOf(f, s)
    BY DEF NamesStep
  <2> QED
    BY <2>1, NamesTyped
<1>2. NamesStep \in [Schemas \X [Schemas -> B] -> B]
  <2>1. NamesStep = [x \in Schemas \X [Schemas -> B] |-> NamesStep[x]]
    BY DEF NamesStep
  <2>2. ASSUME NEW x \in Schemas \X [Schemas -> B] PROVE NamesStep[x] \in B
    <3>1. x = <<x[1], x[2]>> /\ x[1] \in Schemas /\ x[2] \in [Schemas -> B]
      OBVIOUS
    <3> HIDE DEF B
    <3> QED
      BY <1>1, <3>1
  <2> HIDE DEF B
  <2> QED
    BY <2>1, <2>2
<1>3. IsLocal(NamesStep, Schemas, Depth, B)
  <2> SUFFICES ASSUME NEW s \in Schemas, NEW f \in [Schemas -> B], NEW g \in [Schemas -> B],
                      \A part \in Schemas : Depth[part] < Depth[s] => f[part] = g[part]
               PROVE  NamesStep[<<s, f>>] = NamesStep[<<s, g>>]
    BY DEF IsLocal
  <2>1. AgreeBelow(f, g, s)
    BY DEF AgreeBelow
  <2>2. NamesOf(f, s) = NamesOf(g, s)
    BY <2>1, NamesAreLocal
  <2> QED
    BY <1>1, <2>2
<1>4. Solutions(NamesStep, Schemas, B) # {}
  <2>1. Depth \in [Schemas -> Nat] /\ {} \in B
    BY SchemasAssumption
  <2> HIDE DEF B
  <2> QED
    BY <1>2, <1>3, <2>1, RecursionExists
<1>5. PICK f \in [Schemas -> B] : \A s \in Schemas : f[s] = NamesStep[<<s, f>>]
  BY <1>4 DEF Solutions
<1>6. f = [s \in Schemas |-> NamesOf(f, s)]
  BY <1>1, <1>5
<1>7. DeclaredNames = [s \in Schemas |-> NamesOf(DeclaredNames, s)]
  BY <1>6, Zenon DEF DeclaredNames, NamesOf, NamesHere, NamesBelow, NamesInItems
<1> QED
  BY <1>7, Zenon

NamesDeclared(path, s) ==
    \A i \in DOMAIN path : "name" \in DOMAIN path[i] => path[i].name \in DeclaredNames[s]

LEMMA DeclaredWithin ==
    ASSUME NEW s \in Schemas
    PROVE  /\ DOMAIN Properties(s) \subseteq DeclaredNames[s]
           /\ Has(s, "required") => ToSet(s.required) \subseteq DeclaredNames[s]
           /\ \A name \in DOMAIN Properties(s) :
                 DeclaredNames[Properties(s)[name]] \subseteq DeclaredNames[s]
           /\ Has(s, "items") => DeclaredNames[s.items] \subseteq DeclaredNames[s]
<1>1. DeclaredNames[s] = NamesOf(DeclaredNames, s)
  BY DeclaredNamesDefined
<1>2. DOMAIN Properties(s) \subseteq NamesHere(s)
  BY DEF NamesHere
<1>3. Has(s, "required") => ToSet(s.required) \subseteq NamesHere(s)
  BY DEF NamesHere
<1>4. ASSUME NEW name \in DOMAIN Properties(s)
      PROVE  DeclaredNames[Properties(s)[name]] \subseteq NamesBelow(DeclaredNames, s)
  BY DEF NamesBelow
<1>5. Has(s, "items") => DeclaredNames[s.items] \subseteq NamesInItems(DeclaredNames, s)
  BY DEF NamesInItems
<1> QED
  BY <1>1, <1>2, <1>3, <1>4, <1>5 DEF NamesOf

LEMMA PathJoined ==
    ASSUME NEW s \in Schemas, NEW part \in Schemas, NEW place, NEW path \in Seq(Places),
           DeclaredNames[part] \subseteq DeclaredNames[s],
           "name" \in DOMAIN place => place.name \in DeclaredNames[s],
           NamesDeclared(path, part)
    PROVE  NamesDeclared(<<place>> \o path, s)
<1> DEFINE whole == <<place>> \o path
<1>1. /\ DOMAIN whole = 1 .. Len(path) + 1 /\ Len(path) \in Nat /\ DOMAIN path = 1 .. Len(path)
      /\ whole[1] = place
      /\ \A i \in 2 .. Len(path) + 1 : whole[i] = path[i - 1]
  OBVIOUS
<1> HIDE DEF whole
<1>2. ASSUME NEW i \in DOMAIN whole, "name" \in DOMAIN whole[i]
      PROVE  whole[i].name \in DeclaredNames[s]
  <2>1. CASE i = 1
    BY <1>1, <1>2, <2>1
  <2>2. CASE i # 1
    <3>1. i - 1 \in DOMAIN path /\ whole[i] = path[i - 1]
      BY <1>1, <2>2
    <3> QED
      BY <1>2, <3>1 DEF NamesDeclared
  <2> QED
    BY <2>1, <2>2
<1> QED
  BY <1>2 DEF NamesDeclared, whole

(* "Never returns ... unknown property names in diagnostics".                *)
LEMMA ErrorsNameTheDeclared ==
    ASSUME NEW s \in Schemas, NEW v \in Data, NEW e \in Errors[s][v]
    PROVE  NamesDeclared(e.path, s)
<1> DEFINE T == {t \in Schemas : \A w \in Data : \A d \in Errors[t][w] : NamesDeclared(d.path, t)}
<1>1. ASSUME NEW t \in Schemas, \A part \in Schemas : Depth[part] < Depth[t] => part \in T
      PROVE  t \in T
  <2> SUFFICES ASSUME NEW w \in Data, NEW d \in Errors[t][w]
               PROVE  NamesDeclared(d.path, t)
    OBVIOUS
  <2>1. IsPlaced(Errors, t, d)
    BY ErrorsDefined, SchemaErrorsShape
  <2>2. ASSUME NEW part \in Schemas, NEW x \in Data, NEW inner \in Errors[part][x]
        PROVE  inner.path \in Seq(Places)
    BY <2>2, ErrorsDefined, ErrorsOfPart DEF ErrorSet
  <2>3. CASE d.path = <<>>
    BY <2>3 DEF NamesDeclared
  <2>4. ASSUME Has(t, "required"), NEW name \in ToSet(t.required), d.path = <<AtName(name)>>
        PROVE  NamesDeclared(d.path, t)
    <3>1. name \in DeclaredNames[t]
      BY <2>4, DeclaredWithin
    <3>2. DOMAIN d.path = {1} /\ d.path[1] = AtName(name)
      BY <2>4
    <3> QED
      BY <3>1, <3>2 DEF NamesDeclared, AtName
  <2>5. ASSUME NEW name \in DOMAIN Properties(t), NEW x \in Data,
               NEW inner \in Errors[Properties(t)[name]][x],
               d.path = <<AtName(name)>> \o inner.path
        PROVE  NamesDeclared(d.path, t)
    <3> DEFINE part == Properties(t)[name]
               place == AtName(name)
    <3>1. part \in Schemas /\ Depth[part] < Depth[t]
      BY PropertyParts
    <3>2. NamesDeclared(inner.path, part) /\ inner.path \in Seq(Places)
      BY <1>1, <2>2, <3>1
    <3>3. DeclaredNames[part] \subseteq DeclaredNames[t] /\ name \in DeclaredNames[t]
      BY DeclaredWithin
    <3>4. place.name = name
      BY DEF AtName
    <3> HIDE DEF part, place
    <3>5. NamesDeclared(<<place>> \o inner.path, t)
      BY <3>1, <3>2, <3>3, <3>4, PathJoined
    <3> QED
      BY <2>5, <3>5 DEF place
  <2>6. ASSUME Has(t, "items"), NEW i \in Nat, NEW x \in Data, NEW inner \in Errors[t.items][x],
               d.path = <<AtIndex(i)>> \o inner.path
        PROVE  NamesDeclared(d.path, t)
    <3> DEFINE part == t.items
               place == AtIndex(i)
    <3>1. part \in Schemas /\ Depth[part] < Depth[t]
      BY <2>6, SchemasAssumption
    <3>2. NamesDeclared(inner.path, part) /\ inner.path \in Seq(Places)
      BY <1>1, <2>2, <3>1
    <3>3. DeclaredNames[part] \subseteq DeclaredNames[t]
      BY <2>6, DeclaredWithin
    <3>4. "name" \notin DOMAIN place
      BY DEF AtIndex
    <3> HIDE DEF part, place
    <3>5. NamesDeclared(<<place>> \o inner.path, t)
      BY <3>1, <3>2, <3>3, <3>4, PathJoined
    <3> QED
      BY <2>6, <3>5 DEF place
  <2> QED
    BY <2>1, <2>3, <2>4, <2>5, <2>6 DEF IsPlaced
<1>2. Schemas \subseteq T
  <2> HIDE DEF T
  <2>1. Depth \in [Schemas -> Nat]
    BY SchemasAssumption
  <2> QED
    BY <1>1, <2>1, DepthInduction
<1> QED
  BY <1>2

-----------------------------------------------------------------------------
(* What validateDataSchema has accepted: its visit reaches every part, and   *)
(* no name of an accepted Schema is outside the pattern.                     *)
Depths == 0 .. MaxDepth + 1

VisitStep ==
    [x \in Schemas \X [Schemas -> [Depths -> BOOLEAN]] |->
        [depth \in Depths |-> VisitPart(x[2], x[1], depth)]]

LEMMA VisitIsLocal ==
    ASSUME NEW f, NEW g, NEW s \in Schemas, AgreeBelow(f, g, s), NEW depth
    PROVE  VisitPart(f, s, depth) = VisitPart(g, s, depth)
<1>1. \A name \in DOMAIN Properties(s) : f[Properties(s)[name]] = g[Properties(s)[name]]
  BY PropertyParts DEF AgreeBelow
<1>2. Has(s, "items") => f[s.items] = g[s.items]
  BY SchemasAssumption DEF AgreeBelow
<1>3. VisitPart(f, s, depth) <=> VisitPart(g, s, depth)
  BY <1>1, <1>2 DEF VisitPart
<1>4. VisitPart(f, s, depth) \in BOOLEAN /\ VisitPart(g, s, depth) \in BOOLEAN
  BY DEF VisitPart
<1> QED
  BY <1>3, <1>4

LEMMA VisitDefined ==
    \A s \in Schemas, depth \in Depths :
        VisitAccepts[s][depth] = VisitPart(VisitAccepts, s, depth)
<1> DEFINE B == [Depths -> BOOLEAN]
<1>1. ASSUME NEW s \in Schemas, NEW f \in [Schemas -> B]
      PROVE  /\ VisitStep[<<s, f>>] = [depth \in Depths |-> VisitPart(f, s, depth)]
             /\ VisitStep[<<s, f>>] \in B
  <2>1. VisitStep[<<s, f>>] = [depth \in Depths |-> VisitPart(f, s, depth)]
    BY DEF VisitStep
  <2>2. \A depth \in Depths : VisitPart(f, s, depth) \in BOOLEAN
    BY DEF VisitPart
  <2> QED
    BY <2>1, <2>2
<1>2. VisitStep \in [Schemas \X [Schemas -> B] -> B]
  <2>1. VisitStep = [x \in Schemas \X [Schemas -> B] |-> VisitStep[x]]
    BY DEF VisitStep
  <2>2. ASSUME NEW x \in Schemas \X [Schemas -> B] PROVE VisitStep[x] \in B
    <3>1. x = <<x[1], x[2]>> /\ x[1] \in Schemas /\ x[2] \in [Schemas -> B]
      OBVIOUS
    <3> HIDE DEF B
    <3> QED
      BY <1>1, <3>1
  <2> HIDE DEF B
  <2> QED
    BY <2>1, <2>2
<1>3. IsLocal(VisitStep, Schemas, Depth, B)
  <2> SUFFICES ASSUME NEW s \in Schemas, NEW f \in [Schemas -> B], NEW g \in [Schemas -> B],
                      \A part \in Schemas : Depth[part] < Depth[s] => f[part] = g[part]
               PROVE  VisitStep[<<s, f>>] = VisitStep[<<s, g>>]
    BY DEF IsLocal
  <2>1. AgreeBelow(f, g, s)
    BY DEF AgreeBelow
  <2>2. \A depth \in Depths : VisitPart(f, s, depth) = VisitPart(g, s, depth)
    BY <2>1, VisitIsLocal
  <2>3. [depth \in Depths |-> VisitPart(f, s, depth)] = [depth \in Depths |-> VisitPart(g, s, depth)]
    BY <2>2, Zenon
  <2> QED
    BY <1>1, <2>3
<1>4. Solutions(VisitStep, Schemas, B) # {}
  <2>1. Depth \in [Schemas -> Nat] /\ [depth \in Depths |-> FALSE] \in B
    BY SchemasAssumption
  <2> DEFINE default == [depth \in Depths |-> FALSE]
  <2> HIDE DEF B, default
  <2>2. default \in B
    BY <2>1 DEF default
  <2> QED
    BY <1>2, <1>3, <2>1, <2>2, RecursionExists
<1>5. PICK f \in [Schemas -> B] : \A s \in Schemas : f[s] = VisitStep[<<s, f>>]
  BY <1>4 DEF Solutions
<1>6. f = [s \in Schemas |-> [depth \in Depths |-> VisitPart(f, s, depth)]]
  BY <1>1, <1>5
<1>7. VisitAccepts = [s \in Schemas |-> [depth \in Depths |-> VisitPart(VisitAccepts, s, depth)]]
  BY <1>6, Zenon DEF VisitAccepts, Depths
<1> TAKE s \in Schemas, depth \in Depths
<1>8. VisitAccepts[s] = [d \in Depths |-> VisitPart(VisitAccepts, s, d)]
  BY <1>7, Zenon
<1> QED
  BY <1>8, Zenon

LEMMA AcceptedNames ==
    ASSUME NEW s \in Schemas, IsDataSchema(s)
    PROVE  DeclaredNames[s] \subseteq PropertyNames
<1> DEFINE T == {t \in Schemas : \A depth \in Depths :
                    VisitAccepts[t][depth] => DeclaredNames[t] \subseteq PropertyNames}
<1>1. ASSUME NEW t \in Schemas, \A part \in Schemas : Depth[part] < Depth[t] => part \in T
      PROVE  t \in T
  <2> SUFFICES ASSUME NEW depth \in Depths, VisitAccepts[t][depth]
               PROVE  DeclaredNames[t] \subseteq PropertyNames
    OBVIOUS
  <2>1. VisitPart(VisitAccepts, t, depth)
    BY VisitDefined
  <2>2. DeclaredNames[t] =
           NamesHere(t) \cup NamesInItems(DeclaredNames, t) \cup NamesBelow(DeclaredNames, t)
    BY DeclaredNamesDefined DEF NamesOf
  <2>3. CASE Has(t, "always")
    <3>1. ~Has(t, "properties") /\ ~Has(t, "required") /\ ~Has(t, "items")
      BY <2>3, SchemasAssumption DEF Has
    <3>2. Properties(t) = <<>>
      BY <3>1 DEF Properties
    <3>3. DOMAIN Properties(t) = {}
      BY <3>2
    <3>4. NamesHere(t) = {} /\ NamesInItems(DeclaredNames, t) = {} /\ NamesBelow(DeclaredNames, t) = {}
      BY <3>1, <3>3 DEF NamesHere, NamesInItems, NamesBelow
    <3> QED
      BY <2>2, <3>4
  <2>4. CASE ~Has(t, "always")
    <3>1. /\ depth <= MaxDepth /\ KeywordsAreValid(t)
          /\ \A name \in DOMAIN Properties(t) : VisitAccepts[Properties(t)[name]][depth + 1]
          /\ Has(t, "items") => VisitAccepts[t.items][depth + 1]
      BY <2>1, <2>4 DEF VisitPart
    <3>2. depth + 1 \in Depths
      BY <3>1, LimitsAssumption DEF Depths
    <3>3. NamesHere(t) \subseteq PropertyNames
      BY <3>1 DEF KeywordsAreValid, NamesHere
    <3>4. ASSUME NEW name \in DOMAIN Properties(t)
          PROVE  DeclaredNames[Properties(t)[name]] \subseteq PropertyNames
      <4>1. Properties(t)[name] \in T
        BY <1>1, PropertyParts
      <4> QED
        BY <3>1, <3>2, <4>1
    <3>5. NamesBelow(DeclaredNames, t) \subseteq PropertyNames
      BY <3>4 DEF NamesBelow
    <3>6. NamesInItems(DeclaredNames, t) \subseteq PropertyNames
      <4>1. Has(t, "items") => t.items \in T
        BY <1>1, SchemasAssumption
      <4> QED
        BY <3>1, <3>2, <4>1 DEF NamesInItems
    <3> QED
      BY <2>2, <3>3, <3>5, <3>6
  <2> QED
    BY <2>3, <2>4
<1>2. Schemas \subseteq T
  <2> HIDE DEF T
  <2>1. Depth \in [Schemas -> Nat]
    BY SchemasAssumption
  <2> QED
    BY <1>1, <2>1, DepthInduction
<1>3. VisitAccepts[s][0] /\ 0 \in Depths
  BY LimitsAssumption DEF IsDataSchema, Depths
<1> QED
  BY <1>2, <1>3

-----------------------------------------------------------------------------
(* The data of a request: what was asked is data for a declared Schema, and  *)
(* the answer is that of validateData.                                       *)
DataInv ==
    /\ candidate \in Candidates
    /\ outcome = "none" => asked.schema = None /\ refusal = {}
    /\ asked.schema # None =>
          /\ asked.schema \in Schemas /\ asked.data \in Data
          /\ IsDataSchema(asked.schema)
          /\ outcome = "started" <=> ValidateData(asked.schema, asked.data) = {}
          /\ refusal \subseteq ValidateData(asked.schema, asked.data)

LEMMA DataInvInit == Init => DataInv
  BY DEF Init, DataInv

LEMMA DataInvNext == Inv /\ DataInv /\ [Next]_vars => DataInv'
<1> SUFFICES ASSUME Inv, DataInv, [Next]_vars
             PROVE  DataInv'
  OBVIOUS
<1> USE DEF DataInv
<1>1. ASSUME candidate' = candidate, UNCHANGED <<outcome, asked, refusal>>
      PROVE  DataInv'
  BY <1>1
<1>2. CASE Define
  BY <1>1, <1>2 DEF Define, call
<1>3. CASE Register
  BY <1>1, <1>3 DEF Register, call
<1>4. ASSUME NEW entry \in EntryNames, NEW data \in Data \cup {None}, Invoke(entry, data)
      PROVE  DataInv'
  <2>1. PICK i \in DOMAIN Profiles :
           /\ TakesData(Profiles[i], data)
           /\ LET schema == IF data = None THEN None ELSE Profiles[i].entry.schema
                  errors == IF schema = None THEN {} ELSE ValidateData(schema, data)
                  request == [entry |-> entry, data |-> data, schema |-> schema]
              IN IF errors = {}
                    THEN StartWith(Profiles[i].id, request)
                    ELSE /\ outcome' = "refused"
                         /\ asked' = request
                         /\ refusal' = errors
                         /\ UNCHANGED <<candidate, verdict, registered, session>>
    BY <1>4 DEF Invoke
  <2> DEFINE schema == IF data = None THEN None ELSE Profiles[i].entry.schema
             errors == IF schema = None THEN {} ELSE ValidateData(schema, data)
             request == [entry |-> entry, data |-> data, schema |-> schema]
  <2>2. outcome = "none" /\ refusal = {}
    BY <1>4 DEF Invoke, Ready
  <2>3. schema # None => schema \in Schemas /\ data \in Data /\ IsDataSchema(schema)
    <3>1. ASSUME data # None PROVE Profiles[i].entry # None
      BY <2>1, <3>1 DEF TakesData
    <3>2. ASSUME data # None PROVE EntryIsWellFormed(Profiles[i].entry)
      BY <1>4, <3>1, <3>2 DEF Invoke, Ready, Inv, ValidateApplication, WellFormed
    <3> QED
      BY <3>1, <3>2, CandidatesAssumption DEF Profiles, EntryIsWellFormed
  <2>4. request.schema = schema /\ request.data = data
    OBVIOUS
  <2>5. /\ asked' = request /\ candidate' = candidate
        /\ outcome' = IF errors = {} THEN "started" ELSE "refused"
        /\ refusal' = errors
    <3>1. CASE errors = {}
      <4>1. StartWith(Profiles[i].id, request)
        BY <2>1, <3>1
      <4> HIDE DEF request, errors
      <4> QED
        BY <2>2, <3>1, <4>1 DEF StartWith
    <3>2. CASE errors # {}
      BY <2>1, <3>2
    <3> QED
      BY <3>1, <3>2
  <2>6. schema # None => errors = ValidateData(schema, data)
    OBVIOUS
  <2> HIDE DEF schema, errors, request
  <2>7. asked'.schema = schema /\ asked'.data = data /\ outcome' # "none"
    BY <2>4, <2>5
  <2> QED
    BY <2>3, <2>5, <2>6, <2>7 DEF ValidateData
<1>5. ASSUME NEW id \in Identifiers, StartProfile(id)
      PROVE  DataInv'
  <2> DEFINE request == [entry |-> None, data |-> None, schema |-> None]
  <2>1. StartWith(id, request)
    BY <1>5 DEF StartProfile
  <2>2. asked' = request /\ outcome' = "started" /\ candidate' = candidate
    <3> HIDE DEF request
    <3> QED
      BY <2>1 DEF StartWith
  <2>3. request.schema = None
    OBVIOUS
  <2> HIDE DEF request
  <2> QED
    BY <2>2, <2>3
<1>6. CASE UNCHANGED vars
  BY <1>1, <1>6 DEF vars, call
<1> QED
  BY <1>2, <1>3, <1>4, <1>5, <1>6 DEF Next

(* For every set of Schemas whose parts are less deep, and all data: what    *)
(* starts satisfies its Schema, what is refused does not, and a refusal      *)
(* names only fields that the Schema declares, by names a path can hold.     *)
THEOREM DataMatchesSchemaAlways == Spec => []DataMatchesSchema
<1>1. DataInv => DataMatchesSchema
  <2> SUFFICES ASSUME DataInv, asked.schema # None
               PROVE  /\ outcome = "started" <=> Satisfies[asked.schema][asked.data]
                      /\ \A e \in refusal : NamesDeclared(e.path, asked.schema)
                      /\ DeclaredNames[asked.schema] \subseteq PropertyNames
    BY DEF DataMatchesSchema, NamesDeclared
  <2>1. asked.schema \in Schemas /\ asked.data \in Data /\ IsDataSchema(asked.schema)
    BY DEF DataInv
  <2>2. ValidateData(asked.schema, asked.data) = {} <=> Satisfies[asked.schema][asked.data]
    BY <2>1, ValidateDataIsCorrect
  <2>3. outcome = "started" <=> Satisfies[asked.schema][asked.data]
    BY <2>2 DEF DataInv
  <2>4. \A e \in refusal : e \in Errors[asked.schema][asked.data]
    BY DEF DataInv, ValidateData
  <2> QED
    BY <2>1, <2>3, <2>4, ErrorsNameTheDeclared, AcceptedNames
<1>2. Spec => []DataInv
  BY InvInit, InvNext, DataInvInit, DataInvNext, PTL DEF Spec
<1> QED
  BY <1>1, <1>2, PTL
=============================================================================
