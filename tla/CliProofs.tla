------------------------------- MODULE CliProofs -------------------------------
(* Proofs about the loom command: for any number of commands with any        *)
(* options, on a Task that exists or that one of them creates.               *)
EXTENDS Cli, TLAPS

(* The command that made the Task, from the moment it did.                   *)
Creating(c) ==
    \/ pc[c] \in {"save", "saving", "register"}
    \/ Is(c, "task create") /\ exit[c] = "success"

(* A selected module is the one that was chosen.                             *)
Chosen(c) == selected[c] \in {None} \cup MayRun(c)

(* What holds of one command at each of its steps.                           *)
OnItsWay(c) ==
    /\ pc[c] # "ended" => exit[c] = "running" /\ settled[c] = "none" /\ activity[c] = "unsaid"
    /\ pc[c] \notin {"execute", "ended"} => entered[c] = {}
    /\ pc[c] = "execute" => entered[c] = {selected[c]}
    /\ pc[c] = "validate" => Is(c, "app validate")
    /\ pc[c] \in {"input", "create", "save", "saving", "register"} => Is(c, "task create")
    /\ pc[c] = "preflight" =>
          /\ RunsCode(c) /\ phase[c] = "host-preflight" /\ selected[c] # None
          /\ \/ Is(c, "agent check")
             \/ Is(c, "app validate") /\ selected[c] = HostOfApplication(c)
    /\ pc[c] \in {"load-host", "execute"} =>
          /\ RunsCode(c) /\ (Is(c, "agent invoke") \/ Is(c, "session start"))
          /\ selected[c] # None
          /\ phase[c] \in {"host-loading", "session-execution"}
    /\ pc[c] \in {"open", "prepare", "read-binding", "connect", "check", "invoke", "inspect"}
          => ~Is(c, "app validate") /\ ~Is(c, "task create")
    /\ pc[c] = "prepare" => Is(c, "session start")
    /\ pc[c] = "read-binding" => phase[c] = "host-loading" /\ (Is(c, "session start") => RunsCode(c))
    /\ pc[c] = "check" => Is(c, "agent check")
    /\ pc[c] = "invoke" => Is(c, "agent invoke") /\ phase[c] = "dependency-resolution"
    /\ pc[c] = "inspect" => Is(c, "agent inspect") \/ Is(c, "task inspect")

(* How the Task's root stands between its creator and the others.            *)
RootIsTheirs ==
    /\ ~task => binding = None /\ creatorsHost = None
    /\ binding \in {None, Torn, creatorsHost}
    /\ \A c \in Commands : Creating(c) => task /\ creatorsHost = HostOfApplication(c)
    /\ \A c, d \in Commands : Creating(c) /\ Creating(d) => c = d
    /\ \A c \in Commands :
          /\ pc[c] = "save" => binding = None
          /\ pc[c] = "register" => binding = HostOfApplication(c)

(* The inductive invariant.                                                  *)
Inv ==
    /\ TypeOK
    /\ RootIsTheirs
    /\ \A c \in Commands :
          OnItsWay(c) /\ Chosen(c) /\ EntersOnlyTheChosen(c) /\ SaysWhatIsSo(c)

Step(c) ==
    \/ Parse(c) \/ LoadApplication(c) \/ Validate(c) \/ Preflight(c)
    \/ TaskInput(c) \/ CreateTask(c) \/ SaveBinding(c) \/ FillBinding(c) \/ Register(c)
    \/ OpenTask(c) \/ Prepare(c) \/ ReadBinding(c) \/ Connect(c) \/ Inspect(c)
    \/ Check(c) \/ Invoke(c) \/ LoadHost(c) \/ Execute(c)

(* What a step of another command leaves of this one's.                      *)
Stands(d) ==
    /\ pc'[d] = pc[d] /\ phase'[d] = phase[d]
    /\ selected'[d] = selected[d] /\ invalid'[d] = invalid[d]
    /\ exit'[d] = exit[d] /\ activity'[d] = activity[d]
    /\ entered'[d] = entered[d] /\ settled'[d] = settled[d]

-----------------------------------------------------------------------------
LEMMA NoModule == None # Torn /\ None \notin Modules /\ Torn \notin Modules
  BY MarksAssumption

LEMMA HostsAreModules ==
  ASSUME TypeOK, NEW c \in Commands
  PROVE  /\ HostOfApplication(c) \in Modules \cup {None}
         /\ args[c].host \in Modules \cup {None}
<1>1. args[c] \in Invocations
  BY DEF TypeOK
<1>2. args[c].host \in Modules \cup {None} /\ args[c].exported \in Modules \cup {None}
  BY <1>1, InvocationsAssumption
<1> QED
  BY <1>2 DEF HostOfApplication

LEMMA InvInit == Init => Inv
<1> SUFFICES ASSUME Init
             PROVE  Inv
  OBVIOUS
<1>1. /\ creatorsHost \in Modules \cup {None}
      /\ binding \in {None, Torn, creatorsHost}
      /\ located \in BOOLEAN
      /\ ~task => binding = None /\ creatorsHost = None
  <2>1. CASE task
    BY <2>1 DEF Init
  <2>2. CASE ~task
    BY <2>2 DEF Init
  <2> QED
    BY <2>1, <2>2
<1>2. TypeOK
  BY <1>1 DEF Init, TypeOK, Steps, Phases
<1>3. ASSUME NEW c \in Commands
      PROVE  OnItsWay(c) /\ Chosen(c) /\ EntersOnlyTheChosen(c) /\ SaysWhatIsSo(c) /\ ~Creating(c)
  <2>1. /\ pc[c] = "parse" /\ exit[c] = "running" /\ settled[c] = "none"
        /\ activity[c] = "unsaid" /\ entered[c] = {} /\ selected[c] = None
    BY DEF Init
  <2> QED
    BY <2>1 DEF OnItsWay, Chosen, EntersOnlyTheChosen, SaysWhatIsSo, Creating
<1>4. \A c \in Commands : pc[c] = "parse"
  BY DEF Init
<1> QED
  BY <1>1, <1>2, <1>3, <1>4 DEF Inv, RootIsTheirs

-----------------------------------------------------------------------------
LEMMA StepStands ==
  ASSUME TypeOK, NEW c \in Commands, Step(c), NEW d \in Commands, d # c
  PROVE  Stands(d)
<1> USE DEF TypeOK, Stands, Local, HostUnchanged, Throw, Return, Proceed, answers
<1>1. CASE Parse(c)
  BY <1>1 DEF Parse
<1>2. CASE LoadApplication(c)
  BY <1>2 DEF LoadApplication
<1>3. CASE Validate(c)
  BY <1>3 DEF Validate
<1>4. CASE Preflight(c)
  BY <1>4 DEF Preflight, Enter
<1>5. CASE TaskInput(c)
  BY <1>5 DEF TaskInput
<1>6. CASE CreateTask(c)
  BY <1>6 DEF CreateTask
<1>7. CASE SaveBinding(c)
  BY <1>7 DEF SaveBinding
<1>8. CASE FillBinding(c)
  BY <1>8 DEF FillBinding
<1>9. CASE Register(c)
  BY <1>9 DEF Register
<1>10. CASE OpenTask(c)
  BY <1>10 DEF OpenTask
<1>11. CASE Prepare(c)
  BY <1>11 DEF Prepare
<1>12. CASE ReadBinding(c)
  BY <1>12 DEF ReadBinding
<1>13. CASE Connect(c)
  BY <1>13 DEF Connect
<1>14. CASE Inspect(c)
  BY <1>14 DEF Inspect
<1>15. CASE Check(c)
  BY <1>15 DEF Check
<1>16. CASE Invoke(c)
  BY <1>16 DEF Invoke
<1>17. CASE LoadHost(c)
  BY <1>17 DEF LoadHost, Enter, Ends
<1>18. CASE Execute(c)
  BY <1>18 DEF Execute, Ends
<1> QED
  BY <1>1, <1>2, <1>3, <1>4, <1>5, <1>6, <1>7, <1>8, <1>9,
       <1>10, <1>11, <1>12, <1>13, <1>14, <1>15, <1>16, <1>17, <1>18 DEF Step

LEMMA StepTypes ==
  ASSUME Inv, NEW c \in Commands, Step(c)
  PROVE  TypeOK'
<1>0. /\ TypeOK
      /\ HostOfApplication(c) \in Modules \cup {None}
      /\ pc[c] \in {"preflight", "load-host"} => selected[c] \in Modules
  BY HostsAreModules DEF Inv, OnItsWay, TypeOK
<1> USE <1>0 DEF TypeOK, Steps, Phases, Local, HostUnchanged, Throw, Return, Proceed,
                 answers, root, ModelActivity
<1>1. CASE Parse(c)
  BY <1>1 DEF Parse
<1>2. CASE LoadApplication(c)
  BY <1>2 DEF LoadApplication
<1>3. CASE Validate(c)
  <2>1. /\ selected' = selected \/ selected' = [selected EXCEPT ![c] = HostOfApplication(c)]
        /\ \/ Return(c, "success") \/ Throw(c, phase[c]) \/ Throw(c, "host-preflight")
           \/ Proceed(c, "preflight", "host-preflight")
        /\ UNCHANGED <<invalid, entered, settled, args, root>>
    BY <1>3 DEF Validate
  <2>2. selected' \in [Commands -> Modules \cup {None}]
    BY <2>1
  <2> QED
    BY <2>1, <2>2
<1>4. CASE Preflight(c)
  <2>1. /\ entered' = [entered EXCEPT ![c] = @ \cup {selected[c]}]
        /\ \/ Return(c, "success") \/ Return(c, "failure") \/ Throw(c, phase[c])
        /\ UNCHANGED <<selected, invalid, settled, args, root>>
    BY <1>4 DEF Preflight, Enter
  <2>2. entered[c] \cup {selected[c]} \in SUBSET Modules
    BY <1>4 DEF Preflight
  <2>3. entered' \in [Commands -> SUBSET Modules]
    BY <2>1, <2>2
  <2> QED
    BY <2>1, <2>3
<1>5. CASE TaskInput(c)
  BY <1>5 DEF TaskInput
<1>6. CASE CreateTask(c)
  BY <1>6 DEF CreateTask
<1>7. CASE SaveBinding(c)
  BY <1>7 DEF SaveBinding
<1>8. CASE FillBinding(c)
  BY <1>8 DEF FillBinding
<1>9. CASE Register(c)
  BY <1>9 DEF Register
<1>10. CASE OpenTask(c)
  BY <1>10 DEF OpenTask
<1>11. CASE Prepare(c)
  BY <1>11 DEF Prepare
<1>12. CASE ReadBinding(c)
  BY <1>12 DEF ReadBinding
<1>13. CASE Connect(c)
  BY <1>13 DEF Connect
<1>14. CASE Inspect(c)
  BY <1>14 DEF Inspect
<1>15. CASE Check(c)
  BY <1>15 DEF Check
<1>16. CASE Invoke(c)
  BY <1>16 DEF Invoke
<1>17. CASE LoadHost(c)
  <2>1. /\ entered' = [entered EXCEPT ![c] = @ \cup {selected[c]}]
        /\ \/ Return(c, "failure") \/ Throw(c, phase[c])
           \/ Proceed(c, "execute", "session-execution")
        /\ UNCHANGED <<selected, invalid, settled, args, root>>
    BY <1>17 DEF LoadHost, Enter, Ends
  <2>2. entered[c] \cup {selected[c]} \in SUBSET Modules
    BY <1>17 DEF LoadHost
  <2>3. entered' \in [Commands -> SUBSET Modules]
    BY <2>1, <2>2
  <2> QED
    BY <2>1, <2>3
<1>18. CASE Execute(c)
  <2> PICK status \in {"none", "running", "failed", "completed"} :
        /\ settled' = [settled EXCEPT ![c] = status]
        /\ Ends(c) \/ Return(c, ExitCode(status))
    BY <1>18 DEF Execute
  <2>1. Throw(c, phase[c]) \/ Return(c, "failure") \/ Return(c, "success")
    BY DEF Ends, ExitCode
  <2> QED
    BY <1>18, <2>1 DEF Execute
<1> QED
  BY <1>1, <1>2, <1>3, <1>4, <1>5, <1>6, <1>7, <1>8, <1>9,
       <1>10, <1>11, <1>12, <1>13, <1>14, <1>15, <1>16, <1>17, <1>18 DEF Step

-----------------------------------------------------------------------------
(* Only the command that creates the Task changes its root.                  *)
LEMMA QuietStep ==
  ASSUME Inv, NEW c \in Commands, Step(c),
         ~(CreateTask(c) \/ SaveBinding(c) \/ FillBinding(c) \/ Register(c))
  PROVE  /\ UNCHANGED <<args, task, binding, located, creatorsHost>>
         /\ pc'[c] \notin {"save", "saving", "register"}
         /\ exit'[c] # "success" \/ ~Is(c, "task create")
<1>0. /\ TypeOK
      /\ pc[c] # "ended" => exit[c] = "running"
      /\ pc[c] \in Steps \ {"parse", "load-application", "input", "create", "save", "saving",
                            "register", "ended"} => ~Is(c, "task create")
  BY DEF Inv, OnItsWay, Is, Steps
<1> USE <1>0 DEF TypeOK, Steps, Is, Local, HostUnchanged, Throw, Return, Proceed, root, answers
<1>1. CASE Parse(c)
  BY <1>1 DEF Parse
<1>2. CASE LoadApplication(c)
  BY <1>2 DEF LoadApplication
<1>3. CASE Validate(c)
  BY <1>3 DEF Validate
<1>4. CASE Preflight(c)
  BY <1>4 DEF Preflight, Enter
<1>5. CASE TaskInput(c)
  BY <1>5 DEF TaskInput
<1>6. CASE OpenTask(c)
  BY <1>6 DEF OpenTask
<1>7. CASE Prepare(c)
  BY <1>7 DEF Prepare
<1>8. CASE ReadBinding(c)
  BY <1>8 DEF ReadBinding
<1>9. CASE Connect(c)
  BY <1>9 DEF Connect
<1>10. CASE Inspect(c)
  BY <1>10 DEF Inspect
<1>11. CASE Check(c)
  BY <1>11 DEF Check
<1>12. CASE Invoke(c)
  BY <1>12 DEF Invoke
<1>13. CASE LoadHost(c)
  BY <1>13 DEF LoadHost, Enter, Ends
<1>14. CASE Execute(c)
  BY <1>14 DEF Execute, Ends, ExitCode
<1> QED
  BY <1>1, <1>2, <1>3, <1>4, <1>5, <1>6, <1>7, <1>8, <1>9,
       <1>10, <1>11, <1>12, <1>13, <1>14 DEF Step

LEMMA RootStep ==
  ASSUME Inv, NEW c \in Commands, Step(c)
  PROVE  /\ args' = args
         /\ task => task' /\ creatorsHost' = creatorsHost
         /\ located => located'
         /\ ~task' => binding' = None /\ creatorsHost' = None
         /\ binding' \in {None, Torn, creatorsHost'}
         /\ Creating(c)' => task' /\ creatorsHost' = HostOfApplication(c)
         /\ pc'[c] = "save" => binding' = None
         /\ pc'[c] = "register" => binding' = HostOfApplication(c)
         /\ exit'[c] = "success" /\ Is(c, "task create")
               => task' /\ located' /\ binding' = HostOfApplication(c)
         /\ binding' # binding \/ task' # task \/ creatorsHost' # creatorsHost \/ Creating(c)'
               => Creating(c) \/ ~task
<1>1. /\ TypeOK
      /\ pc[c] # "ended" => exit[c] = "running"
      /\ pc[c] \in {"create", "save", "saving", "register"} => Is(c, "task create")
      /\ ~task => binding = None /\ creatorsHost = None
      /\ binding \in {None, Torn, creatorsHost}
      /\ Creating(c) => task /\ creatorsHost = HostOfApplication(c)
      /\ pc[c] = "save" => binding = None
      /\ pc[c] = "register" => binding = HostOfApplication(c)
  BY DEF Inv, RootIsTheirs, OnItsWay
<1> USE <1>1 DEF TypeOK, Throw, Return, Proceed, answers, root
<1>2. CASE CreateTask(c)
  <2>1. /\ args' = args /\ binding' = binding /\ located' = located
        /\ Is(c, "task create")
        /\ \/ task' = task /\ creatorsHost' = creatorsHost /\ pc'[c] = "ended"
           \/ /\ ~task /\ task' /\ creatorsHost' = HostOfApplication(c)
              /\ \/ pc'[c] = "ended"
                 \/ pc'[c] = "save"
                 \/ pc'[c] = "register" /\ HostOfApplication(c) = None
    BY <1>2 DEF CreateTask
  <2>2. exit'[c] # "success"
    BY <1>2 DEF CreateTask
  <2> QED
    BY <2>1, <2>2 DEF Creating, Is
<1>3. CASE SaveBinding(c)
  <2>1. /\ UNCHANGED <<args, task, located, creatorsHost>>
        /\ pc[c] = "save" /\ exit'[c] # "success"
    BY <1>3 DEF SaveBinding
  <2>2. CASE Throw(c, phase[c]) /\ binding' = binding
    BY <2>1, <2>2 DEF Creating, Is
  <2>3. CASE binding' = Torn /\ Proceed(c, "saving", phase[c])
    BY <2>1, <2>3 DEF Creating, Is
  <2> QED
    BY <1>3, <2>2, <2>3 DEF SaveBinding
<1>4. CASE FillBinding(c)
  <2>1. /\ UNCHANGED <<args, task, located, creatorsHost>>
        /\ pc[c] = "saving" /\ exit'[c] # "success"
        /\ \/ binding' = binding /\ pc'[c] = "ended"
           \/ binding' = HostOfApplication(c) /\ pc'[c] \in {"ended", "register"}
    BY <1>4 DEF FillBinding
  <2> QED
    BY <2>1 DEF Creating, Is
<1>5. CASE Register(c)
  <2>1. /\ UNCHANGED <<args, task, binding, creatorsHost>>
        /\ pc[c] = "register" /\ pc'[c] = "ended"
        /\ \/ located' = located /\ exit'[c] # "success"
           \/ located' = TRUE
    BY <1>5 DEF Register
  <2> QED
    BY <2>1 DEF Creating, Is
<1>6. CASE ~(CreateTask(c) \/ SaveBinding(c) \/ FillBinding(c) \/ Register(c))
  BY <1>6, QuietStep DEF Creating, Is
<1> QED
  BY <1>2, <1>3, <1>4, <1>5, <1>6

-----------------------------------------------------------------------------
(* What a command's own step makes of it. *)
LEMMA OwnWay ==
  ASSUME Inv, NEW c \in Commands, Step(c)
  PROVE  OnItsWay(c)'
<1>0. TypeOK /\ OnItsWay(c) /\ args' = args
  BY RootStep DEF Inv
<1>1. /\ HostOfApplication(c)' = HostOfApplication(c)
      /\ RunsCode(c)' = RunsCode(c)
  BY <1>0 DEF HostOfApplication, RunsCode, Is, Flag
<1> USE <1>0, <1>1 DEF TypeOK, OnItsWay, Is, Throw, Return, Proceed, Local, HostUnchanged, answers
<1>2. CASE Parse(c)
  BY <1>2 DEF Parse, Flag
<1>3. CASE LoadApplication(c)
  BY <1>3 DEF LoadApplication
<1>4. CASE Validate(c)
  <2>1. CASE Flag(c, "--definition-only")
    BY <1>4, <2>1 DEF Validate
  <2>2. CASE ~Flag(c, "--definition-only")
    <3>1. /\ pc[c] = "validate" /\ RunsCode(c)
          /\ selected'[c] = HostOfApplication(c)
          /\ UNCHANGED <<entered, settled>>
      BY <1>4, <2>2 DEF Validate, RunsCode
    <3>2. CASE HostOfApplication(c) = None
      <4>1. Throw(c, "host-preflight")
        BY <1>4, <2>2, <3>2 DEF Validate
      <4> QED
        BY <3>1, <4>1
    <3>3. CASE HostOfApplication(c) # None
      <4>1. Proceed(c, "preflight", "host-preflight")
        BY <1>4, <2>2, <3>3 DEF Validate
      <4> QED
        BY <3>1, <3>3, <4>1
    <3> QED
      BY <3>2, <3>3
  <2> QED
    BY <2>1, <2>2
<1>5. CASE Preflight(c)
  BY <1>5 DEF Preflight, Enter
<1>6. CASE TaskInput(c)
  BY <1>6 DEF TaskInput
<1>7. CASE CreateTask(c)
  BY <1>7 DEF CreateTask
<1>8. CASE SaveBinding(c)
  BY <1>8 DEF SaveBinding
<1>9. CASE FillBinding(c)
  BY <1>9 DEF FillBinding
<1>10. CASE Register(c)
  BY <1>10 DEF Register
<1>11. CASE OpenTask(c)
  BY <1>11 DEF OpenTask
<1>12. CASE Prepare(c)
  BY <1>12 DEF Prepare, PlansOnly, RunsCode, Flag
<1>13. CASE ReadBinding(c)
  <2>1. pc[c] = "read-binding" /\ UNCHANGED <<entered, settled>>
    BY <1>13 DEF ReadBinding
  <2>2. CASE Throw(c, phase[c])
    BY <2>1, <2>2
  <2>3. CASE Proceed(c, "connect", "task-loading")
    BY <2>1, <2>3
  <2>4. CASE /\ HostOfTask(c) \in Modules /\ selected' = [selected EXCEPT ![c] = HostOfTask(c)]
             /\ Is(c, "session start") /\ Proceed(c, "load-host", phase[c])
    BY <2>1, <2>4, NoModule
  <2> QED
    BY <1>13, <2>2, <2>3, <2>4 DEF ReadBinding
<1>14. CASE Connect(c)
  BY <1>14 DEF Connect
<1>15. CASE Inspect(c)
  BY <1>15 DEF Inspect
<1>16. CASE Check(c)
  BY <1>16 DEF Check, RunsCode, Flag, Delivery
<1>17. CASE Invoke(c)
  BY <1>17 DEF Invoke, RunsCode, Delivery
<1>18. CASE LoadHost(c)
  BY <1>18 DEF LoadHost, Enter, Ends
<1>19. CASE Execute(c)
  BY <1>19 DEF Execute, Ends, ExitCode
<1> QED
  BY <1>2, <1>3, <1>4, <1>5, <1>6, <1>7, <1>8, <1>9, <1>10,
     <1>11, <1>12, <1>13, <1>14, <1>15, <1>16, <1>17, <1>18, <1>19 DEF Step

(* Whoever makes the Task meanwhile, what was selected and entered before is *)
(* still what was chosen.                                                    *)
LEMMA ChoicesKeep ==
  ASSUME Inv, NEW c \in Commands, Step(c), NEW d \in Commands
  PROVE  /\ RunsCode(d)' = RunsCode(d)
         /\ selected[d] \in {None} \cup MayRun(d)'
         /\ entered[d] \subseteq (IF RunsCode(d) THEN MayRun(d)' ELSE {})
<1>1. /\ TypeOK /\ Chosen(d) /\ EntersOnlyTheChosen(d)
      /\ ~task => creatorsHost = None
      /\ args' = args
      /\ task => creatorsHost' = creatorsHost
  BY RootStep DEF Inv, RootIsTheirs
<1>2. RunsCode(d)' = RunsCode(d)
  BY <1>1 DEF RunsCode, Is, Flag
<1>3. entered[d] \subseteq Modules
  BY <1>1 DEF TypeOK
<1>4. CASE creatorsHost' = creatorsHost
  <2>1. MayRun(d)' = MayRun(d)
    BY <1>1, <1>4 DEF MayRun, Is
  <2> QED
    BY <1>1, <1>2, <2>1 DEF Chosen, EntersOnlyTheChosen
<1>5. CASE creatorsHost = None
  <2>1. MayRun(d)' = MayRun(d) \/ MayRun(d) = {None}
    BY <1>1, <1>5 DEF MayRun, Is
  <2> QED
    BY <1>1, <1>2, <1>3, <2>1, NoModule DEF Chosen, EntersOnlyTheChosen
<1> QED
  BY <1>1, <1>4, <1>5

LEMMA OwnChoice ==
  ASSUME Inv, NEW c \in Commands, Step(c)
  PROVE  Chosen(c)' /\ EntersOnlyTheChosen(c)'
<1>1. /\ TypeOK /\ OnItsWay(c)
      /\ binding \in {None, Torn, creatorsHost}
      /\ RunsCode(c)' = RunsCode(c)
      /\ selected[c] \in {None} \cup MayRun(c)'
      /\ entered[c] \subseteq (IF RunsCode(c) THEN MayRun(c)' ELSE {})
  BY ChoicesKeep DEF Inv, RootIsTheirs
<1>2. CASE selected' = selected /\ entered' = entered
  BY <1>1, <1>2 DEF Chosen, EntersOnlyTheChosen
<1>3. CASE Preflight(c) \/ LoadHost(c)
  <2>1. RunsCode(c) /\ selected[c] # None /\ selected' = selected
    BY <1>1, <1>3 DEF Preflight, LoadHost, OnItsWay
  <2>2. entered'[c] = entered[c] \cup {selected[c]}
    BY <1>1, <1>3 DEF Preflight, LoadHost, Enter, TypeOK
  <2> QED
    BY <1>1, <2>1, <2>2 DEF Chosen, EntersOnlyTheChosen
<1>4. CASE Validate(c) /\ selected' # selected
  <2>1. /\ Is(c, "app validate") /\ entered' = entered /\ args' = args
        /\ selected'[c] = HostOfApplication(c)
    BY <1>1, <1>4 DEF Validate, OnItsWay, TypeOK, Local
  <2>2. MayRun(c)' = {HostOfApplication(c)}
    BY <2>1 DEF MayRun, HostOfApplication, Is
  <2> QED
    BY <1>1, <2>1, <2>2 DEF Chosen, EntersOnlyTheChosen
<1>5. CASE ReadBinding(c) /\ selected' # selected
  <2>1. /\ ~Is(c, "app validate") /\ entered' = entered /\ args' = args
        /\ creatorsHost' = creatorsHost
        /\ HostOfTask(c) \in Modules /\ selected'[c] = HostOfTask(c)
    BY <1>1, <1>5 DEF ReadBinding, OnItsWay, TypeOK, Local, root
  <2>2. HostOfTask(c) \in MayRun(c)'
    BY <1>1, <2>1, NoModule DEF MayRun, HostOfTask, Is
  <2> QED
    BY <1>1, <2>1, <2>2 DEF Chosen, EntersOnlyTheChosen
<1>6. \/ selected' = selected /\ entered' = entered
      \/ Preflight(c) \/ LoadHost(c)
      \/ Validate(c) \/ ReadBinding(c)
  BY DEF Step, Parse, LoadApplication, TaskInput, CreateTask, SaveBinding, FillBinding,
         Register, OpenTask, Prepare, Connect, Inspect, Check, Invoke, Execute, HostUnchanged
<1>7. Validate(c) \/ ReadBinding(c) => entered' = entered
  BY DEF Validate, ReadBinding
<1> QED
  BY <1>2, <1>3, <1>4, <1>5, <1>6, <1>7

LEMMA OwnAnswer ==
  ASSUME Inv, NEW c \in Commands, Step(c)
  PROVE  SaysWhatIsSo(c)'
<1>0. /\ TypeOK /\ OnItsWay(c) /\ args' = args
      /\ exit'[c] = "success" /\ Is(c, "task create")
            => task' /\ located' /\ binding' = HostOfApplication(c)
  BY RootStep DEF Inv
<1>1. /\ HostOfApplication(c)' = HostOfApplication(c)
      /\ RunsCode(c)' = RunsCode(c)
      /\ \A name \in Names : Is(c, name)' = Is(c, name)
  BY <1>0 DEF HostOfApplication, RunsCode, Is, Flag
<1> DEFINE Said == /\ exit'[c] = "success" /\ (Is(c, "agent invoke") \/ (Is(c, "session start") /\ RunsCode(c)))
                         => settled'[c] = "completed"
                   /\ exit'[c] = "success" /\ Is(c, "app validate") /\ RunsCode(c)
                         => entered'[c] = {HostOfApplication(c)}
                   /\ activity'[c] = "not-started-by-cli" => entered'[c] = {} /\ settled'[c] = "none"
<1>20. SUFFICES Said
  BY <1>0, <1>1 DEF SaysWhatIsSo, Names
<1> USE <1>0 DEF TypeOK, OnItsWay, Is, Throw, Return, Proceed, HostUnchanged, answers, ModelActivity
<1>2. CASE Parse(c)
  BY <1>2 DEF Parse, Flag
<1>3. CASE LoadApplication(c)
  BY <1>3 DEF LoadApplication
<1>4. CASE Validate(c)
  BY <1>4 DEF Validate, Flag, RunsCode
<1>5. CASE Preflight(c)
  BY <1>5 DEF Preflight, Enter
<1>6. CASE TaskInput(c)
  BY <1>6 DEF TaskInput
<1>7. CASE CreateTask(c)
  BY <1>7 DEF CreateTask
<1>8. CASE SaveBinding(c)
  BY <1>8 DEF SaveBinding
<1>9. CASE FillBinding(c)
  BY <1>9 DEF FillBinding
<1>10. CASE Register(c)
  BY <1>10 DEF Register
<1>11. CASE OpenTask(c)
  BY <1>11 DEF OpenTask
<1>12. CASE Prepare(c)
  BY <1>12 DEF Prepare, PlansOnly, RunsCode, Flag
<1>13. CASE ReadBinding(c)
  BY <1>13 DEF ReadBinding
<1>14. CASE Connect(c)
  BY <1>14 DEF Connect
<1>15. CASE Inspect(c)
  BY <1>15 DEF Inspect
<1>16. CASE Check(c)
  BY <1>16 DEF Check
<1>17. CASE Invoke(c)
  BY <1>17 DEF Invoke
<1>18. CASE LoadHost(c)
  BY <1>18 DEF LoadHost, Enter, Ends
<1>19. CASE Execute(c)
  BY <1>19 DEF Execute, Ends, ExitCode
<1> QED
  BY <1>2, <1>3, <1>4, <1>5, <1>6, <1>7, <1>8, <1>9, <1>10,
     <1>11, <1>12, <1>13, <1>14, <1>15, <1>16, <1>17, <1>18, <1>19 DEF Step

-----------------------------------------------------------------------------
(* A command that did not step keeps what holds of it, whoever made or       *)
(* changed the Task meanwhile.                                               *)
LEMMA OthersKeep ==
  ASSUME Inv, NEW c \in Commands, Step(c), NEW d \in Commands, d # c
  PROVE  /\ OnItsWay(d)' /\ Chosen(d)' /\ EntersOnlyTheChosen(d)' /\ SaysWhatIsSo(d)'
         /\ Creating(d)' <=> Creating(d)
<1>1. /\ TypeOK /\ OnItsWay(d) /\ SaysWhatIsSo(d)
      /\ Stands(d) /\ args' = args
  BY StepStands, RootStep DEF Inv
<1>2. /\ HostOfApplication(d)' = HostOfApplication(d)
      /\ RunsCode(d)' = RunsCode(d)
      /\ \A name \in Names : Is(d, name)' = Is(d, name)
  BY <1>1 DEF HostOfApplication, RunsCode, Is, Flag
<1>3. OnItsWay(d)'
  BY <1>1, <1>2 DEF OnItsWay, Stands, Names
<1>4. Chosen(d)' /\ EntersOnlyTheChosen(d)'
  BY <1>1, ChoicesKeep DEF Chosen, EntersOnlyTheChosen, Stands
<1>5. Creating(d)' <=> Creating(d)
  BY <1>1, <1>2 DEF Creating, Stands, Names
<1>6. exit[d] = "success" /\ Is(d, "task create")
         => /\ task /\ located /\ binding = HostOfApplication(d)
            /\ task' /\ located' /\ binding' = binding
  <2>1. SUFFICES ASSUME exit[d] = "success", Is(d, "task create")
                 PROVE  /\ task /\ located /\ binding = HostOfApplication(d)
                        /\ task' /\ located' /\ binding' = binding
    OBVIOUS
  <2>2. Creating(d) /\ task /\ located /\ binding = HostOfApplication(d)
    BY <1>1, <2>1 DEF SaysWhatIsSo, Creating
  <2>3. ~Creating(c)
    BY <2>2 DEF Inv, RootIsTheirs
  <2> QED
    BY <2>2, <2>3, RootStep
<1>7. SaysWhatIsSo(d)'
  BY <1>1, <1>2, <1>6 DEF SaysWhatIsSo, Stands, Names
<1> QED
  BY <1>3, <1>4, <1>5, <1>7

LEMMA RootKeeps ==
  ASSUME Inv, NEW c \in Commands, Step(c)
  PROVE  RootIsTheirs'
<1>1. /\ \A d \in Commands \ {c} : Stands(d) /\ (Creating(d)' <=> Creating(d))
      /\ \A d \in Commands : HostOfApplication(d)' = HostOfApplication(d)
  BY StepStands, OthersKeep, RootStep DEF Inv, HostOfApplication
<1>2. RootIsTheirs
  BY DEF Inv
<1>3. /\ ~task' => binding' = None /\ creatorsHost' = None
      /\ binding' \in {None, Torn, creatorsHost'}
  BY RootStep
<1>4. ASSUME NEW d \in Commands, Creating(d)'
      PROVE  task' /\ creatorsHost' = HostOfApplication(d)
  <2>1. CASE d = c
    BY <1>4, <2>1, RootStep
  <2>2. CASE d # c
    BY <1>1, <1>2, <1>4, <2>2, RootStep DEF RootIsTheirs
  <2> QED
    BY <2>1, <2>2
<1>5. ASSUME NEW d \in Commands, d # c, Creating(d)
      PROVE  ~Creating(c)' /\ binding' = binding
  <2>1. task /\ ~Creating(c)
    BY <1>2, <1>5 DEF RootIsTheirs
  <2> QED
    BY <2>1, RootStep
<1>6. ASSUME NEW d \in Commands, NEW e \in Commands, Creating(d)', Creating(e)'
      PROVE  d = e
  <2>1. CASE d # c /\ e # c
    BY <1>1, <1>2, <1>6, <2>1 DEF RootIsTheirs
  <2>2. CASE d = c \/ e = c
    BY <1>1, <1>5, <1>6, <2>2
  <2> QED
    BY <2>1, <2>2
<1>7. ASSUME NEW d \in Commands
      PROVE  /\ pc'[d] = "save" => binding' = None
             /\ pc'[d] = "register" => binding' = HostOfApplication(d)
  <2>1. CASE d = c
    BY <2>1, RootStep
  <2>2. CASE d # c
    <3>1. pc'[d] = pc[d]
      BY <1>1, <2>2 DEF Stands
    <3>2. pc[d] \in {"save", "register"} => binding' = binding
      BY <1>5, <2>2 DEF Creating
    <3> QED
      BY <1>2, <3>1, <3>2 DEF RootIsTheirs
  <2> QED
    BY <2>1, <2>2
<1> QED
  BY <1>1, <1>3, <1>4, <1>6, <1>7 DEF RootIsTheirs

LEMMA InvNext == Inv /\ [Next]_vars => Inv'
<1> SUFFICES ASSUME Inv, [Next]_vars
             PROVE  Inv'
  OBVIOUS
<1>1. CASE UNCHANGED vars
  <2>1. /\ UNCHANGED <<args, pc, phase, selected, invalid, exit, activity, entered, settled>>
        /\ UNCHANGED <<task, binding, located, creatorsHost>>
    BY <1>1 DEF vars, control, answers, root
  <2>2. TypeOK'
    BY <2>1 DEF Inv, TypeOK
  <2>3. RootIsTheirs'
    BY <2>1 DEF Inv, RootIsTheirs, Creating, HostOfApplication, Is
  <2>4. ASSUME NEW c \in Commands
        PROVE  OnItsWay(c)' /\ Chosen(c)' /\ EntersOnlyTheChosen(c)' /\ SaysWhatIsSo(c)'
    <3>1. OnItsWay(c) /\ Chosen(c) /\ EntersOnlyTheChosen(c) /\ SaysWhatIsSo(c)
      BY DEF Inv
    <3>2. OnItsWay(c)'
      BY <2>1, <3>1 DEF OnItsWay, RunsCode, HostOfApplication, Is, Flag
    <3>3. Chosen(c)' /\ EntersOnlyTheChosen(c)'
      BY <2>1, <3>1 DEF Chosen, EntersOnlyTheChosen, MayRun, RunsCode, Is, Flag
    <3>4. SaysWhatIsSo(c)'
      BY <2>1, <3>1 DEF SaysWhatIsSo, RunsCode, HostOfApplication, Is, Flag
    <3> QED
      BY <3>2, <3>3, <3>4
  <2> QED
    BY <2>2, <2>3, <2>4 DEF Inv
<1>2. CASE Next
  <2>1. PICK c \in Commands : Step(c)
    BY <1>2 DEF Next, Step
  <2>2. ASSUME NEW d \in Commands
        PROVE  OnItsWay(d)' /\ Chosen(d)' /\ EntersOnlyTheChosen(d)' /\ SaysWhatIsSo(d)'
    <3>1. CASE d = c
      BY <2>1, <3>1, OwnWay, OwnChoice, OwnAnswer
    <3>2. CASE d # c
      BY <2>1, <3>2, OthersKeep
    <3> QED
      BY <3>1, <3>2
  <2> QED
    BY <2>1, <2>2, StepTypes, RootKeeps DEF Inv
<1> QED
  BY <1>1, <1>2

LEMMA InvAlways == Spec => []Inv
  BY InvInit, InvNext, PTL DEF Spec

(* The command's phases, exit codes and modules keep their types.            *)
THEOREM CliTypeCorrect == Spec => []TypeOK
<1>1. Inv => TypeOK
  BY DEF Inv
<1> QED
  BY <1>1, InvAlways, PTL

(* Any number of commands on one Task, whichever of them creates it: the     *)
(* only native code a command runs is that of the Host chosen for it.        *)
THEOREM RunsTheChosenHostAlways == Spec => []RunsTheChosenHost
<1>1. Inv => RunsTheChosenHost
  BY DEF Inv, RunsTheChosenHost
<1> QED
  BY <1>1, InvAlways, PTL

(* Exit code 0, and a diagnostic's word that no model was started, are true  *)
(* of what is on disk and of what ran.                                       *)
THEOREM ExitIsTrueAlways == Spec => []ExitIsTrue
<1>1. Inv => ExitIsTrue
  BY DEF Inv, ExitIsTrue
<1> QED
  BY <1>1, InvAlways, PTL
=============================================================================
