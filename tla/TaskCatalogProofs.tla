-------------------------- MODULE TaskCatalogProofs --------------------------
(***************************************************************************)
(* Proofs about TaskCatalog, for any commands, names and roots.  They rest *)
(* on one inductive invariant: the exclusive mkdir of .agent-loom makes a  *)
(* command the only builder at its root (SoleBuilder), what it has built   *)
(* follows from its step (BuiltInOrder), and the locator of a command that *)
(* is done names its root.                                                 *)
(***************************************************************************)
EXTENDS TaskCatalog, TLAPS

\* The steps at which all of a command's Task has been written.
Finished == {"input", "host", "register", "done", "unregistered"}

\* The steps a command reaches only past its exclusive mkdir.
Builders == {"sessions", "invocations", "artifacts", "consumptions", "task"}
              \cup Finished

\* What a command has made when it is at a step.
Made(step) ==
    CASE step = "sessions"     -> {"governance"}
      [] step = "invocations"  -> {"governance", "sessions"}
      [] step = "artifacts"    -> {"governance", "sessions", "invocations"}
      [] step = "consumptions" -> {"governance", "sessions", "invocations", "artifacts"}
      [] OTHER                 -> CreatedParts

SoleBuilder ==
    \A c, d \in Commands :
        pc[c] \in Builders /\ pc[d] \in Builders /\ root[c] = root[d] => c = d

BuiltInOrder ==
    \A c \in Commands : pc[c] \in Builders => Made(pc[c]) \subseteq parts[root[c]]

\* Only the builder that finished it, or one that died, leaves a task.json.
TaskWritten ==
    \A c \in Commands : pc[c] \in Finished => taskJson[root[c]] = name[c]


DoneIsLocated ==
    \A c \in Commands : pc[c] = "done" => locator[name[c]] = root[c]

IInv ==
    /\ TypeOK
    /\ SoleBuilder
    /\ BuiltInOrder
    /\ TaskWritten
    /\ OpenedIsComplete
    /\ DoneIsLocated

-----------------------------------------------------------------------------
LEMMA InitIInv == Init => IInv
BY FileStatesAssumption DEF Init, IInv, TypeOK, SoleBuilder, BuiltInOrder, TaskWritten,
   OpenedIsComplete, OpensByRoot, DoneIsLocated, Builders, Finished, Steps, CreatedParts,
   SavedParts

(* The type invariant is inductive. *)
LEMMA TypeStep == TypeOK /\ [Next]_vars => TypeOK'
<1> SUFFICES ASSUME TypeOK, [Next]_vars PROVE TypeOK'
    OBVIOUS
<1> USE DEF TypeOK, Goto, command
<1>1. ASSUME NEW c \in Commands, EnsureAvailable(c) PROVE TypeOK'
      BY <1>1 DEF EnsureAvailable, Steps, CreatedParts
<1>2. ASSUME NEW c \in Commands, MakePart(c) PROVE TypeOK'
      BY <1>2 DEF MakePart, Following, Steps, CreatedParts
<1>3. ASSUME NEW c \in Commands, WriteTask(c) PROVE TypeOK'
      BY <1>3 DEF WriteTask, Steps, SavedParts
<1>4. ASSUME NEW c \in Commands, SavePart(c) PROVE TypeOK'
      BY <1>4 DEF SavePart, Steps, SavedParts
<1>5. ASSUME NEW c \in Commands, Register(c) PROVE TypeOK'
      BY <1>5 DEF Register, Steps
<1>6. ASSUME NEW c \in Commands, Crash(c) PROVE TypeOK'
      BY <1>6 DEF Crash, Steps
<1>7. CASE UNCHANGED vars
      BY <1>7 DEF vars
<1> QED
    BY <1>1, <1>2, <1>3, <1>4, <1>5, <1>6, <1>7 DEF Next, Step

-----------------------------------------------------------------------------
(* How a command's step changes the facts of IInv about commands.            *)
LEMMA EnsureAvailableStep ==
    ASSUME NEW c \in Commands, IInv, EnsureAvailable(c), TypeOK'
    PROVE  IInv'
BY DEF IInv, TypeOK, EnsureAvailable, Goto, command, SoleBuilder, BuiltInOrder,
   TaskWritten, OpenedIsComplete, OpensByRoot, DoneIsLocated, Builders, Finished

(* The exclusive mkdir: whoever builds at a root made "governance" there.    *)
LEMMA MakePartStep ==
    ASSUME NEW c \in Commands, IInv, MakePart(c), TypeOK'
    PROVE  IInv'
<1> USE DEF IInv, TypeOK, Goto, command, MakePart
<1>1. root' = root /\ name' = name /\ locator' = locator /\ taskJson' = taskJson
      OBVIOUS
<1>2. \A r \in Roots : parts[r] \subseteq parts'[r]
      OBVIOUS
<1>3. \A d \in Commands : d # c => pc'[d] = pc[d]
      OBVIOUS
<1>4. pc'[c] \in Builders =>
          /\ IsNew(c)
          /\ pc'[c] = Following(pc[c])
          /\ parts'[root[c]] = parts[root[c]] \cup {pc[c]}
      BY DEF Builders, Finished
<1>5. pc'[c] \notin Finished
      BY DEF Following, Finished, CreatedParts
<1>6. \A d \in Commands : pc[d] \in Builders => "governance" \in parts[root[d]]
      BY DEF BuiltInOrder, Made, CreatedParts, Builders, Finished
<1>7. SoleBuilder'
      <2> SUFFICES ASSUME NEW d \in Commands, d # c, pc'[c] \in Builders,
                          pc[d] \in Builders, root[c] = root[d]
                   PROVE  FALSE
          BY <1>1, <1>3 DEF SoleBuilder
      <2>1. CASE pc[c] = "governance"
            BY <2>1, <1>4, <1>6 DEF IsNew
      <2>2. CASE pc[c] # "governance"
            BY <2>2 DEF SoleBuilder, Builders, CreatedParts
      <2> QED BY <2>1, <2>2
<1>8. BuiltInOrder'
      <2>1. ASSUME pc'[c] \in Builders
            PROVE  Made(pc'[c]) \subseteq parts'[root[c]]
            <3>1. CASE pc[c] = "governance"
                  BY <3>1, <2>1, <1>4 DEF Following, Made
            <3>2. CASE pc[c] # "governance"
                  <4>1. Made(pc[c]) \subseteq parts[root[c]]
                        BY <3>2 DEF BuiltInOrder, Builders, CreatedParts
                  <4>2. Made(Following(pc[c])) = Made(pc[c]) \cup {pc[c]}
                        BY <3>2 DEF Following, Made, CreatedParts
                  <4> QED BY <4>1, <4>2, <2>1, <1>4
            <3> QED BY <3>1, <3>2
      <2> QED BY <2>1, <1>1, <1>2, <1>3 DEF BuiltInOrder
<1>9. TaskWritten'
      BY <1>1, <1>3, <1>5 DEF TaskWritten
<1>10. OpenedIsComplete'
      BY <1>1, <1>2 DEF OpenedIsComplete, OpensByRoot
<1>11. DoneIsLocated'
      BY <1>1, <1>3, <1>5 DEF DoneIsLocated, Finished
<1> QED BY <1>7, <1>8, <1>9, <1>10, <1>11

(* A task.json is written where there was none, by the only builder.         *)
LEMMA WriteTaskStep ==
    ASSUME NEW c \in Commands, IInv, WriteTask(c), TypeOK'
    PROVE  IInv'
<1> USE DEF IInv, TypeOK, Goto, command, WriteTask
<1>1. root' = root /\ name' = name /\ locator' = locator /\ parts' = parts
      OBVIOUS
<1>2. /\ pc[c] = "task" /\ pc'[c] \in {"input", "failed"}
      /\ \A d \in Commands : d # c => pc'[d] = pc[d]
      OBVIOUS
<1>3. pc[c] \in Builders /\ CreatedParts \subseteq parts[root[c]]
      BY <1>2 DEF BuiltInOrder, Builders, Made
<1>4. \A r \in Roots : r # root[c] => taskJson'[r] = taskJson[r]
      OBVIOUS
<1>5. pc'[c] = "input" => taskJson'[root[c]] = name[c]
      OBVIOUS
<1>6. SoleBuilder'
      BY <1>1, <1>2, <1>3 DEF SoleBuilder, Builders, Finished
<1>7. BuiltInOrder'
      BY <1>1, <1>2, <1>3 DEF BuiltInOrder, Builders, Finished, Made
<1>8. TaskWritten'
      <2> SUFFICES ASSUME NEW d \in Commands, pc'[d] \in Finished
                   PROVE  taskJson'[root[d]] = name[d]
          BY <1>1 DEF TaskWritten
      <2>1. CASE d = c
            BY <2>1, <1>2, <1>5 DEF Finished
      <2>2. CASE d # c
            <3>1. root[d] # root[c]
                  BY <2>2, <1>2, <1>3 DEF SoleBuilder, Builders
            <3> QED BY <2>2, <3>1, <1>2, <1>4 DEF TaskWritten
      <2> QED BY <2>1, <2>2
<1>9. OpenedIsComplete'
      BY <1>1, <1>3, <1>4 DEF OpenedIsComplete, OpensByRoot
<1>10. DoneIsLocated'
      BY <1>1, <1>2 DEF DoneIsLocated
<1> QED BY <1>6, <1>7, <1>8, <1>9, <1>10

LEMMA SavePartStep ==
    ASSUME NEW c \in Commands, IInv, SavePart(c), TypeOK'
    PROVE  IInv'
<1> USE DEF IInv, TypeOK, Goto, command, SavePart
<1>1. /\ root' = root /\ name' = name /\ locator' = locator /\ taskJson' = taskJson
      /\ \A r \in Roots : parts[r] \subseteq parts'[r]
      OBVIOUS
<1>2. /\ pc[c] \in {"input", "host"} /\ pc'[c] \in {"host", "register", "unregistered"}
      /\ \A d \in Commands : d # c => pc'[d] = pc[d]
      BY DEF SavedParts
<1>3. SoleBuilder'
      BY <1>1, <1>2 DEF SoleBuilder, Builders, Finished
<1>4. BuiltInOrder'
      BY <1>1, <1>2 DEF BuiltInOrder, Builders, Finished, Made
<1>5. TaskWritten' /\ OpenedIsComplete' /\ DoneIsLocated'
      BY <1>1, <1>2 DEF TaskWritten, OpenedIsComplete, OpensByRoot, DoneIsLocated, Finished
<1> QED BY <1>3, <1>4, <1>5

(* The locator is written where there was none.                              *)
LEMMA RegisterStep ==
    ASSUME NEW c \in Commands, IInv, Register(c), TypeOK'
    PROVE  IInv'
<1> USE DEF IInv, TypeOK, Goto, command, Register
<1>1. root' = root /\ name' = name /\ parts' = parts /\ taskJson' = taskJson
      OBVIOUS
<1>2. /\ pc[c] = "register" /\ pc'[c] \in {"done", "unregistered"}
      /\ \A d \in Commands : d # c => pc'[d] = pc[d]
      OBVIOUS
<1>3. pc'[c] = "done" => locator'[name[c]] = root[c]
      BY DEF LocatesHere
<1>4. \A n \in Names : locator[n] \in Roots => locator'[n] = locator[n]
      BY FileStatesAssumption DEF LocatorIsNew
<1>5. SoleBuilder'
      BY <1>1, <1>2 DEF SoleBuilder, Builders, Finished
<1>6. BuiltInOrder'
      BY <1>1, <1>2 DEF BuiltInOrder, Builders, Finished, Made
<1>7. TaskWritten' /\ OpenedIsComplete'
      BY <1>1, <1>2 DEF TaskWritten, OpenedIsComplete, OpensByRoot, Finished
<1>8. DoneIsLocated'
      BY <1>1, <1>2, <1>3, <1>4 DEF DoneIsLocated
<1> QED BY <1>5, <1>6, <1>7, <1>8

LEMMA CrashStep ==
    ASSUME NEW c \in Commands, IInv, Crash(c), TypeOK'
    PROVE  IInv'
BY DEF IInv, TypeOK, Crash, Goto, command, SoleBuilder, BuiltInOrder, TaskWritten,
   OpenedIsComplete, OpensByRoot, DoneIsLocated, Builders, Finished

LEMMA IInvStep == IInv /\ [Next]_vars => IInv'
<1> SUFFICES ASSUME IInv, [Next]_vars PROVE IInv'
    OBVIOUS
<1>1. TypeOK'
      BY TypeStep DEF IInv
<1>2. CASE UNCHANGED vars
      BY <1>2 DEF vars, IInv, TypeOK, SoleBuilder, BuiltInOrder, TaskWritten,
         OpenedIsComplete, OpensByRoot, DoneIsLocated
<1>3. ASSUME NEW c \in Commands, Step(c) PROVE IInv'
      BY <1>1, <1>3, EnsureAvailableStep, MakePartStep, WriteTaskStep, SavePartStep,
         RegisterStep, CrashStep DEF Step
<1> QED BY <1>2, <1>3 DEF Next

LEMMA IInvAlways == Spec => []IInv
BY InitIInv, IInvStep, PTL DEF Spec

-----------------------------------------------------------------------------
(* The type invariant of the catalog. *)
THEOREM CatalogTypeCorrect == Spec => []TypeOK
<1>1. IInv => TypeOK
      BY DEF IInv
<1> QED BY <1>1, IInvAlways, PTL

(* A successful task create can be opened by name, for good. *)
THEOREM CreatedOpensByNameAlways == Spec => []CreatedOpensByName
<1>1. IInv => CreatedOpensByName
      BY DEF IInv, CreatedOpensByName, OpensAt, TaskWritten, DoneIsLocated, Finished
<1> QED BY <1>1, IInvAlways, PTL

(* Of all commands with one name, one reports success: two would have the    *)
(* same locator, hence the same root, where only one can be the builder.     *)
THEOREM OneSuccessPerNameAlways == Spec => []OneSuccessPerName
<1>1. IInv => OneSuccessPerName
      BY DEF IInv, OneSuccessPerName, DoneIsLocated, SoleBuilder, Builders, Finished
<1> QED BY <1>1, IInvAlways, PTL

(* A command that failed after its Task was complete left it openable by root. *)
THEOREM UnregisteredOpensByRootAlways == Spec => []UnregisteredOpensByRoot
<1>1. IInv => UnregisteredOpensByRoot
      BY DEF IInv, UnregisteredOpensByRoot, TaskWritten, Finished
<1> QED BY <1>1, IInvAlways, PTL

(* Every Task that opens has its registries. *)
THEOREM OpenedIsCompleteAlways == Spec => []OpenedIsComplete
<1>1. IInv => OpenedIsComplete
      BY DEF IInv
<1> QED BY <1>1, IInvAlways, PTL

(* Whole locators and whole task.json files are never replaced. *)
THEOREM NothingIsReplacedAlways == Spec => NothingIsReplaced
<1> DEFINE Kept == /\ \A n \in Names : locator[n] \in Roots => locator'[n] = locator[n]
                   /\ \A r \in Roots : OpensByRoot(r) => taskJson'[r] = taskJson[r]
<1>1. ASSUME TypeOK, Next PROVE Kept
      <2> PICK c \in Commands : Step(c)
          BY <1>1 DEF Next
      <2>1. CASE EnsureAvailable(c) \/ MakePart(c) \/ SavePart(c) \/ Crash(c)
            BY <2>1 DEF EnsureAvailable, MakePart, SavePart, Crash
      <2>2. CASE WriteTask(c)
            BY <2>2, <1>1, FileStatesAssumption DEF WriteTask, TypeOK, OpensByRoot
      <2>3. CASE Register(c)
            BY <2>3, <1>1, FileStatesAssumption DEF Register, LocatorIsNew, TypeOK
      <2> QED BY <2>1, <2>2, <2>3 DEF Step
<1>2. TypeOK /\ [Next]_vars => [Kept]_vars
      BY <1>1
<1> QED BY <1>2, CatalogTypeCorrect, PTL DEF Spec, NothingIsReplaced

(* What a command that failed or died left at a root stays as it is: only a  *)
(* builder changes a root, and nobody becomes one where governance exists.   *)
THEOREM HalfMadeStaysAsLeftAlways == Spec => HalfMadeStaysAsLeft
<1> DEFINE Kept == \A r \in Roots : Left(r) => Left(r)' /\ UNCHANGED <<parts[r], taskJson[r]>>
<1>1. ASSUME TypeOK, Next PROVE Kept
      <2> PICK c \in Commands : Step(c)
          BY <1>1 DEF Next
      <2> SUFFICES ASSUME NEW r \in Roots, Left(r)
                   PROVE  Left(r)' /\ UNCHANGED <<parts[r], taskJson[r]>>
          OBVIOUS
      <2> USE <1>1 DEF TypeOK, Left, Building, SavedParts, Goto, command
      <2>1. CASE EnsureAvailable(c) \/ Register(c) \/ Crash(c)
            BY <2>1 DEF EnsureAvailable, Register, Crash
      <2>2. CASE MakePart(c)
            BY <2>2 DEF MakePart, IsNew, CreatedParts
      <2>3. CASE WriteTask(c)
            BY <2>3 DEF WriteTask
      <2>4. CASE SavePart(c)
            BY <2>4 DEF SavePart
      <2> QED BY <2>1, <2>2, <2>3, <2>4 DEF Step
<1>2. TypeOK /\ [Next]_vars => [Kept]_vars
      BY <1>1
<1> QED BY <1>2, CatalogTypeCorrect, PTL DEF Spec, HalfMadeStaysAsLeft
=============================================================================
