--------------------------- MODULE TaskOwnership ---------------------------
(***************************************************************************)
(* What exclusive writers promise about a Task, without files, locks or    *)
(* steps inside a call: the Task is free, owned by a call, or retained for *)
(* an operator; attempts are made one at a time by the call that owns it;  *)
(* and it becomes free again only when no attempt's outcome is uncertain.  *)
(***************************************************************************)
CONSTANTS Sessions

VARIABLES
    phase,      \* "free", "owned" or "retained"
    outcome     \* of the attempt with each Session id

Outcomes == {"none", "uncertain", "completed", "failed"}

Certain == \A s \in Sessions : outcome[s] # "uncertain"

Init ==
    /\ phase = "free"
    /\ outcome = [s \in Sessions |-> "none"]

Take ==
    /\ phase = "free"
    /\ phase' = "owned"
    /\ UNCHANGED outcome

(* Native code is asked for a session: from now on its outcome is uncertain. *)
Attempt(s) ==
    /\ phase = "owned"
    /\ Certain
    /\ outcome[s] = "none"
    /\ outcome' = [outcome EXCEPT ![s] = "uncertain"]
    /\ UNCHANGED phase

Conclude(s, status) ==
    /\ phase = "owned"
    /\ outcome[s] = "uncertain"
    /\ outcome' = [outcome EXCEPT ![s] = status]
    /\ UNCHANGED phase

GiveBack ==
    /\ phase = "owned"
    /\ Certain
    /\ phase' = "free"
    /\ UNCHANGED outcome

(* The call ends, or dies, without giving the Task back: it stays retained.  *)
Retain ==
    /\ phase = "owned"
    /\ phase' = "retained"
    /\ UNCHANGED outcome

Next ==
    \/ Take \/ GiveBack \/ Retain
    \/ \E s \in Sessions : Attempt(s) \/ \E v \in {"completed", "failed"} : Conclude(s, v)

Spec == Init /\ [][Next]_<<phase, outcome>>
=============================================================================
