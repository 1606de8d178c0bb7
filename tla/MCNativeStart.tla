----------------------------- MODULE MCNativeStart -----------------------------
(* NativeStart with a domain Plugin alone and with an aspect, two binding    *)
(* keys, two files and a link.                                               *)
EXTENDS NativeStart

MCProfiles == << <<"domain">>, <<"domain", "aspect">> >>
AnyCondition == {"ok", "host-import", "host-contract", "sdk-version", "sdk-surface",
                 "unmapped", "hookless"}

(* Entries move only under a Host that is in order, invoked for the plan of  *)
(* two Plugins without a check before.                                       *)
MayMove ==
    stage # "preflight" /\ profile = 2 /\ condition = "ok" /\ registered = Keys /\ prompts = Keys
        /\ readiness["sdk"] = "not-checked"

MCSpec == Init /\ [][Next /\ (moves' > 0 => MayMove)]_vars
=============================================================================
