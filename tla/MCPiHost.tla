------------------------------ MODULE MCPiHost ------------------------------
(* Values for TLC: the primary, an aspect with an after-run phase and one    *)
(* without, which only has native hooks.                                     *)
EXTENDS PiHost

CONSTANTS p, a, b

TwoAspects == <<a, b>>
=============================================================================
