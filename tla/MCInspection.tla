---------------------------- MODULE MCInspection ----------------------------
(* Small instances of Inspection for TLC. *)
EXTENDS Inspection, TLC

CONSTANTS a1, a2

\* A producer without requirements, and a consumer that requires both Artifacts.
MCEntries == {"make", "use"}
MCRequires == [make |-> <<>>, use |-> <<Artifacts>>]
MCProduces == [make |-> Artifacts, use |-> {}]

Symmetry == Permutations(Sessions)
=============================================================================
