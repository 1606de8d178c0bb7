--------------------------- MODULE MCAgentInvoke ---------------------------
(* Small instances of AgentInvoke for TLC. *)
EXTENDS AgentInvoke, TLC

CONSTANTS a1, a2

\* A producer without requirements, and a consumer whose two requirements
\* accept either Artifact: one published resolves both, two are ambiguous.
MCEntries == {"make", "use"}
MCRequires == [make |-> <<>>, use |-> <<{a1, a2} \cap Artifacts, {a1, a2} \cap Artifacts>>]
MCProduces == [make |-> Artifacts, use |-> {}]

\* Clients, Sessions and Artifacts are interchangeable.
Symmetry == Permutations(Exclusive) \cup Permutations(Clients \ Exclusive)
                \cup Permutations(Sessions)
=============================================================================
