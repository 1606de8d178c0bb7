--------------------------- MODULE MCRequirements ---------------------------
(* Values for TLC: entries with one or two requirements, named, pinned or    *)
(* selected by their facts, with and without a data contract.                *)
EXTENDS Requirements

CONSTANTS x, y, z, f, g, n, m, v, w

Requires(accepts, pin, name) == [accepts |-> accepts, pin |-> pin, name |-> name]

MCRequirements == {
    <<Requires({f}, NoId, n)>>,
    <<Requires({f}, NoId, NoName), Requires({g}, NoId, m)>>,
    <<Requires({f, g}, NoId, n), Requires({f}, x, m)>>,
    <<Requires({f}, x, n), Requires({f, g}, NoId, NoName)>> }

MCProfiles ==
    [v1 : {TRUE}, required : BOOLEAN, values : {{v}, {v, w}}, requirements : MCRequirements]
        \cup
    [v1 : {FALSE}, required : {FALSE}, values : {{v, w}}, requirements : MCRequirements]

MCRequests ==
    [instruction : BOOLEAN, data : {v, w, NoData},
     inputs : UNION {[named -> {x, y}] : named \in SUBSET {n, m}}]
=============================================================================
