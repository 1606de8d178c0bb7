--------------------------------- MODULE MCCli ---------------------------------
(* Values for TLC: every subcommand with every option that decides what runs.*)
EXTENDS Cli, TLC

CONSTANTS c1, c2, m, o

Symmetry == Permutations({c1, c2})

Invocation(name, flags, host, exported) ==
    [name |-> name, flags |-> flags, host |-> host, exported |-> exported]

MCInvocations ==
    {Invocation(name, flags, host, exported) :
        name \in {"app validate"}, flags \in {{}, {"--definition-only"}},
        host \in {None, m}, exported \in {None, o}}
    \cup {Invocation("task create", {}, host, exported) : host \in {None, m}, exported \in {None, o}}
    \cup {Invocation("session start", flags, host, None) :
             flags \in {{}, {"--dry-run"}}, host \in {None, m}}
    \cup {Invocation("agent check", flags, host, None) :
             flags \in {{}, {"--native-preflight"}}, host \in {None, m}}
    \cup {Invocation("agent invoke", {}, host, None) : host \in {None, m}}
    \cup {Invocation("agent describe", flags, None, None) : flags \in {{}, {"--app"}}}
    \cup {Invocation("agent inspect", {}, None, None), Invocation("task inspect", {}, None, None)}
=============================================================================
