-------------------------- MODULE DownstreamSpec --------------------------
(***************************************************************************)
(* What a caller of Config.all_downstream_from may rely on: one answer,    *)
(* given once, that is exact, or an abort because the configuration is     *)
(* broken.  How the closures are computed is TransitiveDeps.tla's concern. *)
(***************************************************************************)
EXTENDS ConfigGraph

VARIABLES
    depsOf,   \* the configuration that was read
    origins,  \* the argument: names of the repositories that changed
    status,   \* "running", "done" or "panic"
    answer    \* the repositories returned, {} until there is an answer

specVars == <<depsOf, origins, status, answer>>

SpecInit ==
    /\ depsOf \in DepsOf
    /\ origins \in SUBSET Configured
    /\ status = "running"
    /\ answer = {}

Return ==
    /\ status = "running"
    /\ \A r \in Configured : ~ Broken(depsOf, r)
    /\ status' = "done"
    /\ answer' = DownstreamFrom(depsOf, origins)
    /\ UNCHANGED <<depsOf, origins>>

Abort ==
    /\ status = "running"
    /\ \E r \in Configured : Broken(depsOf, r)
    /\ status' = "panic"
    /\ UNCHANGED <<depsOf, origins, answer>>

SpecNext == Return \/ Abort

DownstreamSpec == SpecInit /\ [][SpecNext]_specVars /\ WF_specVars(SpecNext)
============================================================================
