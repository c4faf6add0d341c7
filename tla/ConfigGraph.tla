---------------------------- MODULE ConfigGraph ----------------------------
(***************************************************************************)
(* The dependency configuration of the CI generator, as a directed graph.  *)
(*                                                                         *)
(* gen/config.ml reads one record per [repo.<name>] table of config.toml;  *)
(* of that record only "name" and "deps" matter here.  A dependency is a   *)
(* name and nothing forces it to be configured, so an edge may lead out of *)
(* the configured repositories.                                            *)
(***************************************************************************)
EXTENDS Functions, Sequences

CONSTANTS
    Name,        \* every name a deps list may mention
    Configured,  \* the names that have a [repo.<name>] table
    DepLists     \* the values a deps field may have

ASSUME ConfigAssumption ==
    /\ Configured \subseteq Name
    /\ DepLists \subseteq Seq(Name)

\* What read_config yields for the deps fields: a list of names per
\* repository, in file order, where nothing rules out repetitions, cycles or
\* names that are not configured.
DepsOf == [Configured -> DepLists]

\* A set of names closed under the dependencies of its configured members.
Closed(deps, S) ==
    \A n \in S \cap Configured : Range(deps[n]) \subseteq S

\* The reflexive-transitive dependencies of root, defined as the least closed
\* set that holds it, without reference to any way of computing them.
Reach(deps, root) ==
    {n \in Name : \A S \in SUBSET Name :
                      root \in S /\ Closed(deps, S) => n \in S}

\* The closure of root leaves the configuration: transitive_deps panics.
Broken(deps, root) == ~ (Reach(deps, root) \subseteq Configured)

\* What all_downstream_from promises (config.mli): the configured repositories
\* that depend, directly or not, on one of the origins.
DownstreamFrom(deps, origins) ==
    {r \in Configured : Reach(deps, r) \cap origins # {}}
============================================================================
