-------------------------- MODULE TransitiveDeps --------------------------
(***************************************************************************)
(* Config.transitive_deps and Config.all_downstream_from (gen/config.ml)   *)
(* as the worklist algorithm they are: for each configured repository in   *)
(* turn the closure of its dependencies is computed, one name of the       *)
(* worklist per step, and the repository is kept when the closure meets    *)
(* the origins.                                                            *)
(*                                                                         *)
(* all_downstream_from filters the list config.repos; its result is        *)
(* only ever used as a set, so the order is left open here.                *)
(***************************************************************************)
EXTENDS ConfigGraph, FiniteSets

CONSTANT None    \* no closure is being computed

ASSUME NoneAssumption == None \notin Name

VARIABLES
    depsOf,      \* config.repos: the deps list of each configured repository
    origins,     \* the names of the repositories given as [roots]
    todo,        \* repositories the filter has not reached yet
    cur,         \* the repository whose closure is being computed, or None
    found,       \* the set [deps] of the inner loop
    roots,       \* the worklist [roots] of the inner loop
    downstream,  \* repositories kept so far
    status       \* "running", "done" (value returned) or "panic" (exit 1)

vars == <<depsOf, origins, todo, cur, found, roots, downstream, status>>
config == <<depsOf, origins>>

TypeOK ==
    /\ depsOf \in DepsOf
    /\ origins \subseteq Configured
    /\ todo \subseteq Configured
    /\ cur \in Configured \cup {None}
    /\ found \subseteq Configured
    /\ roots \in Seq(Name)
    /\ downstream \subseteq Configured
    /\ status \in {"running", "done", "panic"}

Init ==
    /\ depsOf \in DepsOf
    /\ origins \in SUBSET Configured
    /\ todo = Configured
    /\ cur = None
    /\ found = {}
    /\ roots = <<>>
    /\ downstream = {}
    /\ status = "running"

\* downstream_from_root repo: the inner loop starts from [repo.name].
StartRepo(r) ==
    /\ status = "running"
    /\ cur = None
    /\ r \in todo
    /\ cur' = r
    /\ todo' = todo \ {r}
    /\ found' = {}
    /\ roots' = <<r>>
    /\ UNCHANGED <<config, downstream, status>>

\* The head of the worklist is known already: drop it.
SkipKnown ==
    /\ cur # None
    /\ status = "running"
    /\ roots # <<>>
    /\ Head(roots) \in found
    /\ roots' = Tail(roots)
    /\ UNCHANGED <<config, todo, cur, found, downstream, status>>

\* Mutants of Expand: a name without a repository is taken for a repository
\* without dependencies; the rest of the worklist is lost; a repository that
\* was expanded before is expanded again.
ExpandUnknown ==
    /\ cur # None
    /\ status = "running"
    /\ roots # <<>>
    /\ Head(roots) \notin found
    /\ found' = found \cup {Head(roots)}
    /\ roots' = (IF Head(roots) \in Configured THEN depsOf[Head(roots)]
                                               ELSE <<>>) \o Tail(roots)
    /\ UNCHANGED <<config, todo, cur, downstream, status>>

ExpandDropsRest ==
    /\ cur # None
    /\ status = "running"
    /\ roots # <<>>
    /\ Head(roots) \in Configured \ found
    /\ found' = found \cup {Head(roots)}
    /\ roots' = depsOf[Head(roots)]
    /\ UNCHANGED <<config, todo, cur, downstream, status>>

ExpandAgain ==
    /\ cur # None
    /\ status = "running"
    /\ roots # <<>>
    /\ Head(roots) \in Configured
    /\ found' = found \cup {Head(roots)}
    /\ roots' = depsOf[Head(roots)] \o Tail(roots)
    /\ UNCHANGED <<config, todo, cur, downstream, status>>

\* A configured name seen for the first time: its deps go before the rest.
Expand ==
    /\ cur # None
    /\ status = "running"
    /\ roots # <<>>
    /\ Head(roots) \in Configured \ found
    /\ found' = found \cup {Head(roots)}
    /\ roots' = depsOf[Head(roots)] \o Tail(roots)
    /\ UNCHANGED <<config, todo, cur, downstream, status>>

\* Mutant of BadDependency: an unknown name is dropped without a word.
BadDependencyIgnored ==
    /\ cur # None
    /\ status = "running"
    /\ roots # <<>>
    /\ Head(roots) \notin Configured \cup found
    /\ roots' = Tail(roots)
    /\ UNCHANGED <<config, todo, cur, found, downstream, status>>

\* A name without a repository: panic "Bad dependency in config".
BadDependency ==
    /\ cur # None
    /\ status = "running"
    /\ roots # <<>>
    /\ Head(roots) \notin Configured \cup found
    /\ status' = "panic"
    /\ UNCHANGED <<config, todo, cur, found, roots, downstream>>

\* Mutant of KeepOrDrop: only the origins themselves are kept.
KeepOrigins ==
    /\ cur # None
    /\ status = "running"
    /\ roots = <<>>
    /\ downstream' = IF cur \in origins THEN downstream \cup {cur}
                                        ELSE downstream
    /\ cur' = None
    /\ UNCHANGED <<config, todo, found, roots, status>>

\* The worklist is empty: [found] is the closure, and the filter keeps cur
\* when it holds one of the origins.
KeepOrDrop ==
    /\ cur # None
    /\ status = "running"
    /\ roots = <<>>
    /\ downstream' = IF found \cap origins # {} THEN downstream \cup {cur}
                                                ELSE downstream
    /\ cur' = None
    /\ UNCHANGED <<config, todo, found, roots, status>>

\* The filter has seen every repository.
Finish ==
    /\ status = "running"
    /\ cur = None
    /\ todo = {}
    /\ status' = "done"
    /\ UNCHANGED <<config, todo, cur, found, roots, downstream>>

Next ==
    \/ \E r \in Configured : StartRepo(r)
    \/ SkipKnown
    \/ Expand
    \/ BadDependency
    \/ KeepOrDrop
    \/ Finish

\* The generator runs this computation to its end, nothing else interferes.
Spec == Init /\ [][Next]_vars /\ WF_vars(Next)

----------------------------------------------------------------------------
(* What could go wrong.                                                    *)

\* The closure is built from its two parts: everything found or waiting is a
\* real dependency of cur, and a found repository has each of its direct
\* dependencies found or waiting.  Losing either (an entry of the worklist
\* dropped, or taken over from the previous repository) makes the answer of
\* all_downstream_from wrong without any sign of it.
ClosureInv ==
    /\ cur = None => roots = <<>>
    /\ status = "panic" => Broken(depsOf, cur) /\ cur # None
    /\ cur # None =>
         /\ cur \in found \cup Range(roots)
         /\ found \cup Range(roots) \subseteq Reach(depsOf, cur)
         /\ \A d \in found : Range(depsOf[d]) \subseteq found \cup Range(roots)

\* The repositories filtered so far.
Filtered == Configured \ (todo \cup {cur})

\* Every repository the filter has decided is decided right: it is kept
\* exactly when it depends on an origin, and none with a dependency outside
\* the configuration got past the panic of transitive_deps.
FilterInv ==
    /\ downstream = Filtered \cap DownstreamFrom(depsOf, origins)
    /\ \A r \in Filtered : ~ Broken(depsOf, r)
    /\ cur \notin todo
    /\ status = "done" => todo = {} /\ cur = None

\* all_downstream_from returns the exact set of dependents, and it returns
\* only if no configured repository reaches an unconfigured name.
ExactAnswer ==
    status = "done" =>
        /\ downstream = DownstreamFrom(depsOf, origins)
        /\ \A r \in Configured : ~ Broken(depsOf, r)

\* The generator aborts on a broken configuration only.
PanicJustified ==
    status = "panic" => \E r \in Configured : Broken(depsOf, r)

\* Each step works towards the end even when the dependencies are cyclic: a
\* repository is expanded at most once per closure, and between two
\* expansions the worklist only gets shorter.  This is what keeps the
\* recursion of transitive_deps finite on a configuration with a cycle.
StepsForward ==
    [][ (cur # None /\ cur' = cur /\ status' = "running") =>
          \/ found \subseteq found' /\ found # found'
          \/ found' = found /\ Len(roots') < Len(roots) ]_vars

\* The algorithm does what its caller is promised, in one step of the caller.
Abstract == INSTANCE DownstreamSpec
                WITH answer <- IF status = "done" THEN downstream ELSE {}
Implements == Abstract!DownstreamSpec
============================================================================
