----------------------- MODULE TransitiveDeps_proofs -----------------------
(***************************************************************************)
(* Proofs about TransitiveDeps.tla, for every configuration: any set of    *)
(* names, any deps lists, cyclic and broken ones included.                 *)
(***************************************************************************)
EXTENDS TransitiveDeps, TLAPS

----------------------------------------------------------------------------
(* The worklist as a set.                                                  *)

\* Putting the deps of a repository in front of the worklist adds exactly
\* those names (root_repo.deps @ roots).
LEMMA RangeConcat ==
    ASSUME NEW s \in Seq(Name), NEW t \in Seq(Name)
    PROVE  Range(s \o t) = Range(s) \cup Range(t)
<1>1. Range(s \o t) \subseteq Range(s) \cup Range(t)
    <2>1. SUFFICES ASSUME NEW x \in Range(s \o t)
                   PROVE  x \in Range(s) \cup Range(t)
        OBVIOUS
    <2>2. PICK i \in 1..Len(s) + Len(t) : x = (s \o t)[i]
        BY DEF Range
    <2>3. CASE i <= Len(s)
        BY <2>2, <2>3 DEF Range
    <2>4. CASE i > Len(s)
        <3>1. x = t[i - Len(s)] /\ i - Len(s) \in 1..Len(t)
            BY <2>2, <2>4
        <3> QED  BY <3>1 DEF Range
    <2> QED  BY <2>2, <2>3, <2>4
<1>2. Range(s) \subseteq Range(s \o t)
    <2>1. SUFFICES ASSUME NEW x \in Range(s)
                   PROVE  x \in Range(s \o t)
        OBVIOUS
    <2>2. PICK i \in 1..Len(s) : x = s[i]
        BY DEF Range
    <2>3. x = (s \o t)[i] /\ i \in 1..Len(s \o t)
        BY <2>2
    <2> QED  BY <2>3 DEF Range
<1>3. Range(t) \subseteq Range(s \o t)
    <2>1. SUFFICES ASSUME NEW x \in Range(t)
                   PROVE  x \in Range(s \o t)
        OBVIOUS
    <2>2. PICK i \in 1..Len(t) : x = t[i]
        BY DEF Range
    <2>3. x = (s \o t)[i + Len(s)] /\ i + Len(s) \in 1..Len(s \o t)
        BY <2>2
    <2> QED  BY <2>3 DEF Range
<1> QED  BY <1>1, <1>2, <1>3

\* Taking the head off the worklist splits it (root :: roots).
LEMMA RangeHeadTail ==
    ASSUME NEW s \in Seq(Name), s # <<>>
    PROVE  /\ Head(s) \in Name
           /\ Tail(s) \in Seq(Name)
           /\ Len(Tail(s)) < Len(s)
           /\ Range(s) = {Head(s)} \cup Range(Tail(s))
<1>1. Range(s) \subseteq {Head(s)} \cup Range(Tail(s))
    <2>1. SUFFICES ASSUME NEW x \in Range(s)
                   PROVE  x \in {Head(s)} \cup Range(Tail(s))
        OBVIOUS
    <2>2. PICK i \in 1..Len(s) : x = s[i]
        BY DEF Range
    <2>3. CASE i = 1
        BY <2>2, <2>3
    <2>4. CASE i # 1
        <3>1. x = Tail(s)[i - 1] /\ i - 1 \in 1..Len(Tail(s))
            BY <2>2, <2>4
        <3>2. DOMAIN Tail(s) = 1..Len(Tail(s))
            OBVIOUS
        <3> HIDE DEF Range
        <3>3. Tail(s)[i - 1] \in Range(Tail(s))
            BY <3>1, <3>2 DEF Range
        <3> QED  BY <3>1, <3>3
    <2> QED  BY <2>3, <2>4
<1>2. {Head(s)} \cup Range(Tail(s)) \subseteq Range(s)
    <2>1. 1 \in DOMAIN s /\ Head(s) = s[1]
        OBVIOUS
    <2>2. ASSUME NEW x \in Range(Tail(s))
          PROVE  x \in Range(s)
        <3>1. PICK i \in 1..Len(Tail(s)) : x = Tail(s)[i]
            BY <2>2 DEF Range
        <3>2. x = s[i + 1] /\ i + 1 \in 1..Len(s)
            BY <3>1
        <3> QED  BY <3>2 DEF Range
    <2> QED  BY <2>1, <2>2 DEF Range
<1> QED  BY <1>1, <1>2

----------------------------------------------------------------------------
(* Reach, the least closed set.                                            *)

\* The root of a closure is in it.
LEMMA ReachHasRoot ==
    ASSUME NEW deps, NEW r \in Name
    PROVE  r \in Reach(deps, r)
BY DEF Reach

\* A reachable repository makes its direct dependencies reachable.
LEMMA ReachIsClosed ==
    ASSUME NEW deps \in DepsOf, NEW r \in Name,
           NEW n \in Configured, n \in Reach(deps, r)
    PROVE  Range(deps[n]) \subseteq Reach(deps, r)
<1>1. Range(deps[n]) \subseteq Name
    BY ConfigAssumption DEF DepsOf, Range
<1>2. ASSUME NEW m \in Range(deps[n]), NEW S \in SUBSET Name,
             r \in S, Closed(deps, S)
      PROVE  m \in S
    BY <1>2 DEF Reach, Closed
<1> QED  BY <1>1, <1>2 DEF Reach

\* A closed set that holds the root holds everything reachable from it.
LEMMA ReachIsLeast ==
    ASSUME NEW deps, NEW r, NEW S \in SUBSET Name, r \in S, Closed(deps, S)
    PROVE  Reach(deps, r) \subseteq S
BY DEF Reach

----------------------------------------------------------------------------
(* The inductive invariant.                                                *)

\* The state variables keep to their types: the worklist only ever holds
\* names, and only configured repositories are found or returned.
THEOREM TypeCorrect == Spec => []TypeOK
<1>1. Init => TypeOK
    BY ConfigAssumption DEF Init, TypeOK
<1>2. TypeOK /\ [Next]_vars => TypeOK'
    <2> SUFFICES ASSUME TypeOK, [Next]_vars
                 PROVE  TypeOK'
        OBVIOUS
    <2> USE ConfigAssumption DEF TypeOK, config
    <2>1. ASSUME NEW r \in Configured, StartRepo(r)
          PROVE  TypeOK'
        <3>1. <<r>> \in Seq(Name)
            OBVIOUS
        <3> QED  BY <2>1, <3>1 DEF StartRepo
    <2>2. CASE SkipKnown
        BY <2>2, RangeHeadTail DEF SkipKnown
    <2>3. CASE Expand
        <3>1. depsOf[Head(roots)] \in Seq(Name)
            BY <2>3 DEF Expand, DepsOf
        <3>2. Tail(roots) \in Seq(Name)
            BY <2>3, RangeHeadTail DEF Expand
        <3> QED  BY <2>3, <3>1, <3>2 DEF Expand
    <2>4. CASE BadDependency
        BY <2>4 DEF BadDependency
    <2>5. CASE KeepOrDrop
        BY <2>5 DEF KeepOrDrop
    <2>6. CASE Finish
        BY <2>6 DEF Finish
    <2>7. CASE UNCHANGED vars
        BY <2>7 DEF vars
    <2> QED  BY <2>1, <2>2, <2>3, <2>4, <2>5, <2>6, <2>7 DEF Next
<1> QED  BY <1>1, <1>2, PTL DEF Spec

----------------------------------------------------------------------------
(* Exactness of the answer.                                                *)

\* The inductive invariant: ClosureInv says how far the inner loop is,
\* FilterInv what the outer one has decided.  Neither is inductive alone.
IInv == TypeOK /\ ClosureInv /\ FilterInv

\* When the worklist is empty, what was found is exactly the closure.
LEMMA ClosureComplete ==
    ASSUME TypeOK, ClosureInv, cur # None, roots = <<>>
    PROVE  found = Reach(depsOf, cur)
<1>1. Range(roots) = {}
    BY DEF Range
<1>2. found \in SUBSET Name /\ cur \in found /\ Closed(depsOf, found)
    BY <1>1, ConfigAssumption DEF TypeOK, ClosureInv, Closed
<1>3. found \subseteq Reach(depsOf, cur)
    BY DEF ClosureInv
<1> QED  BY <1>2, <1>3, ReachIsLeast

\* One iteration of the inner loop keeps what it has collected consistent.
LEMMA ClosureStep ==
    ASSUME IInv, [Next]_vars
    PROVE  ClosureInv'
<1> USE ConfigAssumption, NoneAssumption DEF config
<1>t. TypeOK /\ ClosureInv
    BY DEF IInv
<1>1. ASSUME NEW r \in Configured, StartRepo(r)
      PROVE  ClosureInv'
    <2>1. Range(roots') = {r} /\ found' = {} /\ cur' = r /\ depsOf' = depsOf
        BY <1>1 DEF StartRepo, Range
    <2>2. r \in Reach(depsOf, r)
        BY ReachHasRoot
    <2>3. status' = "running" /\ cur' # None
        BY <1>1 DEF StartRepo
    <2> QED  BY <2>1, <2>2, <2>3 DEF ClosureInv
<1>2. CASE SkipKnown
    <2>1. Range(roots) = {Head(roots)} \cup Range(roots')
        BY <1>t, <1>2, RangeHeadTail DEF SkipKnown, TypeOK
    <2>2. /\ cur' = cur /\ cur # None /\ found' = found /\ depsOf' = depsOf
          /\ Head(roots) \in found /\ status' = "running"
        BY <1>2 DEF SkipKnown
    <2>3. found' \cup Range(roots') = found \cup Range(roots)
        BY <2>1, <2>2
    <2> QED  BY <1>t, <2>2, <2>3 DEF ClosureInv
<1>3. CASE Expand
    <2> DEFINE n == Head(roots)
    <2>1. /\ n \in Configured /\ found' = found \cup {n}
          /\ roots' = depsOf[n] \o Tail(roots)
          /\ cur' = cur /\ cur # None /\ depsOf' = depsOf /\ status' = "running"
        BY <1>3 DEF Expand
    <2>2. /\ Tail(roots) \in Seq(Name)
          /\ Range(roots) = {n} \cup Range(Tail(roots))
        BY <1>t, <1>3, RangeHeadTail DEF Expand, TypeOK
    <2>3. depsOf[n] \in Seq(Name)
        BY <1>t, <2>1 DEF TypeOK, DepsOf
    <2>4. Range(roots') = Range(depsOf[n]) \cup Range(Tail(roots))
        BY <2>1, <2>2, <2>3, RangeConcat
    <2>5. n \in Reach(depsOf, cur)
        BY <1>t, <2>1, <2>2 DEF ClosureInv
    <2>6. Range(depsOf[n]) \subseteq Reach(depsOf, cur)
        BY <1>t, <2>1, <2>5, ReachIsClosed DEF TypeOK
    <2>7. found' \cup Range(roots') =
              found \cup Range(roots) \cup Range(depsOf[n])
        BY <2>1, <2>2, <2>4
    <2>8. /\ cur \in found' \cup Range(roots')
          /\ found' \cup Range(roots') \subseteq Reach(depsOf, cur)
          /\ \A d \in found' :
                Range(depsOf[d]) \subseteq found' \cup Range(roots')
        BY <1>t, <2>1, <2>6, <2>7 DEF ClosureInv
    <2> HIDE DEF n
    <2> QED  BY <2>1, <2>8 DEF ClosureInv
<1>4. CASE BadDependency
    <2>1. Head(roots) \in Range(roots) /\ Head(roots) \notin Configured
        BY <1>t, <1>4, RangeHeadTail DEF BadDependency, TypeOK
    <2>2. Broken(depsOf, cur)
        BY <1>t, <1>4, <2>1 DEF BadDependency, ClosureInv, Broken
    <2> QED  BY <1>t, <1>4, <2>2 DEF BadDependency, ClosureInv
<1>5. CASE KeepOrDrop
    BY <1>5 DEF KeepOrDrop, ClosureInv
<1>6. CASE Finish
    BY <1>t, <1>6 DEF Finish, ClosureInv
<1>7. CASE UNCHANGED vars
    BY <1>t, <1>7 DEF vars, ClosureInv
<1> QED  BY <1>1, <1>2, <1>3, <1>4, <1>5, <1>6, <1>7 DEF Next

\* One step of the outer loop decides one repository, and decides it right.
LEMMA FilterStep ==
    ASSUME IInv, [Next]_vars
    PROVE  FilterInv'
<1> USE ConfigAssumption, NoneAssumption DEF config
<1>t. TypeOK /\ ClosureInv /\ FilterInv
    BY DEF IInv
<1>1. ASSUME NEW r \in Configured, StartRepo(r)
      PROVE  FilterInv'
    <2>1. Filtered' = Filtered /\ cur' \notin todo'
        BY <1>t, <1>1 DEF StartRepo, Filtered, TypeOK
    <2> QED  BY <1>t, <1>1, <2>1 DEF StartRepo, FilterInv
<1>2. CASE SkipKnown
    BY <1>t, <1>2 DEF SkipKnown, FilterInv, Filtered
<1>3. CASE Expand
    BY <1>t, <1>3 DEF Expand, FilterInv, Filtered
<1>4. CASE BadDependency
    BY <1>t, <1>4 DEF BadDependency, FilterInv, Filtered
<1>5. CASE KeepOrDrop
    <2>1. found = Reach(depsOf, cur) /\ found \subseteq Configured
        BY <1>t, <1>5, ClosureComplete DEF KeepOrDrop, TypeOK
    <2>2. cur \in Configured /\ cur \notin todo /\ cur \notin Filtered
        BY <1>t, <1>5 DEF KeepOrDrop, TypeOK, FilterInv, Filtered
    <2>3. Filtered' = Filtered \cup {cur}
        BY <1>t, <1>5, <2>2 DEF KeepOrDrop, Filtered, TypeOK
    <2>4. ~ Broken(depsOf, cur)
        BY <2>1 DEF Broken
    <2>5. cur \in DownstreamFrom(depsOf, origins)
              <=> found \cap origins # {}
        BY <2>1, <2>2 DEF DownstreamFrom
    <2>6. downstream' = Filtered' \cap DownstreamFrom(depsOf, origins)
        BY <1>t, <1>5, <2>3, <2>5 DEF KeepOrDrop, FilterInv
    <2>7. \A r \in Filtered' : ~ Broken(depsOf, r)
        BY <1>t, <2>3, <2>4 DEF FilterInv
    <2>8. /\ depsOf' = depsOf /\ origins' = origins /\ todo' = todo
          /\ cur' \notin todo' /\ status' = "running"
        BY <1>t, <1>5 DEF KeepOrDrop, TypeOK
    <2> QED  BY <2>6, <2>7, <2>8 DEF FilterInv
<1>6. CASE Finish
    BY <1>t, <1>6 DEF Finish, FilterInv, Filtered
<1>7. CASE UNCHANGED vars
    BY <1>t, <1>7 DEF vars, FilterInv, Filtered
<1> QED  BY <1>1, <1>2, <1>3, <1>4, <1>5, <1>6, <1>7 DEF Next

\* The worklist and the filter are consistent in every reachable state.
THEOREM Invariance == Spec => []IInv
<1>1. Init => IInv
    <2> SUFFICES ASSUME Init
                 PROVE  IInv
        OBVIOUS
    <2>1. TypeOK
        BY ConfigAssumption DEF Init, TypeOK
    <2>2. ClosureInv
        BY DEF Init, ClosureInv
    <2>3. FilterInv
        BY NoneAssumption, ConfigAssumption
        DEF Init, FilterInv, Filtered, DownstreamFrom
    <2> QED  BY <2>1, <2>2, <2>3 DEF IInv
<1>2. TypeOK' /\ IInv /\ [Next]_vars => IInv'
    BY ClosureStep, FilterStep DEF IInv
<1> QED  BY <1>1, <1>2, TypeCorrect, PTL DEF Spec

\* ClosureInv on its own: what the inner loop has collected is always part
\* of the closure it computes and is missing nothing that is not waiting.
THEOREM ClosureCorrect == Spec => []ClosureInv
<1>1. IInv => ClosureInv
    BY DEF IInv
<1> QED  BY <1>1, Invariance, PTL

\* FilterInv on its own: the filter over config.repos decides each repository
\* right, whatever is left of the list.
THEOREM FilterCorrect == Spec => []FilterInv
<1>1. IInv => FilterInv
    BY DEF IInv
<1> QED  BY <1>1, Invariance, PTL

\* all_downstream_from returns exactly the dependents of its origins, and
\* only if the configuration is not broken.
THEOREM AnswerIsExact == Spec => []ExactAnswer
<1>1. IInv => ExactAnswer
    BY NoneAssumption, ConfigAssumption
    DEF IInv, TypeOK, FilterInv, Filtered, ExactAnswer, DownstreamFrom
<1> QED  BY <1>1, Invariance, PTL

\* The generator panics only on a configuration that is really broken.
THEOREM PanicIsJustified == Spec => []PanicJustified
<1>1. IInv => PanicJustified
    BY DEF IInv, TypeOK, ClosureInv, PanicJustified
<1> QED  BY <1>1, Invariance, PTL

\* No step of the inner loop repeats work, whatever cycles there are: with
\* finitely many names and finite deps lists the loop must come to an end.
THEOREM AlwaysForward == Spec => StepsForward
<1>1. TypeOK /\ [Next]_vars =>
        [ (cur # None /\ cur' = cur /\ status' = "running") =>
            \/ found \subseteq found' /\ found # found'
            \/ found' = found /\ Len(roots') < Len(roots) ]_vars
    <2> SUFFICES ASSUME TypeOK, Next, cur # None, cur' = cur,
                        status' = "running"
                 PROVE  \/ found \subseteq found' /\ found # found'
                        \/ found' = found /\ Len(roots') < Len(roots)
        BY DEF vars
    <2>1. CASE SkipKnown
        BY <2>1, RangeHeadTail DEF SkipKnown, TypeOK
    <2>2. CASE Expand
        BY <2>2 DEF Expand
    <2> QED  BY <2>1, <2>2 DEF Next, StartRepo, BadDependency, KeepOrDrop, Finish
<1> QED  BY <1>1, TypeCorrect, PTL DEF Spec, StepsForward

\* Both modules mean the same by a dependency.
LEMMA AbstractReach ==
    /\ \A deps, r : Abstract!Reach(deps, r) = Reach(deps, r)
    /\ \A deps, r : Abstract!Broken(deps, r) = Broken(deps, r)
    /\ \A deps, os : Abstract!DownstreamFrom(deps, os) = DownstreamFrom(deps, os)
<1>1. ASSUME NEW deps, NEW r
      PROVE  Abstract!Reach(deps, r) = Reach(deps, r)
    <2>1. \A S : Abstract!Closed(deps, S) <=> Closed(deps, S)
        BY DEF Abstract!Closed, Closed, Abstract!Range, Range
    <2> QED  BY <2>1 DEF Abstract!Reach, Reach
<1>2. ASSUME NEW deps, NEW r
      PROVE  Abstract!Broken(deps, r) = Broken(deps, r)
    BY <1>1 DEF Abstract!Broken, Broken
<1>3. ASSUME NEW deps, NEW os
      PROVE  Abstract!DownstreamFrom(deps, os) = DownstreamFrom(deps, os)
    BY <1>1 DEF Abstract!DownstreamFrom, DownstreamFrom
<1> QED  BY <1>1, <1>2, <1>3

\* The worklist implements the promise of DownstreamSpec.tla: its last step,
\* or its panic, is the one step of the abstract machine and every other step
\* is a stutter of it (safety part; termination is model-checked).
THEOREM ImplementsAbstract ==
    Spec => Abstract!SpecInit /\ [][Abstract!SpecNext]_(Abstract!specVars)
<1> DEFINE answer == IF status = "done" THEN downstream ELSE {}
<1>1. Init => Abstract!SpecInit
    BY DEF Init, Abstract!SpecInit, Abstract!DepsOf, DepsOf
<1>2. IInv /\ IInv' /\ [Next]_vars => [Abstract!SpecNext]_(Abstract!specVars)
    <2> SUFFICES ASSUME IInv, IInv', [Next]_vars
                 PROVE  Abstract!SpecNext \/ UNCHANGED Abstract!specVars
        OBVIOUS
    <2> USE DEF config
    <2>1. CASE BadDependency
        <3>1. \E r \in Configured : Broken(depsOf, r)
            BY <2>1 DEF IInv, TypeOK, ClosureInv, BadDependency
        <3>2. Abstract!Abort
            BY <2>1, <3>1, AbstractReach DEF BadDependency, Abstract!Abort
        <3> QED  BY <3>2 DEF Abstract!SpecNext
    <2>2. CASE Finish
        <3>1. /\ \A r \in Configured : ~ Broken(depsOf, r)
              /\ downstream = DownstreamFrom(depsOf, origins)
            BY <2>2, NoneAssumption, ConfigAssumption
            DEF Finish, IInv, TypeOK, FilterInv, Filtered, DownstreamFrom
        <3>2. Abstract!Return
            BY <2>2, <3>1, AbstractReach DEF Finish, Abstract!Return
        <3> QED  BY <3>2 DEF Abstract!SpecNext
    <2>3. ASSUME NEW r \in Configured, StartRepo(r)
          PROVE  UNCHANGED Abstract!specVars
        BY <2>3 DEF StartRepo, Abstract!specVars
    <2>4. CASE SkipKnown
        BY <2>4 DEF SkipKnown, Abstract!specVars
    <2>5. CASE Expand
        BY <2>5 DEF Expand, Abstract!specVars
    <2>6. CASE KeepOrDrop
        BY <2>6 DEF KeepOrDrop, Abstract!specVars
    <2>7. CASE UNCHANGED vars
        BY <2>7 DEF vars, Abstract!specVars
    <2> QED  BY <2>1, <2>2, <2>3, <2>4, <2>5, <2>6, <2>7 DEF Next
<1> QED  BY <1>1, <1>2, Invariance, PTL DEF Spec
============================================================================
