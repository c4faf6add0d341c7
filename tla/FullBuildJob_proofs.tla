------------------------- MODULE FullBuildJob_proofs -------------------------
(***************************************************************************)
(* Proofs about FullBuildJob.tla, for any number of retries.               *)
(***************************************************************************)
EXTENDS FullBuildJob, TLAPS

----------------------------------------------------------------------------
(* Type correctness.                                                       *)

\* An attempt starts with empty hands.
LEMMA InitTypeOK ==
    ASSUME Init
    PROVE  TypeOK
<1> USE RetryAssumption DEF TypeOK, Part, Commits, Stages, Place, NoData
<1>1. attempt \in 1..(MaxRetry + 1)
    BY DEF Init
<1>2. data \in [Place -> Commits]
    BY DEF Init
<1>3. posted \subseteq [main : Commits, ref : Commits]
    BY DEF Init
<1>4. failed \subseteq Stages
    BY DEF Init
<1> QED  BY <1>1, <1>2, <1>3, <1>4 DEF Init

\* Without retries left a system failure ends the job where it is.
LEMMA LastAttempt ==
    ASSUME SystemFailure, ~ (attempt <= MaxRetry)
    PROVE  /\ result' = "failed" /\ failed' = failed \cup {"script"}
           /\ attempt' = attempt /\ pc' = pc /\ tree' = tree
           /\ leftover' = leftover /\ build' = build /\ data' = data
           /\ failure' = failure /\ posted' = posted
           /\ compare' = compare /\ timing' = timing /\ newRepos' = newRepos
<1>1. UNCHANGED <<attempt, pc, tree, leftover, build, data, failure>>
    BY DEF SystemFailure
<1>2. UNCHANGED <<settings, posted>>
    BY DEF SystemFailure
<1> QED  BY <1>1, <1>2 DEF SystemFailure, settings

\* The job never leaves its script, is never started more often than its
\* retries allow, and posts reports about known commits only.
THEOREM TypeCorrect == Spec => []TypeOK
<1> USE RetryAssumption DEF TypeOK, Part, Commits, Stages, Place, NoData
<1>1. Init => TypeOK
    BY InitTypeOK
<1>2. TypeOK /\ [Next]_vars => TypeOK'
    <2> SUFFICES ASSUME TypeOK, [Next]_vars
                 PROVE  TypeOK'
        OBVIOUS
    <2> USE DEF At, Same, settings
    <2>1. CASE MainBuild
        <3>1. CASE Clone
            BY <3>1 DEF Clone
        <3>2. CASE CheckoutMain
            BY <3>2 DEF CheckoutMain
        <3>3. CASE ExtractMain
            BY <3>3 DEF ExtractMain
        <3>4. ASSUME NEW ok \in BOOLEAN, BuildAsts(ok)
              PROVE  TypeOK'
            BY <3>4 DEF BuildAsts
        <3>5. ASSUME NEW ok \in BOOLEAN, BuildAstsAgain(ok)
              PROVE  TypeOK'
            BY <3>5 DEF BuildAstsAgain
        <3>6. ASSUME NEW ok \in BOOLEAN, NEW checkOk \in BOOLEAN,
                     BuildMain(ok, checkOk)
              PROVE  TypeOK'
            BY <3>6 DEF BuildMain
        <3> QED  BY <2>1, <3>1, <3>2, <3>3, <3>4, <3>5, <3>6 DEF MainBuild
    <2>2. CASE ReferenceBuild
        <3>1. CASE CleanForRef
            BY <3>1 DEF CleanForRef, GitClean
        <3>2. CASE CheckoutRef
            BY <3>2 DEF CheckoutRef
        <3>3. CASE RefAsts
            BY <3>3 DEF RefAsts
        <3>4. CASE RefAstsAgain
            BY <3>4 DEF RefAstsAgain
        <3>5. CASE RefBuild
            BY <3>5 DEF RefBuild
        <3>6. CASE ExtractRef
            BY <3>6 DEF ExtractRef
        <3> QED  BY <2>2, <3>1, <3>2, <3>3, <3>4, <3>5, <3>6
                 DEF ReferenceBuild
    <2>3. CASE PerfAnalysis
        <3>1. CASE CheckoutAgain
            BY <3>1 DEF CheckoutAgain, GitClean
        <3>2. CASE Analyse
            BY <3>2 DEF Analyse
        <3>3. CASE Post
            <4>1. [main |-> data["main"], ref |-> data["ref"]]
                      \in [main : Commits, ref : Commits]
                OBVIOUS
            <4> QED  BY <3>3, <4>1 DEF Post
        <3> QED  BY <2>3, <3>1, <3>2, <3>3 DEF PerfAnalysis
    <2>4. CASE Verdict
        BY <2>4 DEF Verdict
    <2>5. CASE ScriptFails
        BY <2>5 DEF ScriptFails
    <2>6. CASE SystemFailure
        <3>1. CASE attempt <= MaxRetry
            <4>1. attempt + 1 \in 1..(MaxRetry + 1)
                BY <3>1
            <4>2. NoData \in [Place -> Commits]
                OBVIOUS
            <4> QED  BY <2>6, <3>1, <4>1, <4>2 DEF SystemFailure
        <3>2. CASE ~ (attempt <= MaxRetry)
            <4>1. result' = "failed" /\ failed' = failed \cup {"script"}
                BY <2>6, <3>2, LastAttempt
            <4>2. /\ attempt' = attempt /\ pc' = pc /\ tree' = tree
                  /\ leftover' = leftover /\ build' = build /\ data' = data
                  /\ failure' = failure /\ posted' = posted
                  /\ compare' = compare /\ timing' = timing
                  /\ newRepos' = newRepos
                BY <2>6, <3>2, LastAttempt
            <4> QED  BY <4>1, <4>2
        <3> QED  BY <3>1, <3>2
    <2>7. CASE UNCHANGED vars
        BY <2>7 DEF vars
    <2> QED  BY <2>1, <2>2, <2>3, <2>4, <2>5, <2>6, <2>7 DEF Next
<1> QED  BY <1>1, <1>2, PTL DEF Spec

----------------------------------------------------------------------------
(* The two inductive invariants.                                           *)

\* The parts of the script from the clean-up of the main build on.
Reference == {"refClean", "refCheckout", "refAst", "refAst2", "refBuild",
              "refExtract", "again", "analyse", "post"}

\* What the checkout, _build and the performance data are made from, part by
\* part.  An attempt starts over with nothing, so that nothing of an earlier
\* one matters but what it has posted.
DirectoriesInv ==
    /\ pc \in {"ast", "ast2", "build", "extract", "refClean"} => tree = "main"
    /\ pc \in {"ast2", "build", "extract", "refClean"} => build = "main"
    /\ pc \in {"refCheckout", "refAst"} => build = "none" /\ ~ leftover
    /\ pc \in {"refAst", "refAst2", "refBuild", "refExtract"} => tree = "ref"
    /\ pc \in {"refAst2", "refBuild", "refExtract"} => build = "ref"
    /\ pc \in Reference => compare /\ data["main"] = "main"
    /\ pc \in {"again", "analyse", "post"} => data["ref"] = "ref"
    /\ RightTrees

\* The failure file against the stages that really failed.
FailureInv ==
    /\ pc \in {"clone", "checkout"} => failed \subseteq {"script"}
    /\ failed \cap {"ast", "ast2", "check"} # {} => failure
    /\ timing # "full" /\ "build" \in failed => failure
    /\ failure => failed # {}
    /\ result \in {"running", "success"} => "script" \notin failed
    /\ result = "success" => ~ failure
    /\ result = "failed" => "script" \in failed \/ failure
    /\ result # "running" /\ "script" \notin failed => pc = "verdict"
    /\ compare /\ pc = "verdict" => posted # {}

IInv == TypeOK /\ DirectoriesInv /\ FailureInv

\* Each part finds the directories as the part before it has left them.
LEMMA DirectoriesStep ==
    ASSUME IInv, [Next]_vars
    PROVE  DirectoriesInv'
<1> USE DEF IInv, TypeOK, DirectoriesInv, RightTrees, Reference,
           At, Same, settings, Place, NoData
<1>1. CASE Clone
    BY <1>1 DEF Clone
<1>2. CASE CheckoutMain
    BY <1>2 DEF CheckoutMain
<1>3. ASSUME NEW ok \in BOOLEAN, BuildAsts(ok)
      PROVE  DirectoriesInv'
    BY <1>3 DEF BuildAsts
<1>4. ASSUME NEW ok \in BOOLEAN, BuildAstsAgain(ok)
      PROVE  DirectoriesInv'
    BY <1>4 DEF BuildAstsAgain
<1>5. ASSUME NEW ok \in BOOLEAN, NEW checkOk \in BOOLEAN,
             BuildMain(ok, checkOk)
      PROVE  DirectoriesInv'
    BY <1>5 DEF BuildMain
<1>6. CASE ExtractMain
    BY <1>6 DEF ExtractMain
<1>7. CASE CleanForRef
    BY <1>7 DEF CleanForRef, GitClean
<1>8. CASE CheckoutRef
    BY <1>8 DEF CheckoutRef
<1>9. CASE RefAsts
    BY <1>9 DEF RefAsts
<1>10. CASE RefAstsAgain
    BY <1>10 DEF RefAstsAgain
<1>11. CASE RefBuild
    BY <1>11 DEF RefBuild
<1>12. CASE ExtractRef
    BY <1>12 DEF ExtractRef
<1>13. CASE CheckoutAgain
    BY <1>13 DEF CheckoutAgain, GitClean
<1>14. CASE Analyse
    BY <1>14 DEF Analyse
<1>15. CASE Post
    BY <1>15 DEF Post
<1>16. CASE Verdict
    BY <1>16 DEF Verdict
<1>17. CASE ScriptFails
    BY <1>17 DEF ScriptFails
<1>18. CASE SystemFailure
    BY <1>18 DEF SystemFailure
<1>19. CASE UNCHANGED vars
    BY <1>19 DEF vars
<1> QED  BY <1>1, <1>2, <1>3, <1>4, <1>5, <1>6, <1>7, <1>8, <1>9, <1>10, <1>11,
            <1>12, <1>13, <1>14, <1>15, <1>16, <1>17, <1>18, <1>19
         DEF Next, MainBuild, ReferenceBuild, PerfAnalysis

\* The failure file outlives everything but the start of an attempt.
LEMMA FailureStep ==
    ASSUME IInv, [Next]_vars
    PROVE  FailureInv'
<1> USE DEF IInv, TypeOK, FailureInv, Stages, At, Same, settings
<1>1. CASE Clone
    BY <1>1 DEF Clone
<1>2. CASE CheckoutMain
    BY <1>2 DEF CheckoutMain
<1>3. ASSUME NEW ok \in BOOLEAN, BuildAsts(ok)
      PROVE  FailureInv'
    BY <1>3 DEF BuildAsts
<1>4. ASSUME NEW ok \in BOOLEAN, BuildAstsAgain(ok)
      PROVE  FailureInv'
    BY <1>4 DEF BuildAstsAgain
<1>5. ASSUME NEW ok \in BOOLEAN, NEW checkOk \in BOOLEAN,
             BuildMain(ok, checkOk)
      PROVE  FailureInv'
    BY <1>5 DEF BuildMain
<1>6. CASE ExtractMain
    BY <1>6 DEF ExtractMain
<1>7. CASE CleanForRef
    BY <1>7 DEF CleanForRef, GitClean
<1>8. CASE CheckoutRef
    BY <1>8 DEF CheckoutRef
<1>9. CASE RefAsts
    BY <1>9 DEF RefAsts
<1>10. CASE RefAstsAgain
    BY <1>10 DEF RefAstsAgain
<1>11. CASE RefBuild
    BY <1>11 DEF RefBuild
<1>12. CASE ExtractRef
    BY <1>12 DEF ExtractRef
<1>13. CASE CheckoutAgain
    BY <1>13 DEF CheckoutAgain, GitClean
<1>14. CASE Analyse
    BY <1>14 DEF Analyse
<1>15. CASE Post
    BY <1>15 DEF Post
<1>16. CASE Verdict
    BY <1>16 DEF Verdict
<1>17. CASE ScriptFails
    BY <1>17 DEF ScriptFails
<1>18. CASE SystemFailure
    <2>1. CASE attempt <= MaxRetry
        BY <1>18, <2>1 DEF SystemFailure
    <2>2. CASE ~ (attempt <= MaxRetry)
        <3>1. result' = "failed" /\ failed' = failed \cup {"script"}
            BY <1>18, <2>2, LastAttempt
        <3>2. /\ pc' = pc /\ failure' = failure /\ posted' = posted
              /\ compare' = compare /\ timing' = timing
            BY <1>18, <2>2, LastAttempt
        <3> QED  BY <3>1, <3>2
    <2> QED  BY <2>1, <2>2
<1>19. CASE UNCHANGED vars
    BY <1>19 DEF vars
<1> QED  BY <1>1, <1>2, <1>3, <1>4, <1>5, <1>6, <1>7, <1>8, <1>9, <1>10, <1>11,
            <1>12, <1>13, <1>14, <1>15, <1>16, <1>17, <1>18, <1>19
         DEF Next, MainBuild, ReferenceBuild, PerfAnalysis

\* Both hold in every reachable state.
THEOREM Invariance == Spec => []IInv
<1>1. Init => IInv
    <2> SUFFICES ASSUME Init
                 PROVE  IInv
        OBVIOUS
    <2>1. TypeOK
        BY InitTypeOK
    <2>2. DirectoriesInv
        BY DEF Init, DirectoriesInv, RightTrees, Reference
    <2>3. FailureInv
        BY DEF Init, FailureInv
    <2> QED  BY <2>1, <2>2, <2>3 DEF IInv
<1>2. IInv /\ TypeOK' /\ [Next]_vars => IInv'
    BY DirectoriesStep, FailureStep DEF IInv
<1> QED  BY <1>1, <1>2, TypeCorrect, PTL DEF Spec

----------------------------------------------------------------------------
(* What follows.                                                           *)

\* A report compares the main commits with the reference.
THEOREM ReportsAreRight == Spec => []RightTrees
<1>1. IInv => RightTrees
    BY DEF IInv, DirectoriesInv
<1> QED  BY <1>1, Invariance, PTL

\* The reference is built in a clean checkout.
THEOREM ReferenceIsClean == Spec => []CleanReference
<1>1. IInv => CleanReference
    BY DEF IInv, DirectoriesInv, CleanReference
<1> QED  BY <1>1, Invariance, PTL

\* Data put aside is there until it is analysed.
THEOREM DataIsKept == Spec => []DataKept
<1>1. IInv => DataKept
    BY DEF IInv, DirectoriesInv, DataKept, Reference
<1> QED  BY <1>1, Invariance, PTL

\* A job that succeeds has built everything, but for the main dune build
\* under full timing.
THEOREM SuccessIsHonest == Spec => []HonestSuccess
<1>1. IInv => HonestSuccess
    BY DEF IInv, TypeOK, Stages, FailureInv, HonestSuccess
<1> QED  BY <1>1, Invariance, PTL

\* A main build that fails does not cost the comparison.
THEOREM ComparisonIsPosted == Spec => []PartialDataPosted
<1>1. IInv => PartialDataPosted
    BY DEF IInv, FailureInv, PartialDataPosted
<1> QED  BY <1>1, Invariance, PTL

----------------------------------------------------------------------------
(* Why the job ends: a measure.                                            *)

\* The parts that can still run from part on, if the job has none of them twice.
PartsFrom(part) ==
    CASE part = "clone" -> 16 [] part = "checkout" -> 15 [] part = "ast" -> 14
      [] part = "ast2" -> 13 [] part = "build" -> 12 [] part = "extract" -> 11
      [] part = "refClean" -> 10 [] part = "refCheckout" -> 9
      [] part = "refAst" -> 8 [] part = "refAst2" -> 7 [] part = "refBuild" -> 6
      [] part = "refExtract" -> 5 [] part = "again" -> 4 [] part = "analyse" -> 3
      [] part = "post" -> 2 [] part = "verdict" -> 1

\* The parts that this attempt and those that are left can run.
StepsLeft ==
    IF result # "running" THEN 0
    ELSE 16 * (MaxRetry + 1 - attempt) + PartsFrom(pc)

Nearer == StepsLeft' \in Nat /\ StepsLeft \in Nat /\ StepsLeft' < StepsLeft

LEMMA MeasureFalls ==
    ASSUME NEW n \in Nat, NEW a \in 1 .. n + 1, NEW b \in 1 .. n + 1,
           NEW p \in 1 .. 16, NEW q \in 1 .. 16,
           a < b \/ (a = b /\ q < p)
    PROVE  /\ 16 * (n + 1 - a) + p \in Nat /\ 16 * (n + 1 - b) + q \in Nat
           /\ 16 * (n + 1 - b) + q < 16 * (n + 1 - a) + p
OBVIOUS

LEMMA MeasureIsPositive ==
    ASSUME NEW n \in Nat, NEW a \in 1 .. n + 1, NEW p \in 1 .. 16
    PROVE  16 * (n + 1 - a) + p \in Nat /\ 0 < 16 * (n + 1 - a) + p
OBVIOUS

\* Every step of a running job brings it nearer to its end: the script only
\* goes forward, and the runner does not start it over for ever.
THEOREM EveryStepCounts == Spec => [][Nearer]_vars
<1>1. TypeOK /\ TypeOK' /\ Next => Nearer
    <2> SUFFICES ASSUME TypeOK, TypeOK', Next
                 PROVE  Nearer
        OBVIOUS
    <2>1. \A part \in Part : PartsFrom(part) \in 1 .. 16
        BY DEF Part, PartsFrom
    <2>2. PartsFrom(pc) \in 1 .. 16 /\ PartsFrom(pc') \in 1 .. 16
        BY <2>1 DEF TypeOK
    <2>3. attempt \in 1 .. MaxRetry + 1 /\ attempt' \in 1 .. MaxRetry + 1
          /\ MaxRetry \in Nat
        BY RetryAssumption DEF TypeOK
    <2> DEFINE left == 16 * (MaxRetry + 1 - attempt) + PartsFrom(pc)
               next == 16 * (MaxRetry + 1 - attempt') + PartsFrom(pc')
    <2>4. /\ StepsLeft = IF result # "running" THEN 0 ELSE left
          /\ StepsLeft' = IF result' # "running" THEN 0 ELSE next
        BY DEF StepsLeft
    <2>5. ASSUME result = "running", result' = "running",
                 \/ attempt < attempt'
                 \/ attempt = attempt' /\ PartsFrom(pc') < PartsFrom(pc)
          PROVE  Nearer
        <3>1. left \in Nat /\ next \in Nat /\ next < left
            <4> HIDE DEF PartsFrom
            <4> QED  BY <2>2, <2>3, <2>5, MeasureFalls
        <3> HIDE DEF left, next
        <3> QED  BY <2>4, <2>5, <3>1 DEF Nearer
    <2>6. ASSUME result = "running", result' # "running"
          PROVE  Nearer
        <3>1. left \in Nat /\ 0 < left
            BY <2>2, <2>3, MeasureIsPositive
        <3> HIDE DEF left, next
        <3> QED  BY <2>4, <2>6, <3>1 DEF Nearer
    <2> HIDE DEF left, next
    <2>7. CASE MainBuild \/ ReferenceBuild \/ PerfAnalysis
        <3>1. result = "running" /\ result' = "running" /\ attempt' = attempt
            BY <2>7
            DEF At, Same, MainBuild, Clone, CheckoutMain, ExtractMain, BuildAsts,
                BuildAstsAgain, BuildMain, ReferenceBuild, CleanForRef,
                CheckoutRef, RefAsts, RefAstsAgain, RefBuild, ExtractRef,
                PerfAnalysis, CheckoutAgain, Analyse, Post
        <3>2. \/ pc = "clone" /\ pc' = "checkout"
              \/ pc = "checkout" /\ pc' = "ast"
              \/ pc = "ast" /\ pc' \in {"ast2", "build"}
              \/ pc = "ast2" /\ pc' = "build"
              \/ pc = "build" /\ pc' = "extract"
              \/ pc = "extract" /\ pc' \in {"refClean", "verdict"}
              \/ pc = "refClean" /\ pc' = "refCheckout"
              \/ pc = "refCheckout" /\ pc' = "refAst"
              \/ pc = "refAst" /\ pc' \in {"refAst2", "refBuild"}
              \/ pc = "refAst2" /\ pc' = "refBuild"
              \/ pc = "refBuild" /\ pc' = "refExtract"
              \/ pc = "refExtract" /\ pc' = "again"
              \/ pc = "again" /\ pc' = "analyse"
              \/ pc = "analyse" /\ pc' = "post"
              \/ pc = "post" /\ pc' = "verdict"
            BY <2>7
            DEF At, MainBuild, Clone, CheckoutMain, ExtractMain, BuildAsts,
                BuildAstsAgain, BuildMain, ReferenceBuild, CleanForRef,
                CheckoutRef, RefAsts, RefAstsAgain, RefBuild, ExtractRef,
                PerfAnalysis, CheckoutAgain, Analyse, Post
        <3>3. PartsFrom(pc') < PartsFrom(pc)
            BY <3>2 DEF PartsFrom
        <3> QED  BY <2>5, <3>1, <3>3
    <2>8. CASE Verdict
        <3>1. result = "running" /\ result' # "running"
            BY <2>8 DEF Verdict, At
        <3> QED  BY <2>6, <3>1
    <2>9. CASE ScriptFails
        <3>1. result = "running" /\ result' # "running"
            BY <2>9 DEF ScriptFails
        <3> QED  BY <2>6, <3>1
    <2>10. CASE SystemFailure
        <3>1. CASE attempt <= MaxRetry
            <4>1. result = "running" /\ result' = "running" /\ attempt' = attempt + 1
                BY <2>10, <3>1 DEF SystemFailure
            <4>2. attempt < attempt'
                BY <2>3, <4>1
            <4> QED  BY <2>5, <4>1, <4>2
        <3>2. CASE ~ (attempt <= MaxRetry)
            <4>1. result = "running" /\ result' # "running"
                BY <2>10, <3>2, LastAttempt DEF SystemFailure
            <4> QED  BY <2>6, <4>1
        <3> QED  BY <3>1, <3>2
    <2> QED  BY <2>7, <2>8, <2>9, <2>10 DEF Next
<1>2. TypeOK /\ TypeOK' /\ [Next]_vars => [Nearer]_vars
    BY <1>1
<1> QED  BY <1>2, TypeCorrect, PTL DEF Spec
=============================================================================
