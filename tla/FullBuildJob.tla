---------------------------- MODULE FullBuildJob ----------------------------
(***************************************************************************)
(* The job full-build or full-build-compare, as main_job of gen/gen.ml     *)
(* writes it: a script that builds the main commits, then, for a           *)
(* comparison, cleans up, builds the reference commits in the same         *)
(* checkout, and returns to the main commits to compare the data of both.  *)
(*                                                                         *)
(* The runner executes the script under bash's -e and pipefail: a line     *)
(* that fails ends the job.  It is the runner, too, that starts the job    *)
(* over after a system failure, in a new container.  Both are GitLab's     *)
(* part and external, like what the commands of the bhv repository do.     *)
(***************************************************************************)
EXTENDS Naturals, FiniteSets

CONSTANT MaxRetry    \* retry: max, of gen_common

ASSUME RetryAssumption == MaxRetry \in Nat

VARIABLES
    compare,   \* ref_build is there: the job is full-build-compare
    timing,    \* full_timing: "no", "partial" or "full"
    newRepos,  \* the main commits vendor repositories the reference lacks
    pc,        \* the next part of the script
    result,    \* of the job: "running", "success" or "failed"
    attempt,   \* how often the job was started
    tree,      \* the commits checked out
    leftover,  \* clones of new vendored repositories lie in the checkout
    build,     \* the commits _build was made from
    data,      \* the commits each directory of performance data is about
    failure,   \* /tmp/main_build_failure exists
    failed,    \* the stages of this attempt that did not work (observation)
    posted     \* the reports posted to the MR

settings == <<compare, timing, newRepos>>
vars == <<compare, timing, newRepos, pc, result, attempt, tree, leftover,
          build, data, failure, failed, posted>>

Commits == {"none", "bhv", "main", "ref"}
Stages == {"ast", "ast2", "build", "check", "script"}

\* Where performance data can be: in the checkout, where gitclean deletes it,
\* or put aside in $CI_PROJECT_DIR as perf-data and perf-data_ref.
Place == {"work", "main", "ref"}
NoData == [p \in Place |-> "none"]

Part == {"clone", "checkout", "ast", "ast2", "build", "extract",
         "refClean", "refCheckout", "refAst", "refAst2", "refBuild",
         "refExtract", "again", "analyse", "post", "verdict"}

TypeOK ==
    /\ compare \in BOOLEAN /\ newRepos \in BOOLEAN
    /\ timing \in {"no", "partial", "full"}
    /\ pc \in Part
    /\ result \in {"running", "success", "failed"}
    /\ attempt \in 1..(MaxRetry + 1)
    /\ tree \in Commits /\ build \in Commits
    /\ leftover \in BOOLEAN /\ failure \in BOOLEAN
    /\ data \in [Place -> Commits]
    /\ failed \subseteq Stages
    /\ posted \subseteq [main : Commits, ref : Commits]

Init ==
    /\ compare \in BOOLEAN
    /\ timing \in {"no", "partial", "full"}
    /\ newRepos \in BOOLEAN
    /\ result = "running"
    /\ attempt = 1
    /\ posted = {}
    /\ pc = "clone" /\ tree = "none" /\ build = "none" /\ data = NoData
    /\ leftover = FALSE /\ failure = FALSE /\ failed = {}

At(part) == result = "running" /\ pc = part
Same(xs) == UNCHANGED <<settings, result, attempt, xs>>

\* bhv_cloning, at bhv's main commit, and init_command, which creates the
\* directories of the repositories that commit vendors; rm -rf _build.
Clone ==
    /\ At("clone")
    /\ pc' = "checkout"
    /\ tree' = "bhv"
    /\ leftover' = newRepos
    /\ build' = "none"
    /\ Same(<<data, failure, failed, posted>>)

\* Checkout "main", with init; the failure file is removed.
CheckoutMain ==
    /\ At("checkout")
    /\ pc' = "ast"
    /\ tree' = "main"
    /\ leftover' = newRepos
    /\ failure' = FALSE
    /\ Same(<<build, data, failed, posted>>)

\* Mutant of BuildAsts: the failure is announced but not remembered.
BuildAstsEcho(ok) ==
    /\ At("ast")
    /\ pc' = IF timing = "full" THEN "ast2" ELSE "build"
    /\ build' = tree
    /\ failed' = failed \cup (IF ok THEN {} ELSE {"ast"})
    /\ Same(<<tree, leftover, data, failure, posted>>)

\* fm-build.py @ast || touch failure: the job goes on either way.
BuildAsts(ok) ==
    /\ At("ast")
    /\ pc' = IF timing = "full" THEN "ast2" ELSE "build"
    /\ build' = tree
    /\ failure' = (failure \/ ~ ok)
    /\ failed' = failed \cup (IF ok THEN {} ELSE {"ast"})
    /\ Same(<<tree, leftover, data, posted>>)

\* Full timing: dune clean, the ASTs again, likewise allowed to fail; the
\* comparison of the checksums after it is not (ScriptFails).
BuildAstsAgain(ok) ==
    /\ At("ast2")
    /\ pc' = "build"
    /\ build' = tree
    /\ failure' = (failure \/ ~ ok)
    /\ failed' = failed \cup (IF ok THEN {} ELSE {"ast2"})
    /\ Same(<<tree, leftover, data, posted>>)

\* (dune build | filter) || touch failure; under full timing
\* (dune build | filter; make dune_check) || touch failure, where the status
\* of the parenthesis is that of its last command.
BuildMain(ok, checkOk) ==
    /\ At("build")
    /\ pc' = "extract"
    /\ failure' = (failure \/ (IF timing = "full" THEN ~ checkOk ELSE ~ ok))
    /\ failed' = failed \cup (IF ok THEN {} ELSE {"build"})
                        \cup (IF timing = "full" /\ ~ checkOk THEN {"check"}
                                                              ELSE {})
    /\ Same(<<tree, leftover, build, data, posted>>)

\* Mutants of ExtractMain: the data is left in the checkout; a comparison is
\* not worth it after a failure.
ExtractInPlace ==
    /\ At("extract")
    /\ pc' = IF compare THEN "refClean" ELSE "verdict"
    /\ data' = [data EXCEPT !["work"] = build]
    /\ Same(<<tree, leftover, build, failure, failed, posted>>)

ExtractUnlessFailed ==
    /\ At("extract")
    /\ IF compare /\ ~ failure
       THEN pc' = "refClean" /\ data' = [data EXCEPT !["main"] = build]
       ELSE pc' = "verdict" /\ data' = [data EXCEPT !["work"] = build]
    /\ Same(<<tree, leftover, build, failure, failed, posted>>)

\* extract-all _build perf-data, which is put aside for a comparison.
ExtractMain ==
    /\ At("extract")
    /\ IF compare
       THEN pc' = "refClean" /\ data' = [data EXCEPT !["main"] = build]
       ELSE pc' = "verdict" /\ data' = [data EXCEPT !["work"] = build]
    /\ Same(<<tree, leftover, build, failure, failed, posted>>)

\* gitclean knows the repositories of the bhv commit that is checked out; a
\* clone it does not know about is left alone.
GitClean ==
    /\ build' = "none"
    /\ data' = [data EXCEPT !["work"] = "none"]

\* Mutant of CleanForRef: without git clean -ffxd.
CleanForRefLightly ==
    /\ At("refClean")
    /\ pc' = "refCheckout"
    /\ GitClean
    /\ tree' = "bhv"
    /\ Same(<<leftover, failure, failed, posted>>)

\* gitclean, checkout of the reference bhv, git clean -ffxd, which deletes
\* untracked clones too, and gitclean again.
CleanForRef ==
    /\ At("refClean")
    /\ pc' = "refCheckout"
    /\ GitClean
    /\ tree' = "bhv"
    /\ leftover' = FALSE
    /\ Same(<<failure, failed, posted>>)

\* Mutant of CheckoutRef: the template of the main commits is used.
CheckoutRefAsMain ==
    /\ At("refCheckout")
    /\ pc' = "refAst"
    /\ tree' = "main"
    /\ Same(<<leftover, build, data, failure, failed, posted>>)

CheckoutRef ==
    /\ At("refCheckout")
    /\ pc' = "refAst"
    /\ tree' = "ref"
    /\ Same(<<leftover, build, data, failure, failed, posted>>)

\* The reference build, step by step; none of them may fail (ScriptFails).
RefAsts ==
    /\ At("refAst")
    /\ pc' = IF timing = "full" THEN "refAst2" ELSE "refBuild"
    /\ build' = tree
    /\ Same(<<tree, leftover, data, failure, failed, posted>>)

RefAstsAgain ==
    /\ At("refAst2")
    /\ pc' = "refBuild"
    /\ build' = tree
    /\ Same(<<tree, leftover, data, failure, failed, posted>>)

RefBuild ==
    /\ At("refBuild")
    /\ pc' = "refExtract"
    /\ Same(<<tree, leftover, build, data, failure, failed, posted>>)

ExtractRef ==
    /\ At("refExtract")
    /\ pc' = "again"
    /\ data' = [data EXCEPT !["ref"] = build]
    /\ Same(<<tree, leftover, build, failure, failed, posted>>)

\* gitclean, checkout "main" again, init.
CheckoutAgain ==
    /\ At("again")
    /\ pc' = "analyse"
    /\ GitClean
    /\ tree' = "main"
    /\ leftover' = newRepos
    /\ Same(<<failure, failed, posted>>)

\* Both data directories are moved into the checkout; the reports are made
\* by tools built there, from the main commits.
Analyse ==
    /\ At("analyse")
    /\ data["main"] # "none" /\ data["ref"] # "none"
    /\ pc' = "post"
    /\ build' = tree
    /\ Same(<<tree, leftover, data, failure, failed, posted>>)

\* post_fm_perf.py.
Post ==
    /\ At("post")
    /\ pc' = "verdict"
    /\ posted' = posted \cup {[main |-> data["main"], ref |-> data["ref"]]}
    /\ Same(<<tree, leftover, build, data, failure, failed>>)

\* The last line: the job fails if the failure file is there.
Verdict ==
    /\ At("verdict")
    /\ result' = IF failure THEN "failed" ELSE "success"
    /\ UNCHANGED <<settings, pc, attempt, tree, leftover, build, data,
                   failure, failed, posted>>

\* A command that is not allowed to fail does: the job ends there.
ScriptFails ==
    /\ result = "running"
    /\ pc # "verdict"
    /\ result' = "failed"
    /\ failed' = failed \cup {"script"}
    /\ UNCHANGED <<settings, pc, attempt, tree, leftover, build, data,
                   failure, posted>>

\* Mutants of SystemFailure: one retry too many; retries are not counted.
SystemFailureOneMore ==
    /\ result = "running"
    /\ attempt <= MaxRetry + 1
    /\ attempt' = attempt + 1
    /\ pc' = "clone" /\ tree' = "none" /\ build' = "none"
    /\ data' = NoData /\ leftover' = FALSE /\ failure' = FALSE
    /\ failed' = {}
    /\ UNCHANGED <<settings, result, posted>>

SystemFailureUncounted ==
    /\ result = "running"
    /\ pc' = "clone" /\ tree' = "none" /\ build' = "none"
    /\ data' = NoData /\ leftover' = FALSE /\ failure' = FALSE
    /\ failed' = {}
    /\ UNCHANGED <<settings, result, attempt, posted>>

\* A failure of the runner or of GitLab: the job is started over, from the
\* first line and in a new container, as long as there are retries left.
SystemFailure ==
    /\ result = "running"
    /\ IF attempt <= MaxRetry
       THEN /\ attempt' = attempt + 1
            /\ pc' = "clone" /\ tree' = "none" /\ build' = "none"
            /\ data' = NoData /\ leftover' = FALSE /\ failure' = FALSE
            /\ failed' = {}
            /\ UNCHANGED result
       ELSE /\ result' = "failed"
            /\ failed' = failed \cup {"script"}
            /\ UNCHANGED <<attempt, pc, tree, leftover, build, data, failure>>
    /\ UNCHANGED <<settings, posted>>

MainBuild ==
    \/ Clone \/ CheckoutMain \/ ExtractMain
    \/ \E ok \in BOOLEAN : BuildAsts(ok) \/ BuildAstsAgain(ok)
    \/ \E ok, checkOk \in BOOLEAN : BuildMain(ok, checkOk)

ReferenceBuild ==
    CleanForRef \/ CheckoutRef \/ RefAsts \/ RefAstsAgain \/ RefBuild
    \/ ExtractRef

PerfAnalysis == CheckoutAgain \/ Analyse \/ Post

Next ==
    \/ MainBuild \/ ReferenceBuild \/ PerfAnalysis \/ Verdict
    \/ ScriptFails \/ SystemFailure

\* The runner keeps executing the script.
Spec == Init /\ [][Next]_vars /\ WF_vars(Next)

----------------------------------------------------------------------------
(* What could go wrong.                                                    *)

\* A job that succeeds has built everything: a failure that the script lets
\* pass in the main build is still there in the last line.  Under full
\* timing this does not hold of the main dune build, see BuildMain.
HonestSuccess ==
    result = "success" =>
        failed \subseteq (IF timing = "full" THEN {"build"} ELSE {})

\* Whatever is posted compares the main commits with the reference, although
\* both are built in the same directory and the data changes places.
RightTrees ==
    posted \subseteq {[main |-> "main", ref |-> "ref"]}

\* The reference is built in a clean checkout: nothing of the main build, and
\* no repository that only the main commits have.
CleanReference ==
    pc = "refAst" => tree = "ref" /\ build = "none" /\ ~ leftover

\* Data put aside outlives the cleaning, until the analysis needs it.
DataKept ==
    /\ pc \in {"refClean", "refCheckout", "refAst", "refAst2", "refBuild",
               "refExtract", "again", "analyse", "post"} => data["main"] = "main"
    /\ pc \in {"again", "analyse", "post"} => data["ref"] = "ref"

\* A main build that fails does not cost the comparison: a job that got to
\* its last line has posted it, and then fails for the main build only.
PartialDataPosted ==
    result # "running" /\ "script" \notin failed =>
        /\ compare => posted # {}
        /\ result = "failed" => failed # {}

\* The job ends, however often its runner fails.
Ends == <>(result # "running")

\* README.md, Support for FM-CI-Compare: the status of the main build is
\* remembered, and makes the full job fail at its end.
FailureRemembered == result = "success" => failed = {}
=============================================================================
