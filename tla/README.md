# A formal model of fm-ci

This directory holds TLA+ specifications of the programs in the `fm-ci`
repository, the TLC configurations that check them on small instances, and
proofs of the theorems about them that the TLA+ proof system checks for every
value of the constants. Line numbers refer to the sources next to it
(`src/...`). `PROJECT.json` lists the runs, the source lines that each
definition stands for, a mutant of the code for each property, the hazards the
properties are aimed at, and the places where the code and its documentation
disagree.

## 1. The system and its parts

`fm-ci` is a set of small programs around the CI of a set of git repositories
that are checked out below one of them, `bhv`.

| Part | Source | State it keeps | Operations |
|---|---|---|---|
| Configuration and dependency closure | `gen/config.ml`, `config.toml` | the list of repositories, each with its `deps` | `read_config`, `transitive_deps`, `all_downstream_from` |
| Configuration generator | `gen/gen.ml`, `gen/info.ml`, `gen/extra.ml` | the trigger (environment), the clones, `repos_with_hashes`, `main_build`, `ref_build`, `repos_needing_full_build` | clone all repositories in parallel, choose a commit for each, decide what to build in full, write the YAML |
| Generated job `full-build[-compare]` | `main_job`, `gen.ml:529-794` | a checkout, `_build`, performance data, `/tmp/main_build_failure` | main build, reference build, analysis, report, verdict |
| Linter context machine | `fm-linter/linter.py` | stack of contexts, stack of saved flags, flags of the current proof | one sentence at a time: enter, leave, check |
| Linter policies | `fm-linter/linter_util.py`, `linter.py:209-248` | allow, deny and eager-allow lists per context | extend, build, look up |
| Linter sentence parser | `fm-linter/coq_sentence_parser.py` | comment depth, the sentence gathered so far | strip comments line by line, split a text into sentences |
| Linter command line | `fm-linter/coq_lint.py` | targets, three shared linter objects, results | resolve targets, find files, lint each, report, exit status |
| Hierarchy builder | `fm-linter/coq_hierarchy_builder.py`, `coq_mkfiles.py` | a plan; the file system | plan, then create what is missing |
| File finder | `fm-linter/coq_findprf.py` | none | a scan |
| Dune cache overlay | `fm-local-cache/setup_dcache_overlayfs.sh` | directories and mounts of the host | init, cleanup, status |
| Flame graph of logs | `misc/log_flamegraph.py` | a tree of spans | fold a log |
| Docker images | `docker/` | images, tags, an archive of `bhv` | build, tag, push |
| Demo, filters, metadata | `fm-demo/`, `misc/*.sh`, `fm-deps/`, `devcontainer/` | none | one-shot copying or filtering |

**How they interact.** A push or a merge request in any repository makes GitLab
start the generator with a description of the event in its environment. The
generator clones every configured repository (child processes, all started
before the first is awaited), asks the clones for commits, asks the
configuration which repositories depend on what changed, and writes jobs.
GitLab runs them; the main one is modelled here. The linter and the hierarchy
builder are run by hand or as one of those jobs. The linter feeds the sentences
of the parser to the context machine, which consults the policy of the context
it believes to be in. The hierarchy builder shares a directory with its users
and with other runs of itself.

**What is hard.**

* *Generator.* Repositories move while the trigger waits and while they are
  cloned one by one; git processes fail independently; four sources of a branch
  name are combined per repository, each of which may be missing there.
  Correct means: the trigger's commit is built, a comparison is between a commit
  and an ancestor of it, only what the merge request brings in differs, the
  list of full builds is right, and there is a reason for every abort.
* *Dependency closure.* The configuration may be cyclic or name unknown
  repositories, and nothing rejects that early. Correct means: the exact set of
  dependents, always reached, or an abort for a configuration that is broken.
* *Full-build job.* Two builds of different commits share a directory; failures
  of the first must be remembered through pipes and `||` and reported last; the
  runner may start the job over at any point. Correct means: success is honest,
  what is posted compares the right commits, data survives the cleaning.
* *Linter.* Contexts are guessed from regular expressions; flags of a proof are
  saved and restored around nested ones; obligations of a `Program` definition
  re-enter a proof by a flag left behind. Correct means: the linter is in the
  context where `coqc` is, and gives up on no file that `coqc` accepts.
* *Sentence parser.* Comments nest and span lines, strings may hold comment
  delimiters, and all of it is guessed from one line and a counter. Correct means:
  it agrees with the lexer of `coqc` on what is a comment and where a sentence
  ends, on every file without the declared limitations.
* *Command line.* The linter objects are shared by all files, files and targets
  fail in several ways, and the path of a target outlives it. Correct means: the
  exit status is honest, a file's errors are its own, and a run gives up on a file
  it may not go on after, and on no other.
* *Policies.* Lists are pruned when a policy is extended, then two policies are
  consulted. Correct means: no context weakens another policy by accident.
* *Hierarchy builder.* What a path holds is looked up first and acted on later.
  Correct means: work seen is kept, and what is reported done is complete.

## 2. The modules

| Module | Models | Extends / uses |
|---|---|---|
| `ConfigGraph` | the `deps` graph of a configuration, `Reach` as the least closed set, the set of dependents | |
| `DownstreamSpec` | the promise of `all_downstream_from`: one exact answer, or an abort for a broken configuration | `ConfigGraph` |
| `TransitiveDeps` | `transitive_deps` and `all_downstream_from` as a worklist, a name per step | `ConfigGraph`; refines `DownstreamSpec` |
| `TransitiveDeps_proofs` | theorems | `TransitiveDeps` |
| `GenPipeline` | a run of the generator among pushes and failing git processes | `ConfigGraph` |
| `GenPipeline_proofs` | theorems | `GenPipeline` |
| `FullBuildJob` | the script of the job and its restarts by the runner | |
| `FullBuildJob_proofs` | theorems | `FullBuildJob` |
| `CoqLinter` | the context machine, beside what `coqc` makes of the same sentences | |
| `CoqLinter_proofs` | theorems | `CoqLinter` |
| `SentenceParser` | comment stripping and the gathering of lines, beside the lexer of `coqc` | |
| `SentenceParser_proofs` | theorems, and what the folds over a line compute | `SentenceParser` |
| `LintDriver` | a command line: targets, files, shared linter objects, report and status | |
| `LintDriver_proofs` | theorems, and what the fold of a linter over a text computes | `LintDriver` |
| `LintPolicy` | construction and lookup of policies | |
| `LintPolicy_proofs` | theorems | `LintPolicy` |
| `HierarchyBuilder` | several runs of the builder on one directory, with users and crashes | |
| `HierarchyBuilder_proofs` | theorems | `HierarchyBuilder` |
| `MC*` | the constants of a run | the module they are named after |

`ConfigGraph` is where the two views of the dependency graph meet: it defines
`Reach` without any algorithm, `TransitiveDeps` shows that the algorithm of the
code computes it, and `GenPipeline` may then use the definition in place of the
algorithm.

**TransitiveDeps.** `roots` and `found` are the arguments of the inner
`transitive_deps` loop (`deps` is called `found`); `todo`, `cur` and
`downstream` are how far `List.filter` has come. One action per branch of the
match: `SkipKnown`, `Expand`, `BadDependency`, and `StartRepo`, `KeepOrDrop`,
`Finish` for the filter. The filter takes the repositories in any order, since
its result is used as a set only.

**GenPipeline.** `remote` is the server, `clone` what each `git clone` saw at
its own moment. `trigger` is what `info.ml` reads: project, commit, and a merge
request with its two branches and labels. `SpawnClones`, `CloneDone`,
`CloneFails`, `CloneFailed` (processes are awaited in list order), `AllCloned`,
`Generate`, `BadData` and `UnknownProject` are the generator; `Push` is everyone
else. `RepoHashes` is the match of `repo_hashes`, a case per line. A panic writes
nothing, so that the panics of one phase are one action with the disjunction of
their conditions as its guard. A commit is opaque and `Anc` is the history;
`MergeBase` picks one best common ancestor, like `git merge-base`.

**FullBuildJob.** `pc` names the part of the script that is next, in the order
`main_job` writes them. `tree`, `build` and `data` hold the *name of the commits*
a directory was made from, which is what a mix-up would change. `leftover` is a
repository vendored by the main commits only. `failed` records what went wrong,
for the properties; the script only has the file `failure`. A line outside a
`||` list that fails is `ScriptFails`; the runner's own failures, with GitLab's
retry, are `SystemFailure`.

**CoqLinter.** A sentence is the class of regular expressions it matches, an
action per class: `LintX` is what the linter does, and the action `X` adds what
`coqc` does (variables `coq` and `pending`, external). `exit_proof_ctx` is
modelled as the code executes: the apparent assignment of five saved flags
assigns one of them (disagreement 2). Files come in styles, see `Legal`.

**LintPolicy.** A matcher is a regular expression, a sentence the set of the
matchers that match it. `Extend` is `extend_allow_deny_policy`, `Verdict` is
`check_policy_aux`.

**SentenceParser.** A line is a sequence of tokens. `ReadLine` is
`get_next_line_and_stripped_comments`: `Delimiters` finds the comment delimiters
and prunes those that seem to be in strings, `Cancel` takes them one by one like
the loop of the code, with its list of starts, `Blanked` is what is then blanked.
`Stripped` is `coq_rstrip`: a line in an interactive proof loses the bullets it
begins with, runs of `-`, `+` and `*` once each and in this order, then braces at
either end. A bullet that stands elsewhere (`split. -`, `{ -`, `* +`) is left, and
keeps the sentence open. `AddLine` is the loop of `get_next_sentence`. Next to
them `Lex` is an external lexer, the reference for what a comment is;
`coq.unfinished` says whether a sentence of the file is open and `coq.dangling`
whether a bullet that the code does not strip came after the last text. Selectors
with a number (`2: {`) are text to both; delimiters that overlap, as in `(*)`, are
no token.

**LintDriver.** `ResolveCommon` and `ResolveInferred` take one target each,
`NextTarget` and `Lint` one directory and one file (files of a directory come in
any order). `linter` holds what a linter object keeps between files; `RunSentence`
is the context machine cut down to one counter, since `CoqLinter` has the whole,
with the three ways to stop: a context that cannot be left, a text that cannot be
parsed, bytes that cannot be read. `CategoryOf` is
`enumerate_coq_file_hierarchy`, by parts of the path below the target.

**HierarchyBuilder.** A path is a sequence of names; `fs` says what is there.
`Hierarchy` lists the paths in the order of the plan's dictionaries, `Position`
and `IsFirst` are that order; a run's `queue` and `missing` are sets of paths that
are taken in it. `Look` examines one node, `MakeDir`, `Open` and `Write` create one,
where `Open` truncates and `Write` is the text reaching the file on closing. `Edit`
is a user, `Kill` an interruption; a rerun is another member of `Builder`.

## 3. What is checked

Every property has a mutant in `PROJECT.json`: a plausible bug in a definition
under which TLC finds the property violated. The mutants stand next to the
definitions they replace.

| Run | Properties beyond the type invariant | Instance | States |
|---|---|---|---|
| `transitive_deps` | `ClosureInv`, `FilterInv`, `StepsForward`, `Implements` | 3 repositories, 9 deps lists each (self-loops, cycles of each length, diamonds, repetitions, an unknown name first or last), every set of origins | 259 288 |
| `gen_pipeline` | `TriggerPinned`, `RefIsAncestor`, `OnlyTheMRDiffers`, `FullBuildSound`, `FullBuildNeeded`, `PanicHasReason`, `Terminates` | 3 repositories, one vendored, one other project; 4 commits; 3 branches; every subset of labels; 1 push | 1 587 360 |
| `full_build_job` | `HonestSuccess`, `RightTrees`, `CleanReference`, `DataKept`, `PartialDataPosted`, `Ends` | every mode, any stage failing, one restart | 3 836 |
| `coq_linter` | `StacksAgree`, `TracksNesting` | nesting 3, 2 obligations, 2 kinds of container; nested files, files with `Program`, any text | 311 254 |
| `sentence_parser` | `NestingKept`, `FlatLinesExact`, `FlatFilesRead` | lines of up to 4 tokens of 9 kinds, comments nested twice, files of any length; accepted files, any text | 141 385 |
| `lint_driver` | `StatusIsHonest`, `VerdictIsLocal`, `TargetsAccounted`, `GivesUpWhenStrict` | 2 files with 5 contents, 4 directories, command lines of up to two targets of a sort | 57 526 |
| `lint_policy` | `MostSpecificSuffices`, `OverridesPermissible` | every pair of policies over 2 matchers, every sentence | 12 288 |
| `hierarchy_builder` | `FoundIsKept`, `Complete`, `SomeoneGoesOn`, `EmptyHasOwner` | 2 builders, 2 categories, 3 exclusions, 1 edit, any part of the hierarchy present | 3 954 481 |

**Bounds.** Every bound is a constant in a `.cfg` or `MC` module.

* `DepLists`: with three repositories a worklist meets every situation the match
  distinguishes (known, new, unknown, waiting twice, origin behind a cycle). The
  theorems below have no such bound.
* `MaxPush = 1` and `MCCommit = 1..4`: each property of the generator compares at
  most two observations of one repository, so that one change between the
  trigger and a clone is what matters. Commit 3 is beside 2, 1 behind both, 4
  unrelated: the four relations of a branch to its target.
* `MaxRetry = 1` is the value in the code (`gen.ml:505`).
* `MaxDepth = 3`: the linter looks at the head of its stacks only; three levels
  give a proof in a proof in a container and the container in a container.
* `MaxObligation = 2`: the first obligation and "the next" are the two cases.
* `MaxLine = 4` and `MaxNest = 2`: a string around a delimiter with text before or
  behind it, a comment within another, or a sentence behind two selectors fit on a
  line; a deeper comment takes the same branches as one of depth 2. The theorems have
  no bound on the line.
* `MCTexts` and `MCCommands`: the contents are clean, broken under either policy
  with a context left open, and stopped in each of the three ways with errors
  before; two targets of a sort are one and the one before it, two files one linted
  after the other with the same object.
* `MaxEdit = 1` and two builders: conflicts are pairwise (a directory made, or a
  file written, between a look and the action that relies on it). The builders are
  interchangeable and no property is temporal, hence `SYMMETRY`.

`CHECK_DEADLOCK FALSE` is set where the program ends: a generator run, a job, a
file that is no longer linted, a builder's run.

**Fairness.** `TransitiveDeps` has `WF_vars(Next)`: a sequential computation goes
on. `GenPipeline` has weak fairness of the generator and, per repository, of its
git process ending one way or the other (`git clone` has its own network timeouts
and the CI job a limit of its own); pushes are never required. `FullBuildJob` has
`WF_vars(Next)`: the runner goes on with the script, or fails. The linter, its
parser, its command line, the policies and the builder have safety properties only:
they are loops over a finite input.

### Disagreements between the code and what is said of it

Each is shown by a run that TLC is expected to find violated.

1. `full_build_failure`: `README.md:129-131` says the status of the main build is
   remembered. Under full timing (`gen.ml:585-589`) the list
   `(dune build | ...; make dune_check) || touch failure` has the status of
   `make dune_check` alone. `HonestSuccess` states what does hold.
2. `coq_linter_nested_program`: `linter.py:61-62` says that
   `_nested_proof_stack` accounts for `Set Nested Proofs Allowed`. In
   `exit_proof_ctx` four of the five flags are not restored
   (`linter.py:188-194`), which a proof nested in an obligation reveals.
3. `sentence_parser_strings`: `coq_sentence_parser.py:68-69` says that pairs of
   double quotes prune the comment delimiters within those strings. The test at
   line 94 is off by one, so that `"(*"` opens a comment. That strings over several
   lines and doubled quotes are not understood is declared there, and `Legal` leaves
   such files out.
4. `lint_driver_gives_up`: `coq_lint.py:88` says of the common pass "simply warn if a
   file can't be processed". Lines 92-96 catch `RuntimeError` only; a file that is not
   UTF-8, as in the run, raises `UnicodeDecodeError`, a directory named `*.v`
   `IsADirectoryError`, and there is no report on any file. The same property fails for
   another reason too: the help of `--extra-code-proofs` (`coq_lint.py:374`) offers to
   lint specific code-proof files, and `coq_lint.py:279` then reads `errors`, a name that
   is never bound (it means `results`), so that each run that lints such a file ends in
   a `NameError`.

`GivesUpWhenStrict` says when a run gives up apart from these two causes: its second
half is about `Ordinary` runs, which have readable files, no code-proof file and no
missing target among those whose categories are inferred (see below).

Met while reading, outside the models or beside the properties:

* `README.md:138-141` says that under `CI::same-branch` the reference commit of a
  repository that did not initiate the MR is taken from a branch named like the MR's
  target. `gen.ml:242` looks for that branch only in repositories that have the MR's
  *source* branch. `README.md:115-116` says that repositories which are not involved are
  compared at their main branch, which is what the code does, so lines 138-141 seem to
  mean the involved ones and should say so.
* `docker/README.md:94` writes `CI-skip-proof` where `gen.ml:348` tests
  `CI-skip-proofs`; `gen.ml:757` appends to `perf_analysis.gitlab.md` what belongs in
  `perf_analysis_gitlab.md`.
* `coq_lint.py:253` uses the path of the previous target after one that is missing: if
  there is none the run ends in an `UnboundLocalError`, else the previous target is
  linted again or rejected again under the name of the missing one. No text of the
  repository says otherwise. `LintDriver` does what the code does and `TargetsAccounted`
  names the exception; `StatusIsHonest` has none, a missing target is never hidden.
* `repos_needing_full_build` is printed (`gen.ml:340-344`) and used nowhere else: no
  generated job depends on it. `FullBuildSound` and `FullBuildNeeded` are about that
  list, not about what is built.
* The clones of one generated configuration are no snapshot: nothing promises that its
  commits were ever heads together, and no property says so.
* Targets of both sorts are refused with exit status 0 (`coq_lint.py:399`). A target
  that is itself named `proof/` does not make its files proofs, since only the
  parts below a target count.
* A nested comment may take the code on its lines with it, or leave part of its text
  in the following sentence, without a message. `linter.py:16-19` and
  `coq_sentence_parser.py:152` declare the limitation; the flag that would announce it
  is not looked at by `run`.
* `coq_mkfiles.py:52` says that `--execute` displays the plan without modifying the
  file system; `coq_hierarchy_builder.py:264-280` displays it without the flag and
  creates the files with it. As it stands `coq_mkfiles.py` stops before, at line 9, at
  an undefined name.
* `log_flamegraph.py:63` finds the first start `>= t` where its comment says `> t`.

## 4. What is proved

All theorems follow from the named assumptions on the constants alone:

* `ConfigAssumption`: configured names are names, deps lists are sequences of names;
  `NoneAssumption`: `None` is no name.
* `PipelineAssumption` (the constants of the generator have their types, `Absent` is
  no commit), `AncestryAssumption` (ancestry is a partial order) and
  `MergeBaseAssumption` (two commits with a common ancestor have a best one, as
  histories are finite).
* `RetryAssumption`: the number of retries is a natural number. `LintPolicy` assumes
  nothing about `Matcher`.
* `LinterAssumption`: the containers and styles are among those there are, the bounds
  are natural numbers.
* `BuilderAssumption`: names are given as sequences, no target is named like the
  directory `target` and no category like `prelude` (files end in `.v`).
* `ParserAssumption`: the bounds are natural numbers and the styles among those there
  are.
* `DriverAssumption`: a path is one of a Coq file, another file, a directory or nothing;
  the files below a directory end in `.v`; command lines and texts are sequences.

Every safety invariant and action property that a passing run checks is a theorem, for
every value of these constants.

**Dependency closure.** `IInv == TypeOK /\ ClosureInv /\ FilterInv`.

* `ClosureInv`: what is found or waiting is reachable, and each found repository
  has its dependencies found or waiting. When the worklist is empty the found set
  is therefore closed, and being inside `Reach`, the least closed set, it equals it
  (lemma `ClosureComplete`). It is not inductive without `TypeOK`, from which the
  concatenation of worklists takes that they are sequences (`RangeConcat`,
  `RangeHeadTail`).
* `FilterInv`: every repository decided so far is decided right. Its step for
  `KeepOrDrop` needs `ClosureInv`.
* From `IInv`: `ClosureCorrect`, `FilterCorrect`, `AnswerIsExact` (the answer is
  exact and the configuration was not broken), `PanicIsJustified` (the abort is
  for a broken configuration), and `ImplementsAbstract`: each step is the one step
  of `DownstreamSpec` or a stutter.
* `AlwaysForward`, from `TypeOK` alone: a step of the inner loop finds a new
  repository or shortens the worklist, on cyclic configurations too.

**Generator.** `IInv == TypeOK /\ Chosen`. Everything that is chosen is a function of
the trigger and the clones (`SameInput`); `Chosen` says that the clones are final
when the choice is made and that the output still is that function of them, which
is why no push and no late git process can come between. `HashesFor` lists what an
entry of `repo_hashes` satisfies whichever line of the match made it
(`RepoHashesIsFor`), and from it follow `TriggerIsPinned`, `ReferenceIsAncestor`,
`OnlyMRDiffers`, `FullBuildIsSound` and `FullBuildIsNeeded`. `PanicIsJustified`
needs `PanicKnows` in addition: the reason of a panic is still there after clones
that were running have ended.

**Full-build job.** `IInv == TypeOK /\ DirectoriesInv /\ FailureInv`. The first says
for each part of the script what the checkout, `_build` and the data directories
are made from when the part starts; the properties speak of a few parts only and
are not inductive. The second relates the failure file to the stages that failed
and to the result. From them: `ReportsAreRight`, `ReferenceIsClean`, `DataIsKept`,
`SuccessIsHonest`, `ComparisonIsPosted`, for any number of retries.

**Policies.** `ExtendTakesOver` says where each matcher of a global list ends up
after extension; `GlobalIsRedundant` and `OverrideIsOwn` follow by cases of the
verdict. The invariant `ReportInv` ties a report to the policies it was made from.
`SpecificPolicySuffices` answers the TODO of `linter_util.py` (checking the most
specific policy is enough) for any set of matchers, and
`OverridesArePermissible` states what a context may change.

**Linter.** `LinterInv` says what the stacks of the linter look like on *any* text: the
innermost contexts lie above the toplevel, and there is a saved state of flags for
each proof among them. Every sentence keeps it (`PushedCtx`, `PoppedCtx`: a push or a
pop of a proof is one of both stacks), from which `StacksStayInStep` and, with
`CoqInv` for the model of `coqc`, `TypeCorrect` follow. `NestingIsTracked` is not
inductive: that the linter is where `coqc` is says nothing of the flag that makes it
re-enter a proof at the next obligation. `TrackInv` adds that the linter is `Inside`
or `Awaiting` (it takes the time until the first obligation for a proof), and that
while obligations are open the flags of the current proof, and after it the flag
left behind, know of them. The theorem holds for any depth and number of
obligations, and fails for the style `"both"`, as disagreement 2 shows.

**Hierarchy builder.** For any number of builders, `IInv` has five parts.
`TypeInv` adds to `TypeOK` that a run that writes is at a file (`WriteInv`). `FoundInv`
says that each path is waiting, planned or found, and only what is planned is
written, hence `WorkSeenIsKept`. `CompleteInv` says that what is wanted is waiting,
planned or there, hence `FinishedIsComplete`. `EmptyHasOwner` is inductive with
`TypeInv`: only `Open` leaves a file without a text, and a run takes a path off its
plan only when it writes that text. `BlockInv` is what `NotAllGiveUp` needs: if a
directory somebody plans for exists, some run made it and is past it, so that a run
that gave up has another one ahead of it (`BlockIsPartial`: the run ahead at the
last directory was overtaken by nobody). That a parent is always there when a node
is made (`ParentIsThere`) rests on the order of the plan: `Places` says what is at
each position of `Hierarchy`, `ParentComesFirst` compares the positions.

**Induction over data.** The linter runs over a text, the parser and the lexer over a
line, by folds. A library theorem for induction takes an operator as its argument, which
the provers cannot instantiate; `SetInduction` says the same of a *set* of numbers: one
that holds 0 and with each number the next holds them all. `IterExists` builds by it the
function that a fold over positions is defined to be (`FoldExists`, `RunIsPass`), so that
a fold becomes a sequence of states, one per token, that can be followed step by step:
`IsLexing` for `Lexed`, `IsCancelling` for `Blanked`, `IsPass` for `Run`. Definitions were
put in a form for which this works (`FilesFirst`, `StringsOf`, `Blanked`); each was
compared with the one before on all small inputs. `LeastNat`, `SetInduction`,
`MaxOfPositions` and `IterExists` stand in both modules of proofs, since neither can
extend the other.

**Command line.** `IInv == TypeOK /\ TargetsInv /\ ReportsInv /\ AccountInv /\ ResultsInv
/\ StrictInv /\ RaisesInv`.

* `Accounted(t)` says of a target where it is on its way: not looked at yet, missing,
  rejected, in the queue, or with the right verdict on each file below it but those
  still to be linted. `AccountInv` says it of all targets; `TargetsAccounted` and one half
  of `StatusIsHonest` are what is left of it at the end.
* `ResultsInv`: whatever was found was found in a file of a given target and is the
  verdict on it; the other half. A target whose file is linted twice, for itself and
  below a directory, gets one verdict (`OneVerdict`).
* That the shared linter objects leave no trace (`VerdictsAreLocal`) is `RunFinds`: what
  `Run` adds to the errors does not depend on what the linter went through before,
  `reset` included, for a text of any length.
* `StrictInv` says that whatever a strict run has got past was linted to its end, and
  `RaisesInv` lists the four causes of an exception, three of which an ordinary run
  cannot have: together they give `StrictRunsGiveUp`. Both rest on `RunFinds`, by which a
  run of the linter stops just when the text has an obstacle.
* `ReportsInv` needs the stale `resolved` path of `coq_lint.py:253`: a missing target may
  be rejected too, but only after one that exists was. `SomeIsResolved` is why.

The proof also showed that the `CASE` by which `RunSentence` was written had overlapping
arms once the linter had stopped, of which TLC took the first; it is now an `IF`.

**Sentence parser.** The four invariants are inductive together with `coq.string = FALSE`
between lines and `GatheredRight`, which says of a line that was stripped but not yet
added that it will leave the sentence open when `coqc` has it open, and else only
behind a dangling bullet. What takes the
work is one line:

* `StringsOfPlain`, `DelimitersOfPlain`: on a plain line the quotes pair up from left to
  right, and a delimiter is pruned if and only if an odd number of quotes stands before
  it; for the lexer this is what being in a string means (`LexPlace`).
* `SameDelimiters`: hence parser and lexer take the same tokens for delimiters, and
  `SameDepth`: they agree on the depth after each of them, although the parser forgets
  starts. This is `NestingIsKept`, for comments nested to any depth.
* `FlatSoFar`: without nesting at most one start is remembered. Outside of comments
  everything but the code is blanked, in a comment that began on the line the text before
  its start is settled, in an older one nothing is. At the end of the line this is
  `FlatLinesAreExact`; that it needs no word on earlier lines is why the damage of a nested
  comment stays on its own lines.
* `StrippedText`: `coq_rstrip` takes selectors only, so that the text of a line is the
  same before and after. `LeftOver`: if it leaves a selector behind the last text, that is
  a bullet with other code before it, which is what `Dangles` says. `StrippedFollows` puts
  the two together: the sentence is open after the line where `coqc` has it open, and else
  only behind such a bullet. From this `FlatFilesAreRead` follows; that no sentence ends
  too early is the half without exception.

**Termination.** What `Ends` and `Terminates` rest on is proved: `EveryStepCounts`, in
`FullBuildJob_proofs` and `GenPipeline_proofs`, gives a natural number that every step makes
smaller (the parts of the script left to this attempt and the next ones; the phases, the git
processes and the pushes left), and `NobodyWaitsForNothing` says that a generator that is
cloning has a process to wait for or can go on. Only the last link, from fairness to the
end, is left to TLC.

**Model-checked only.** Liveness (`Terminates`, `Ends`, the fairness part of
`Implements`), since fairness and `ENABLED` are out of the prover's reach; and that the
disagreements of section 3 are there, which takes a behaviour and no proof.

## 5. What is left out

* `read_config`'s checks of the shape of the TOML file, the syntax of the
  environment variables, and the text of the generated YAML. The image and opam
  settings that may make the generator panic are one flag, `settings`.
* The generator assumes that a repository named `bhv` is configured; so do we.
* Every job but the main one; the copies of artifacts and statistics in it.
* `skip_proof_job` and the dune-cache trimming job, which are straight lines.
* The regular expressions of the linter (a sentence *is* its class) and the
  curated policy lists; `validate_policy_shape`.
* The text of the files the hierarchy builder writes, and its display.
* The snippets of comments that the parser hands on and the linter searches for
  `[[NOLINT]]`; the wording and the colours of the linter's report.
* The file finder (a scan that prints), the flame graph script (one call on a finished
  log), the docker rules (their state is in the docker daemon and a registry) and the
  dune cache overlay (mount commands typed by root; the state is the kernel's): a
  model of them would be one of the tool they call.
* The shell filters, the demo, package metadata and `fm-ci`'s own
  pipeline: no state, or static data.

## 6. Plan

Done, in this order: the closure, the generator and the full-build job with their
proofs, the linter's machine and its policies, the hierarchy builder; then the
sentence parser and the command line, and the proofs for linter and builder; then the
proofs for the command line and the sentence parser, and the measures. Next:

1. A composition of `GenPipeline` and `FullBuildJob`: the commits that a report
   compares are the ones the trigger asks for; an abstract specification of a
   comparison that both together implement.
2. A composition of `SentenceParser` and `CoqLinter` at the hand-over of a comment
   that holds `[[NOLINT]]`.
3. What a nested comment costs on its own lines, as a theorem: which of the text the
   parser may lose there and which comment it may keep.
