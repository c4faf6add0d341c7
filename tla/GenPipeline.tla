---------------------------- MODULE GenPipeline ----------------------------
(***************************************************************************)
(* One run of the CI configuration generator (gen/gen.ml), from the        *)
(* trigger that a push or a merge request of some repository sends, to the *)
(* commits its jobs will build.  While the trigger waits and while the     *)
(* generator clones the repositories, people go on pushing: each clone     *)
(* sees the branches of its repository at a moment of its own.             *)
(*                                                                         *)
(* The trigger is what gen/info.ml reads from the environment.  Commits    *)
(* are opaque; their ancestry is fixed beforehand.  All the repositories   *)
(* share one pool of commits, which loses nothing since commits of two     *)
(* repositories are never compared.                                        *)
(***************************************************************************)
EXTENDS ConfigGraph, Naturals, FiniteSets

CONSTANTS
    Deps,         \* the deps field of each configured repository
    Vendored,     \* the repositories with the vendored flag
    MainBranch,   \* the branch field of each configured repository
    RepoSeq,      \* config.repos, in the order they are cloned and awaited
    FmCi,         \* the project of the generator itself (fm_ci_project_name)
    Project,      \* every project that may send a trigger
    Branch,       \* branch names
    Commit,       \* commits
    Anc,          \* Anc[c]: the ancestors of c, itself included
    Absent,       \* OCaml's None, for a commit
    NoMR,         \* the trigger has no merge request
    Remotes,      \* the branch heads the run may start from
    Triggers,     \* the triggers that may be received
    MaxPush       \* bound on the pushes seen during one run

\* The labels of an MR that choose commits.
Label == {"CI::same-branch", "FM-CI-Compare"}
Head0 == Commit \cup {Absent}
Refs == [Branch -> Head0]
MergeRequest == [source : Branch, target : Branch, labels : SUBSET Label]

ASSUME PipelineAssumption ==
    /\ Deps \in DepsOf
    /\ Vendored \subseteq Configured
    /\ MainBranch \in [Configured -> Branch]
    /\ RepoSeq \in Seq(Configured) /\ Range(RepoSeq) = Configured
    /\ Configured \subseteq Project /\ FmCi \in Project
    /\ Absent \notin Commit
    /\ Remotes \subseteq [Configured -> Refs]
    /\ Triggers \subseteq [project : Project, sha : Commit,
                          mr : MergeRequest \cup {NoMR}, settings : BOOLEAN]
    /\ MaxPush \in Nat

\* Ancestry is a partial order on commits.
ASSUME AncestryAssumption ==
    /\ Anc \in [Commit -> SUBSET Commit]
    /\ \A c \in Commit : c \in Anc[c]
    /\ \A c \in Commit : \A d \in Anc[c] :
          Anc[d] \subseteq Anc[c] /\ (c \in Anc[d] => c = d)

VARIABLES
    remote,   \* the head of each branch of each repository on the server
    pushes,   \* number of pushes so far
    trigger,  \* the environment: project, commit and MR of the trigger, and
              \* whether FULL_TIMING and the opam settings are consistent
    phase,    \* where the generator is
    status,   \* of the clone process of each repository
    clone,    \* the branch heads each clone found (refs/remotes/origin)
    hashes,   \* repos_with_hashes: target branch name and commits
    output    \* the commits written into gen-config.yml

vars == <<remote, pushes, trigger, phase, status, clone, hashes, output>>

Hashes == [branch : Branch, target : Head0, mr : Head0, base : Head0]
NoHashes(b) == [branch |-> b, target |-> Absent, mr |-> Absent, base |-> Absent]
Output == [main : [Configured -> Commit],
           ref  : [Configured -> Head0],
           full : SUBSET Configured]
NoOutput == [main |-> <<>>, ref |-> <<>>, full |-> {}]

TypeOK ==
    /\ remote \in [Configured -> Refs]
    /\ pushes \in 0..MaxPush
    /\ trigger \in Triggers
    /\ phase \in {"queued", "cloning", "cloned", "done", "panic"}
    /\ status \in [Configured -> {"idle", "running", "ok", "failed"}]
    /\ clone \in [Configured -> Refs]
    /\ hashes \in [Configured -> Hashes]
    /\ IF phase = "done" THEN output \in Output ELSE output = NoOutput

----------------------------------------------------------------------------
(* The git commands.                                                       *)

\* git rev-parse --verify refs/remotes/origin/<branch>, Absent if it fails.
RevParse(r, b) == clone[r][b]

\* The common ancestors that no other common ancestor descends from.
MergeBases(c, d) ==
    {m \in Anc[c] \cap Anc[d] :
        \A n \in Anc[c] \cap Anc[d] : m \in Anc[n] => n = m}

\* Histories are finite: two commits that have a common ancestor have a best.
ASSUME MergeBaseAssumption ==
    \A c, d \in Commit : Anc[c] \cap Anc[d] # {} => MergeBases(c, d) # {}

\* git merge-base: one of them; it fails when the histories are unrelated.
MergeBase(c, d) == CHOOSE m \in MergeBases(c, d) : TRUE

----------------------------------------------------------------------------
(* The trigger (Info.get_trigger, Info.get_mr).                            *)

IsMR == trigger.mr # NoMR
Has(label) == IsMR /\ label \in trigger.mr.labels
IsFmCi == trigger.project = FmCi

\* [target_branch]: the MR's target if it is not the configured main branch.
SpecialTarget ==
    IsMR /\ trigger.mr.target # MainBranch[trigger.project]

----------------------------------------------------------------------------
(* repo_hashes, a case per line of its match.                              *)

FallbackToMain(r) ==
    [NoHashes(MainBranch[r]) EXCEPT !.target = RevParse(r, MainBranch[r])]

\* Mutant of PushTrigger: the head of the main branch, as it was cloned.
PushTriggerAtHead(r) ==
    [NoHashes(MainBranch[r]) EXCEPT !.target = RevParse(r, MainBranch[r])]

\* No MR, the repository that triggered: the trigger's own commit.
PushTrigger(r) ==
    [NoHashes(MainBranch[r]) EXCEPT !.target = trigger.sha]

\* A repository that takes part in the MR with commit mr, against branch b.
\* An absent base stands for a vendored repository or for a git failure,
\* which HashesFail tells apart.
Compared(r, b, mr) ==
    LET target == RevParse(r, b)
        related == target # Absent /\ MergeBases(target, mr) # {}
    IN  [branch |-> b, target |-> target, mr |-> mr,
         base |-> IF r \in Vendored \/ ~ related THEN Absent
                  ELSE MergeBase(target, mr)]

\* The triggering repository of an MR: its target branch must exist.
MRTrigger(r) ==
    Compared(r, IF SpecialTarget THEN trigger.mr.target ELSE MainBranch[r],
             trigger.sha)

\* Mutant of SameBranch: a special target is expected everywhere.
SameBranchStrict(r) ==
    Compared(r, IF SpecialTarget THEN trigger.mr.target ELSE MainBranch[r],
             RevParse(r, trigger.mr.source))

\* Another repository, under CI::same-branch: only if it has the MR's
\* branch, against a branch named like a special target when it has one.
SameBranch(r) ==
    LET t == trigger.mr.target
        b == IF SpecialTarget /\ RevParse(r, t) # Absent THEN t
             ELSE MainBranch[r]
    IN  Compared(r, b, RevParse(r, trigger.mr.source))

\* Mutant of RepoHashes: CI::same-branch is assumed of every MR.
RepoHashesUnlabelled(r) ==
    CASE r = trigger.project /\ ~ IsMR -> PushTrigger(r)
      [] r = trigger.project /\ IsMR   -> MRTrigger(r)
      [] r # trigger.project /\ IsMR
           /\ RevParse(r, trigger.mr.source) # Absent -> SameBranch(r)
      [] OTHER -> FallbackToMain(r)

RepoHashes(r) ==
    CASE r = trigger.project /\ ~ IsMR -> PushTrigger(r)
      [] r = trigger.project /\ IsMR   -> MRTrigger(r)
      [] r # trigger.project /\ Has("CI::same-branch")
           /\ RevParse(r, trigger.mr.source) # Absent -> SameBranch(r)
      [] OTHER -> FallbackToMain(r)

\* Mutant of HashesFail: a branch that does not exist goes unnoticed.
HashesFailLate(r) ==
    LET h == RepoHashes(r)
    IN  h.target # Absent /\ h.mr # Absent /\ r \notin Vendored
        /\ h.base = Absent

\* A panic of branch_hash (the target branch is not there) or of merge_base
\* (git finds none).
HashesFail(r) ==
    LET h == RepoHashes(r)
    IN  \/ h.target = Absent
        \/ h.mr # Absent /\ r \notin Vendored /\ h.base = Absent

----------------------------------------------------------------------------
(* What is generated.                                                      *)

\* Mutant of RefBuild: the head of the target branch, not the merge base.
RefBuildAtHead(h) == h.target

\* main_build and ref_build.
MainBuild(h) == IF h.mr # Absent THEN h.mr ELSE h.target
RefBuild(h) == IF h.base # Absent THEN h.base ELSE h.target

\* Mutants of WithBranch: only the repository of the MR; also those whose
\* branch adds nothing to its target.
WithBranchOwn(hs) ==
    {r \in Configured : r = trigger.project /\ hs[r].mr # hs[r].target}
WithBranchAny(hs) == {r \in Configured : hs[r].mr # Absent}

\* repos_needing_full_build.
WithBranch(hs) ==
    {r \in Configured : hs[r].mr # Absent /\ hs[r].mr # hs[r].target}

FullBuilds(hs) ==
    IF IsFmCi THEN Configured
    ELSE DownstreamFrom(Deps, IF IsMR THEN WithBranch(hs)
                                      ELSE {trigger.project})

----------------------------------------------------------------------------
Init ==
    /\ remote \in Remotes
    /\ pushes = 0
    /\ trigger \in Triggers
    /\ phase = "queued"
    /\ status = [r \in Configured |-> "idle"]
    /\ clone = [r \in Configured |-> [b \in Branch |-> Absent]]
    /\ hashes = [r \in Configured |-> NoHashes(MainBranch[r])]
    /\ output = NoOutput

\* The rest of the world: a branch is pushed, force-pushed or deleted.
Push(r, b, c) ==
    /\ phase \in {"queued", "cloning", "cloned"}
    /\ pushes < MaxPush
    /\ remote[r][b] # c
    /\ remote' = [remote EXCEPT ![r][b] = c]
    /\ pushes' = pushes + 1
    /\ UNCHANGED <<trigger, phase, status, clone, hashes, output>>

\* Panic, at any point: exit 1 before anything is written.
Panic ==
    /\ phase' = "panic"
    /\ UNCHANGED <<remote, pushes, trigger, status, clone, hashes, output>>

\* The trigger comes from a project that is not in the configuration.
UnknownProject ==
    /\ phase = "queued"
    /\ trigger.project \notin Configured \cup {FmCi}
    /\ Panic

\* lightweight_clone of every repository: all git processes are spawned.
SpawnClones ==
    /\ phase = "queued"
    /\ trigger.project \in Configured \cup {FmCi}
    /\ phase' = "cloning"
    /\ status' = [r \in Configured |-> "running"]
    /\ UNCHANGED <<remote, pushes, trigger, clone, hashes, output>>

\* One of the git processes reads the branches of its repository.
CloneDone(r) ==
    /\ status[r] = "running"
    /\ status' = [status EXCEPT ![r] = "ok"]
    /\ clone' = [clone EXCEPT ![r] = remote[r]]
    /\ UNCHANGED <<remote, pushes, trigger, phase, hashes, output>>

\* It fails or is killed.
CloneFails(r) ==
    /\ status[r] = "running"
    /\ status' = [status EXCEPT ![r] = "failed"]
    /\ UNCHANGED <<remote, pushes, trigger, phase, clone, hashes, output>>

\* Mutant of CloneFailed: a failure only counts when all the others are done.
CloneFailedLate ==
    /\ phase = "cloning"
    /\ \E i \in DOMAIN RepoSeq :
          /\ status[RepoSeq[i]] = "failed"
          /\ \A j \in DOMAIN RepoSeq \ {i} : status[RepoSeq[j]] = "ok"
    /\ Panic

\* Thunk.run_all: the processes are awaited in the order of config.repos,
\* and the first failure met in that order is a panic, the others running.
CloneFailed ==
    /\ phase = "cloning"
    /\ \E i \in DOMAIN RepoSeq :
          /\ status[RepoSeq[i]] = "failed"
          /\ \A j \in 1..(i - 1) : status[RepoSeq[j]] = "ok"
    /\ Panic

AllCloned ==
    /\ phase = "cloning"
    /\ \A r \in Configured : status[r] = "ok"
    /\ phase' = "cloned"
    /\ UNCHANGED <<remote, pushes, trigger, status, clone, hashes, output>>

\* target_branch, repo_hashes, all_downstream_from and the checks of the
\* timing and opam settings all panic on data they cannot handle; only then
\* is there no output.
Unusable ==
    \/ IsMR /\ trigger.project \notin Configured
    \/ ~ trigger.settings
    \/ \E r \in Configured : HashesFail(r)
    \/ ~ IsFmCi /\ \E r \in Configured : Broken(Deps, r)

BadData ==
    /\ phase = "cloned"
    /\ Unusable
    /\ Panic

\* The commits are chosen from the clones alone, and written.
Generate ==
    /\ phase = "cloned"
    /\ ~ Unusable
    /\ phase' = "done"
    /\ hashes' = [r \in Configured |-> RepoHashes(r)]
    /\ output' =
         [main |-> [r \in Configured |-> MainBuild(hashes'[r])],
          ref  |-> [r \in Configured |->
                       IF Has("FM-CI-Compare") THEN RefBuild(hashes'[r])
                       ELSE Absent],
          full |-> FullBuilds(hashes')]
    /\ UNCHANGED <<remote, pushes, trigger, status, clone>>

Generator ==
    \/ UnknownProject \/ SpawnClones \/ CloneFailed \/ AllCloned
    \/ BadData \/ Generate

Next ==
    \/ Generator
    \/ \E r \in Configured : CloneDone(r) \/ CloneFails(r)
    \/ \E r \in Configured, b \in Branch, c \in Head0 : Push(r, b, c)

\* The generator runs, and every git process comes to an end.
Fairness ==
    /\ WF_vars(Generator)
    /\ \A r \in Configured : WF_vars(CloneDone(r) \/ CloneFails(r))

Spec == Init /\ [][Next]_vars /\ Fairness

----------------------------------------------------------------------------
(* What could go wrong.                                                    *)

Done == phase = "done"

\* The triggering repository is built at the commit of the trigger
\* (Info.trigger, info.mli), whatever was pushed to its branches since.
TriggerPinned ==
    Done /\ trigger.project \in Configured =>
        output.main[trigger.project] = trigger.sha

\* A comparison is with the past: except in a vendored repository, the
\* reference commit is an ancestor of the commit of the main build, even when
\* the target branch moved on, or was force-pushed, before it was cloned.
RefIsAncestor ==
    Done /\ Has("FM-CI-Compare") =>
        \A r \in Configured \ Vendored :
            output.ref[r] \in Anc[output.main[r]]

\* The two builds of a comparison differ only by what the MR brings in: the
\* triggering repository, and under CI::same-branch those with its branch.
\* Every other repository is at one commit in both.
OnlyTheMRDiffers ==
    Done /\ Has("FM-CI-Compare") =>
        \A r \in Configured :
            \/ output.ref[r] = output.main[r]
            \/ r = trigger.project
            \/ /\ Has("CI::same-branch")
               /\ clone[r][trigger.mr.source] = output.main[r]

\* repos_needing_full_build, which is printed and decides no job: neither a
\* repository that is not on the list nor anything it depends on is at another
\* commit than the head of the branch the change is made for.
FullBuildSound ==
    Done /\ IsMR =>
        \A r \in Configured \ output.full :
            \A d \in Reach(Deps, r) :
                output.main[d] = clone[d][hashes[d].branch]

\* A repository on that list depends on one that changed.
FullBuildNeeded ==
    Done /\ ~ IsFmCi =>
        \A r \in output.full :
            \E d \in Reach(Deps, r) :
                \/ d = trigger.project
                \/ output.main[d] # clone[d][hashes[d].branch]

\* The generator gives up only for a reason found in its input: a project it
\* does not know, settings that contradict each other, a git process that
\* failed, a main branch or the target branch of the MR that does not exist,
\* unrelated histories, or a broken configuration.  In particular it is no
\* reason that a repository lacks the MR's branch or its target branch.
PanicHasReason ==
    phase = "panic" =>
        \/ trigger.project \notin Configured
        \/ ~ trigger.settings
        \/ \E r \in Configured : status[r] = "failed"
        \/ \E r \in Configured : clone[r][MainBranch[r]] = Absent
        \/ IsMR /\ clone[trigger.project][trigger.mr.target] = Absent
        \/ \E r \in Configured \ Vendored, b \in Branch :
              /\ clone[r][b] # Absent
              /\ \E h \in {trigger.sha, clone[r][trigger.mr.source]} \ {Absent} :
                    Anc[h] \cap Anc[clone[r][b]] = {}
        \/ \E r \in Configured : Broken(Deps, r)

\* The generator ends, with an output or with a panic, however its clones
\* turn out.
Terminates == <>(phase \in {"done", "panic"})
============================================================================
