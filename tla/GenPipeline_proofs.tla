------------------------- MODULE GenPipeline_proofs -------------------------
(***************************************************************************)
(* Proofs about GenPipeline.tla, for any repositories, any histories and   *)
(* any number of pushes and branches.                                      *)
(***************************************************************************)
EXTENDS GenPipeline, FiniteSetTheorems, WellFoundedInduction, TLAPS

----------------------------------------------------------------------------
(* The commits repo_hashes finds.                                          *)

\* git merge-base, if it succeeds, gives a common ancestor.
LEMMA MergeBaseIsCommon ==
    ASSUME NEW c \in Commit, NEW d \in Commit, MergeBases(c, d) # {}
    PROVE  MergeBase(c, d) \in Anc[c] \cap Anc[d]
<1>1. MergeBase(c, d) \in MergeBases(c, d)
    BY DEF MergeBase
<1> QED  BY <1>1 DEF MergeBases

\* What is true of the entry of repo_hashes for repository r, whichever line
\* of the match it comes from.
HashesFor(r, h) ==
    /\ h \in Hashes
    \* the commit of the triggering repository is the trigger's
    /\ r = trigger.project =>
          IF IsMR THEN h.mr = trigger.sha
                  ELSE h.target = trigger.sha /\ h.mr = Absent
    \* another one has an MR commit only if it has the MR's branch
    /\ r # trigger.project /\ h.mr # Absent =>
          Has("CI::same-branch") /\ h.mr = clone[r][trigger.mr.source]
    \* under an MR, targets are heads of branches
    /\ IsMR => h.target = clone[r][h.branch]
    \* a base is an ancestor of the commit it is the base of
    /\ h.base # Absent => h.mr # Absent /\ h.base \in Anc[h.mr]

\* A commit of the MR and the branch it is compared with.
LEMMA ComparedIsFor ==
    ASSUME TypeOK, NEW r \in Configured, NEW b \in Branch, NEW c \in Commit
    PROVE  LET h == Compared(r, b, c)
           IN  /\ h \in Hashes
               /\ h.branch = b /\ h.target = clone[r][b] /\ h.mr = c
               /\ h.base # Absent => h.base \in Anc[c]
<1> DEFINE t == clone[r][b]
           related == t # Absent /\ MergeBases(t, c) # {}
           base == IF r \in Vendored \/ ~ related THEN Absent
                   ELSE MergeBase(t, c)
<1>1. t \in Head0
    BY DEF TypeOK, Refs
<1>2. related => MergeBase(t, c) \in Anc[t] \cap Anc[c]
    BY <1>1, MergeBaseIsCommon DEF Head0
<1>3. Anc[c] \subseteq Commit
    BY AncestryAssumption
<1>4. base \in Head0 /\ (base # Absent => base \in Anc[c])
    BY <1>2, <1>3 DEF Head0
<1>5. Compared(r, b, c) =
          [branch |-> b, target |-> t, mr |-> c, base |-> base]
    BY DEF Compared, RevParse
<1> HIDE DEF t, base
<1>6. [branch |-> b, target |-> t, mr |-> c, base |-> base] \in Hashes
    BY <1>1, <1>4 DEF Hashes, Head0
<1> QED  BY <1>4, <1>5, <1>6 DEF t

\* A repository that takes no part: its main branch.
LEMMA FallbackIsFor ==
    ASSUME TypeOK, NEW r \in Configured
    PROVE  LET h == FallbackToMain(r)
           IN  /\ h \in Hashes
               /\ h.branch = MainBranch[r] /\ h.target = clone[r][h.branch]
               /\ h.mr = Absent /\ h.base = Absent
<1>1. MainBranch[r] \in Branch /\ clone[r][MainBranch[r]] \in Head0
    BY PipelineAssumption DEF TypeOK, Refs
<1> QED  BY <1>1 DEF FallbackToMain, NoHashes, RevParse, Hashes, Head0

\* Every line of the match of repo_hashes.
LEMMA RepoHashesIsFor ==
    ASSUME TypeOK, IsMR => trigger.project \in Configured,
           NEW r \in Configured
    PROVE  HashesFor(r, RepoHashes(r))
<1> USE DEF HashesFor
<1>t. /\ trigger.sha \in Commit /\ Absent \notin Commit
      /\ IsMR => /\ trigger.mr.source \in Branch
                 /\ trigger.mr.target \in Branch
    BY PipelineAssumption DEF TypeOK, IsMR, MergeRequest
<1>m. MainBranch[r] \in Branch
    BY PipelineAssumption
<1>1. CASE r = trigger.project /\ ~ IsMR
    <2>1. RepoHashes(r) = PushTrigger(r)
        BY <1>1 DEF RepoHashes
    <2>2. PushTrigger(r) = [branch |-> MainBranch[r], target |-> trigger.sha,
                            mr |-> Absent, base |-> Absent]
        BY DEF PushTrigger, NoHashes
    <2>3. PushTrigger(r) \in Hashes
        BY <1>t, <1>m, <2>2 DEF Hashes, Head0
    <2> QED  BY <1>1, <2>1, <2>2, <2>3
<1>2. CASE r = trigger.project /\ IsMR
    <2> DEFINE b == IF SpecialTarget THEN trigger.mr.target
                    ELSE MainBranch[r]
    <2>1. b \in Branch
        BY <1>t, <1>m, <1>2
    <2>2. RepoHashes(r) = Compared(r, b, trigger.sha)
        BY <1>2 DEF RepoHashes, MRTrigger
    <2> HIDE DEF b
    <2> QED  BY <1>t, <1>2, <2>1, <2>2, ComparedIsFor
<1>3. CASE /\ r # trigger.project /\ Has("CI::same-branch")
           /\ RevParse(r, trigger.mr.source) # Absent
    <2> DEFINE t == trigger.mr.target
               c == RevParse(r, trigger.mr.source)
               b == IF SpecialTarget /\ RevParse(r, t) # Absent THEN t
                    ELSE MainBranch[r]
    <2>1. IsMR
        BY <1>3 DEF Has
    <2>2. b \in Branch
        BY <1>t, <1>m, <2>1
    <2>3. c \in Commit /\ c = clone[r][trigger.mr.source]
        BY <1>t, <1>3, <2>1 DEF RevParse, TypeOK, Refs, Head0
    <2>4. RepoHashes(r) = Compared(r, b, c)
        BY <1>3 DEF RepoHashes, SameBranch
    <2> HIDE DEF b, c
    <2> QED  BY <1>t, <1>3, <2>2, <2>3, <2>4, ComparedIsFor
<1>4. CASE /\ r # trigger.project
           /\ ~ (/\ Has("CI::same-branch")
                 /\ RevParse(r, trigger.mr.source) # Absent)
    <2>1. RepoHashes(r) = FallbackToMain(r)
        BY <1>4 DEF RepoHashes
    <2> QED  BY <1>4, <2>1, FallbackIsFor
<1> QED  BY <1>1, <1>2, <1>3, <1>4

----------------------------------------------------------------------------
(* Type correctness.                                                       *)

\* The commits of both builds exist once no branch_hash or merge_base has
\* panicked.
LEMMA BuildsAreCommits ==
    ASSUME TypeOK, ~ Unusable, NEW r \in Configured
    PROVE  /\ MainBuild(RepoHashes(r)) \in Commit
           /\ RefBuild(RepoHashes(r)) \in Commit
<1>1. /\ RepoHashes(r) \in Hashes
      /\ RepoHashes(r).target # Absent
    BY RepoHashesIsFor DEF Unusable, HashesFor, HashesFail
<1> QED  BY <1>1, PipelineAssumption
         DEF MainBuild, RefBuild, Hashes, Head0

\* The state variables keep to their types; in particular an output names an
\* existing commit for every repository.
THEOREM TypeCorrect == Spec => []TypeOK
<1>1. Init => TypeOK
    <2> SUFFICES ASSUME Init
                 PROVE  TypeOK
        OBVIOUS
    <2>1. /\ remote \in [Configured -> Refs] /\ trigger \in Triggers
          /\ pushes \in 0..MaxPush
        BY PipelineAssumption DEF Init
    <2>2. clone \in [Configured -> Refs]
        BY DEF Init, Refs, Head0
    <2>3. hashes \in [Configured -> Hashes]
        BY PipelineAssumption DEF Init, NoHashes, Hashes, Head0
    <2> QED  BY <2>1, <2>2, <2>3 DEF Init, TypeOK
<1>2. TypeOK /\ [Next]_vars => TypeOK'
    <2> SUFFICES ASSUME TypeOK, [Next]_vars
                 PROVE  TypeOK'
        OBVIOUS
    <2>1. CASE UnknownProject
        BY <2>1 DEF UnknownProject, Panic, TypeOK
    <2>2. CASE SpawnClones
        BY <2>2 DEF SpawnClones, TypeOK
    <2>3. CASE CloneFailed
        BY <2>3 DEF CloneFailed, Panic, TypeOK
    <2>4. CASE AllCloned
        BY <2>4 DEF AllCloned, TypeOK
    <2>5. CASE BadData
        BY <2>5 DEF BadData, Panic, TypeOK
    <2>6. CASE Generate
        <3>1. hashes' = [r \in Configured |-> RepoHashes(r)]
            BY <2>6 DEF Generate
        <3>2. ~ Unusable
            BY <2>6 DEF Generate
        <3>3. hashes' \in [Configured -> Hashes]
            BY <3>1, <3>2, RepoHashesIsFor DEF Unusable, HashesFor
        <3>4. [r \in Configured |-> MainBuild(hashes'[r])]
                  \in [Configured -> Commit]
            BY <3>1, <3>2, BuildsAreCommits
        <3>5. [r \in Configured |-> IF Has("FM-CI-Compare")
                                    THEN RefBuild(hashes'[r]) ELSE Absent]
                  \in [Configured -> Head0]
            BY <3>1, <3>2, BuildsAreCommits DEF Head0
        <3>6. FullBuilds(hashes') \in SUBSET Configured
            BY DEF FullBuilds, DownstreamFrom
        <3>7. output' \in Output
            BY <2>6, <3>4, <3>5, <3>6 DEF Generate, Output
        <3> QED  BY <2>6, <3>3, <3>7 DEF Generate, TypeOK
    <2>7. ASSUME NEW r \in Configured, CloneDone(r)
          PROVE  TypeOK'
        BY <2>7 DEF CloneDone, TypeOK
    <2>8. ASSUME NEW r \in Configured, CloneFails(r)
          PROVE  TypeOK'
        BY <2>8 DEF CloneFails, TypeOK
    <2>9. ASSUME NEW r \in Configured, NEW b \in Branch, NEW c \in Head0,
                 Push(r, b, c)
          PROVE  TypeOK'
        <3>1. [remote EXCEPT ![r][b] = c] \in [Configured -> Refs]
            BY DEF TypeOK, Refs
        <3>2. pushes + 1 \in 0..MaxPush
            BY <2>9, PipelineAssumption DEF Push, TypeOK
        <3> QED  BY <2>9, <3>1, <3>2 DEF Push, TypeOK
    <2>10. CASE UNCHANGED vars
        BY <2>10 DEF vars, TypeOK
    <2> QED  BY <2>1, <2>2, <2>3, <2>4, <2>5, <2>6, <2>7, <2>8, <2>9, <2>10
             DEF Next, Generator
<1> QED  BY <1>1, <1>2, PTL DEF Spec

----------------------------------------------------------------------------
(* The inductive invariant.                                                *)

\* Once the commits are chosen the clones do not change any more, and the
\* output is still what repo_hashes finds in them.
Chosen ==
    /\ phase \in {"cloned", "done"} =>
          \A r \in Configured : status[r] = "ok"
    /\ Done =>
          /\ ~ Unusable
          /\ \A r \in Configured :
                /\ hashes[r] = RepoHashes(r)
                /\ output.main[r] = MainBuild(hashes[r])
                /\ Has("FM-CI-Compare") =>
                      output.ref[r] = RefBuild(hashes[r])
          /\ output.full = FullBuilds(hashes)

IInv == TypeOK /\ Chosen

\* The choice depends on the trigger and the clones only.
LEMMA SameInput ==
    ASSUME trigger' = trigger, clone' = clone
    PROVE  /\ \A r \in Configured : RepoHashes(r)' = RepoHashes(r)
           /\ Unusable' <=> Unusable
           /\ \A label \in Label : Has(label)' <=> Has(label)
<1>1. \A r \in Configured : RepoHashes(r)' = RepoHashes(r)
    BY DEF RepoHashes, PushTrigger, MRTrigger, SameBranch, Compared,
           FallbackToMain, NoHashes, RevParse, SpecialTarget, IsMR, Has
<1>2. Unusable' <=> Unusable
    BY <1>1 DEF Unusable, HashesFail, IsMR, IsFmCi
<1> QED  BY <1>1, <1>2 DEF Has, IsMR

\* A generated output goes with the clones it was generated from.
THEOREM Invariance == Spec => []IInv
<1>1. Init => Chosen
    BY DEF Init, Chosen, Done
<1>2. TypeOK /\ Chosen /\ [Next]_vars => Chosen'
    <2> SUFFICES ASSUME TypeOK, Chosen, [Next]_vars
                 PROVE  Chosen'
        OBVIOUS
    <2>1. CASE UnknownProject
        BY <2>1 DEF UnknownProject, Panic, Chosen, Done
    <2>2. CASE SpawnClones
        BY <2>2 DEF SpawnClones, Chosen, Done
    <2>3. CASE CloneFailed
        BY <2>3 DEF CloneFailed, Panic, Chosen, Done
    <2>4. CASE AllCloned
        BY <2>4 DEF AllCloned, Chosen, Done
    <2>5. CASE BadData
        BY <2>5 DEF BadData, Panic, Chosen, Done
    <2>6. CASE Generate
        <3>1. trigger' = trigger /\ clone' = clone /\ status' = status
            BY <2>6 DEF Generate
        <3>2. /\ \A r \in Configured : RepoHashes(r)' = RepoHashes(r)
              /\ Has("FM-CI-Compare")' <=> Has("FM-CI-Compare")
              /\ ~ Unusable'
            BY <2>6, <3>1, SameInput DEF Generate, Label
        <3>3. \A r \in Configured :
                /\ hashes'[r] = RepoHashes(r)'
                /\ output'.main[r] = MainBuild(hashes'[r])
                /\ Has("FM-CI-Compare") =>
                      output'.ref[r] = RefBuild(hashes'[r])
            BY <2>6, <3>2 DEF Generate
        <3>4. output'.full = FullBuilds(hashes)'
            BY <2>6, <3>1
            DEF Generate, FullBuilds, IsFmCi, IsMR, WithBranch
        <3>5. \A r \in Configured : status'[r] = "ok"
            BY <2>6, <3>1 DEF Generate, Chosen
        <3> QED  BY <3>2, <3>3, <3>4, <3>5 DEF Chosen
    <2>7. ASSUME NEW r \in Configured, CloneDone(r)
          PROVE  Chosen'
        BY <2>7 DEF CloneDone, Chosen, Done
    <2>8. ASSUME NEW r \in Configured, CloneFails(r)
          PROVE  Chosen'
        BY <2>8 DEF CloneFails, Chosen, Done
    <2>9. ASSUME NEW r \in Configured, NEW b \in Branch, NEW c \in Head0,
                 Push(r, b, c)
          PROVE  Chosen'
        BY <2>9 DEF Push, Chosen, Done
    <2>10. CASE UNCHANGED vars
        <3>1. /\ trigger' = trigger /\ clone' = clone /\ status' = status
              /\ phase' = phase /\ hashes' = hashes /\ output' = output
            BY <2>10 DEF vars
        <3>2. /\ \A r \in Configured : RepoHashes(r)' = RepoHashes(r)
              /\ Has("FM-CI-Compare")' <=> Has("FM-CI-Compare")
              /\ Unusable' <=> Unusable
            BY <3>1, SameInput DEF Label
        <3>3. FullBuilds(hashes)' = FullBuilds(hashes)
            BY <3>1 DEF FullBuilds, IsFmCi, IsMR, WithBranch
        <3> QED  BY <3>1, <3>2, <3>3 DEF Chosen, Done
    <2> QED  BY <2>1, <2>2, <2>3, <2>4, <2>5, <2>6, <2>7, <2>8, <2>9, <2>10
             DEF Next, Generator
<1> QED  BY <1>1, <1>2, TypeCorrect, PTL DEF Spec, IInv

----------------------------------------------------------------------------
(* The choice of commits.                                                  *)

\* What IInv says of the entry of one repository in a generated output.
LEMMA EntryOf ==
    ASSUME IInv, Done, NEW r \in Configured
    PROVE  LET h == hashes[r]
           IN  /\ HashesFor(r, h)
               /\ h.target # Absent
               /\ h.mr # Absent /\ r \notin Vendored => h.base # Absent
               /\ output.main[r] = MainBuild(h)
               /\ Has("FM-CI-Compare") => output.ref[r] = RefBuild(h)
<1>1. TypeOK /\ Chosen
    BY DEF IInv
<1>2. ~ Unusable /\ hashes[r] = RepoHashes(r)
    BY <1>1 DEF Chosen
<1>3. HashesFor(r, RepoHashes(r)) /\ ~ HashesFail(r)
    BY <1>1, <1>2, RepoHashesIsFor DEF Unusable
<1> QED  BY <1>1, <1>2, <1>3 DEF Chosen, HashesFail

\* The triggering repository is built at the trigger's commit, whatever is
\* pushed before it is cloned.
THEOREM TriggerIsPinned == Spec => []TriggerPinned
<1>1. IInv => TriggerPinned
    BY EntryOf, PipelineAssumption
    DEF TriggerPinned, HashesFor, MainBuild, IInv, TypeOK
<1> QED  BY <1>1, Invariance, PTL

\* A comparison is with an ancestor, whatever the target branch has become.
THEOREM ReferenceIsAncestor == Spec => []RefIsAncestor
<1>1. IInv => RefIsAncestor
    <2> SUFFICES ASSUME IInv, Done, Has("FM-CI-Compare"),
                        NEW r \in Configured \ Vendored
                 PROVE  output.ref[r] \in Anc[output.main[r]]
        BY DEF RefIsAncestor
    <2> DEFINE h == hashes[r]
    <2>1. /\ h \in Hashes /\ h.target # Absent
          /\ h.mr # Absent => h.base # Absent
          /\ h.base # Absent => h.mr # Absent /\ h.base \in Anc[h.mr]
          /\ output.main[r] = MainBuild(h) /\ output.ref[r] = RefBuild(h)
        BY EntryOf DEF HashesFor
    <2>2. CASE h.mr = Absent
        <3>1. output.ref[r] = h.target /\ output.main[r] = h.target
            BY <2>1, <2>2 DEF MainBuild, RefBuild
        <3>2. h.target \in Commit
            BY <2>1 DEF Hashes, Head0
        <3> QED  BY <3>1, <3>2, AncestryAssumption
    <2>3. CASE h.mr # Absent
        BY <2>1, <2>3 DEF MainBuild, RefBuild
    <2> QED  BY <2>2, <2>3
<1> QED  BY <1>1, Invariance, PTL

\* Two builds of a comparison differ in the repositories of the MR only.
THEOREM OnlyMRDiffers == Spec => []OnlyTheMRDiffers
<1>1. IInv => OnlyTheMRDiffers
    <2> SUFFICES ASSUME IInv, Done, Has("FM-CI-Compare"),
                        NEW r \in Configured, r # trigger.project,
                        output.ref[r] # output.main[r]
                 PROVE  /\ Has("CI::same-branch")
                        /\ clone[r][trigger.mr.source] = output.main[r]
        BY DEF OnlyTheMRDiffers
    <2> DEFINE h == hashes[r]
    <2>1. /\ h.mr # Absent => /\ Has("CI::same-branch")
                              /\ h.mr = clone[r][trigger.mr.source]
          /\ h.base # Absent => h.mr # Absent
          /\ output.main[r] = MainBuild(h) /\ output.ref[r] = RefBuild(h)
        BY EntryOf DEF HashesFor
    <2>2. h.mr # Absent
        BY <2>1 DEF MainBuild, RefBuild
    <2> QED  BY <2>1, <2>2 DEF MainBuild
<1> QED  BY <1>1, Invariance, PTL

\* A repository that is not on the printed list of full builds depends on no
\* changed one.
THEOREM FullBuildIsSound == Spec => []FullBuildSound
<1>1. IInv => FullBuildSound
    <2> SUFFICES ASSUME IInv, Done, IsMR,
                        NEW r \in Configured \ output.full,
                        NEW d \in Reach(Deps, r)
                 PROVE  output.main[d] = clone[d][hashes[d].branch]
        BY DEF FullBuildSound
    <2>1. ~ Unusable /\ output.full = FullBuilds(hashes)
        BY DEF IInv, Chosen
    <2>2. ~ IsFmCi /\ r \notin DownstreamFrom(Deps, WithBranch(hashes))
        BY <2>1 DEF FullBuilds
    <2>3. d \in Configured
        BY <2>1, <2>2 DEF Unusable, Broken
    <2>4. d \notin WithBranch(hashes)
        BY <2>2 DEF DownstreamFrom
    <2>5. /\ hashes[d].target = clone[d][hashes[d].branch]
          /\ output.main[d] = MainBuild(hashes[d])
        BY <2>3, EntryOf DEF HashesFor
    <2> QED  BY <2>3, <2>4, <2>5 DEF WithBranch, MainBuild
<1> QED  BY <1>1, Invariance, PTL

\* A repository on the printed list of full builds depends on a changed one.
THEOREM FullBuildIsNeeded == Spec => []FullBuildNeeded
<1>1. IInv => FullBuildNeeded
    <2> SUFFICES ASSUME IInv, Done, ~ IsFmCi, NEW r \in output.full
                 PROVE  \E d \in Reach(Deps, r) :
                          \/ d = trigger.project
                          \/ output.main[d] # clone[d][hashes[d].branch]
        BY DEF FullBuildNeeded
    <2>1. output.full = FullBuilds(hashes)
        BY DEF IInv, Chosen
    <2>2. CASE ~ IsMR
        BY <2>1, <2>2 DEF FullBuilds, DownstreamFrom
    <2>3. CASE IsMR
        <3>1. PICK d \in Reach(Deps, r) : d \in WithBranch(hashes)
            BY <2>1, <2>3 DEF FullBuilds, DownstreamFrom
        <3>2. /\ d \in Configured /\ hashes[d].mr # Absent
              /\ hashes[d].mr # hashes[d].target
            BY <3>1 DEF WithBranch
        <3>3. /\ hashes[d].target = clone[d][hashes[d].branch]
              /\ output.main[d] = MainBuild(hashes[d])
            BY <2>3, <3>2, EntryOf DEF HashesFor
        <3>4. output.main[d] # clone[d][hashes[d].branch]
            BY <3>2, <3>3 DEF MainBuild
        <3> QED  BY <3>1, <3>4
    <2> QED  BY <2>2, <2>3
<1> QED  BY <1>1, Invariance, PTL

----------------------------------------------------------------------------
(* The reasons for giving up.                                              *)

\* What merge_base panics about.
Unrelated(r) ==
    \E b \in Branch :
        /\ clone[r][b] # Absent
        /\ \E h \in {trigger.sha, clone[r][trigger.mr.source]} \ {Absent} :
              Anc[h] \cap Anc[clone[r][b]] = {}

\* A comparison fails only for a missing branch or an unrelated one.
LEMMA ComparedFails ==
    ASSUME TypeOK, NEW r \in Configured, NEW b \in Branch, NEW c \in Commit,
           LET h == Compared(r, b, c)
           IN  h.target = Absent \/ (r \notin Vendored /\ h.base = Absent)
    PROVE  \/ clone[r][b] = Absent
           \/ r \notin Vendored /\ Anc[c] \cap Anc[clone[r][b]] = {}
<1> SUFFICES ASSUME clone[r][b] # Absent
             PROVE  r \notin Vendored /\ Anc[c] \cap Anc[clone[r][b]] = {}
    OBVIOUS
<1>1. clone[r][b] \in Commit
    BY DEF TypeOK, Refs, Head0
<1>2. r \notin Vendored /\ Compared(r, b, c).base = Absent
    BY ComparedIsFor
<1>3. MergeBases(clone[r][b], c) = {}
    <2>1. SUFFICES ASSUME MergeBases(clone[r][b], c) # {}
                   PROVE  FALSE
        OBVIOUS
    <2>2. MergeBase(clone[r][b], c) \in Commit
        BY <1>1, <2>1, MergeBaseIsCommon, AncestryAssumption
    <2>3. Compared(r, b, c).base = MergeBase(clone[r][b], c)
        BY <1>2, <2>1 DEF Compared, RevParse
    <2> QED  BY <1>2, <2>2, <2>3, PipelineAssumption
<1> QED  BY <1>1, <1>2, <1>3, MergeBaseAssumption

\* A repository without the MR's branch or its target never makes
\* repo_hashes fail.
LEMMA HashesFailFor ==
    ASSUME TypeOK, NEW r \in Configured, HashesFail(r)
    PROVE  \/ IsMR /\ trigger.project \notin Configured
           \/ clone[r][MainBranch[r]] = Absent
           \/ IsMR /\ clone[trigger.project][trigger.mr.target] = Absent
           \/ r \notin Vendored /\ Unrelated(r)
<1> SUFFICES ASSUME IsMR => trigger.project \in Configured
             PROVE  \/ clone[r][MainBranch[r]] = Absent
                    \/ IsMR /\ clone[trigger.project][trigger.mr.target] = Absent
                    \/ r \notin Vendored /\ Unrelated(r)
    OBVIOUS
<1>t. /\ trigger.sha \in Commit /\ Absent \notin Commit
      /\ IsMR => /\ trigger.mr.source \in Branch
                 /\ trigger.mr.target \in Branch
    BY PipelineAssumption DEF TypeOK, IsMR, MergeRequest
<1>m. MainBranch[r] \in Branch
    BY PipelineAssumption
<1>1. CASE r = trigger.project /\ ~ IsMR
    <2>1. RepoHashes(r) = PushTrigger(r)
        BY <1>1 DEF RepoHashes
    <2>2. PushTrigger(r) = [branch |-> MainBranch[r], target |-> trigger.sha,
                            mr |-> Absent, base |-> Absent]
        BY DEF PushTrigger, NoHashes
    <2> QED  BY <1>t, <2>1, <2>2 DEF HashesFail
<1>2. CASE r = trigger.project /\ IsMR
    <2> DEFINE b == IF SpecialTarget THEN trigger.mr.target
                    ELSE MainBranch[r]
    <2>1. b \in Branch /\ (b = trigger.mr.target \/ b = MainBranch[r])
        BY <1>t, <1>m, <1>2
    <2>2. RepoHashes(r) = Compared(r, b, trigger.sha)
        BY <1>2 DEF RepoHashes, MRTrigger
    <2> HIDE DEF b
    <2>3. \/ clone[r][b] = Absent
          \/ r \notin Vendored /\ Anc[trigger.sha] \cap Anc[clone[r][b]] = {}
        BY <1>t, <2>1, <2>2, ComparedFails DEF HashesFail
    <2> QED  BY <1>t, <1>2, <2>1, <2>3 DEF Unrelated
<1>3. CASE /\ r # trigger.project /\ Has("CI::same-branch")
           /\ RevParse(r, trigger.mr.source) # Absent
    <2> DEFINE t == trigger.mr.target
               c == RevParse(r, trigger.mr.source)
               b == IF SpecialTarget /\ RevParse(r, t) # Absent THEN t
                    ELSE MainBranch[r]
    <2>1. IsMR
        BY <1>3 DEF Has
    <2>2. b \in Branch /\ (clone[r][b] = Absent => b = MainBranch[r])
        BY <1>t, <1>m, <2>1 DEF RevParse
    <2>3. c \in Commit /\ c = clone[r][trigger.mr.source]
        BY <1>t, <1>3, <2>1 DEF RevParse, TypeOK, Refs, Head0
    <2>4. RepoHashes(r) = Compared(r, b, c)
        BY <1>3 DEF RepoHashes, SameBranch
    <2> HIDE DEF b, c
    <2>5. \/ clone[r][b] = Absent
          \/ r \notin Vendored /\ Anc[c] \cap Anc[clone[r][b]] = {}
        BY <2>2, <2>3, <2>4, ComparedFails DEF HashesFail
    <2> QED  BY <1>t, <2>2, <2>3, <2>5 DEF Unrelated
<1>4. CASE /\ r # trigger.project
           /\ ~ (/\ Has("CI::same-branch")
                 /\ RevParse(r, trigger.mr.source) # Absent)
    <2>1. RepoHashes(r) = FallbackToMain(r)
        BY <1>4 DEF RepoHashes
    <2> QED  BY <2>1, FallbackIsFor DEF HashesFail
<1> QED  BY <1>1, <1>2, <1>3, <1>4

\* What the generator knew when it panicked; clones that were still running
\* may come to an end after it.
PanicKnows ==
    phase = "panic" =>
        \/ trigger.project \notin Configured
        \/ \E r \in Configured : status[r] = "failed"
        \/ Unusable /\ \A r \in Configured : status[r] = "ok"

\* The reason of a panic is still there ever after.
LEMMA PanicStep ==
    ASSUME IInv, PanicKnows, [Next]_vars
    PROVE  PanicKnows'
<1>t. TypeOK /\ Chosen
    BY DEF IInv
<1>1. CASE UnknownProject
    BY <1>1 DEF UnknownProject, Panic, PanicKnows
<1>2. CASE SpawnClones
    BY <1>2 DEF SpawnClones, PanicKnows
<1>3. CASE CloneFailed
    <2>1. PICK i \in DOMAIN RepoSeq : status[RepoSeq[i]] = "failed"
        BY <1>3 DEF CloneFailed
    <2>2. RepoSeq[i] \in Configured
        BY PipelineAssumption
    <2> QED  BY <1>3, <2>1, <2>2 DEF CloneFailed, Panic, PanicKnows
<1>4. CASE AllCloned
    BY <1>4 DEF AllCloned, PanicKnows
<1>5. CASE BadData
    <2>1. trigger' = trigger /\ clone' = clone /\ status' = status
        BY <1>5 DEF BadData, Panic
    <2>2. Unusable'
        BY <1>5, <2>1, SameInput DEF BadData
    <2> QED  BY <1>t, <1>5, <2>1, <2>2 DEF BadData, Chosen, PanicKnows
<1>6. CASE Generate
    BY <1>6 DEF Generate, PanicKnows
<1>7. ASSUME NEW r \in Configured, CloneDone(r)
      PROVE  PanicKnows'
    BY <1>t, <1>7 DEF CloneDone, PanicKnows, TypeOK
<1>8. ASSUME NEW r \in Configured, CloneFails(r)
      PROVE  PanicKnows'
    BY <1>t, <1>8 DEF CloneFails, PanicKnows, TypeOK
<1>9. ASSUME NEW r \in Configured, NEW b \in Branch, NEW c \in Head0,
             Push(r, b, c)
      PROVE  PanicKnows'
    BY <1>9 DEF Push, PanicKnows
<1>10. CASE UNCHANGED vars
    <2>1. /\ trigger' = trigger /\ clone' = clone /\ status' = status
          /\ phase' = phase
        BY <1>10 DEF vars
    <2>2. Unusable' <=> Unusable
        BY <2>1, SameInput
    <2> QED  BY <2>1, <2>2 DEF PanicKnows
<1> QED  BY <1>1, <1>2, <1>3, <1>4, <1>5, <1>6, <1>7, <1>8, <1>9, <1>10
         DEF Next, Generator

\* The generator gives up only for a reason found in its input, and it is no
\* reason that a repository lacks the MR's branch or its target branch.
THEOREM PanicIsJustified == Spec => []PanicHasReason
<1>1. Init => PanicKnows
    BY DEF Init, PanicKnows
<1>2. IInv /\ PanicKnows /\ [Next]_vars => PanicKnows'
    BY PanicStep
<1>3. IInv /\ PanicKnows => PanicHasReason
    <2> SUFFICES ASSUME TypeOK, Unusable, trigger.project \in Configured
                 PROVE  \/ ~ trigger.settings
                        \/ \E r \in Configured :
                              clone[r][MainBranch[r]] = Absent
                        \/ IsMR /\ clone[trigger.project][trigger.mr.target]
                                       = Absent
                        \/ \E r \in Configured \ Vendored : Unrelated(r)
                        \/ \E r \in Configured : Broken(Deps, r)
        BY DEF PanicHasReason, PanicKnows, IInv, Unrelated
    <2>1. ASSUME NEW r \in Configured, HashesFail(r)
          PROVE  \/ clone[r][MainBranch[r]] = Absent
                 \/ IsMR /\ clone[trigger.project][trigger.mr.target] = Absent
                 \/ r \notin Vendored /\ Unrelated(r)
        BY <2>1, HashesFailFor
    <2> QED  BY <2>1 DEF Unusable
<1> QED  BY <1>1, <1>2, <1>3, Invariance, PTL DEF Spec

----------------------------------------------------------------------------
(* Why the generator ends: a measure, and nobody waits for nothing.        *)

Busy == {r \in Configured : status[r] \in {"idle", "running"}}

\* A pool of git processes, each seen as busy or not, is finite.
LEMMA ConfiguredFinite == IsFiniteSet(Configured)
<1>1. RepoSeq \in Seq(Configured) /\ Range(RepoSeq) = Configured
    BY PipelineAssumption
<1> DEFINE N == Len(RepoSeq)
           f == [i \in 1 .. N |-> RepoSeq[i]]
<1>2. N \in Nat /\ DOMAIN RepoSeq = 1 .. N
    BY <1>1
<1>3. IsFiniteSet(1 .. N)
    BY <1>2, FS_Interval
<1>4. f \in Surjection(1 .. N, Configured)
    <2>1. f \in [1 .. N -> Configured]
        BY <1>1, <1>2
    <2>2. \A r \in Configured : \E i \in 1 .. N : RepoSeq[i] = r
        BY <1>1, <1>2 DEF Range
    <2> QED  BY <2>1, <2>2 DEF Surjection
<1> HIDE DEF f, N
<1> QED  BY <1>3, <1>4, FS_Surjection

LEMMA BusyCount ==
    /\ IsFiniteSet(Busy) /\ Cardinality(Busy) \in Nat
<1>1. IsFiniteSet(Configured) /\ Busy \subseteq Configured
    BY ConfiguredFinite DEF Busy
<1>2. IsFiniteSet(Busy)
    BY <1>1, FS_Subset
<1> QED  BY <1>2, FS_CardinalityType

\* The git processes are spawned together, when the generator starts cloning.
SpawnInv ==
    /\ phase = "queued" => \A r \in Configured : status[r] = "idle"
    /\ phase = "cloning" => \A r \in Configured : status[r] # "idle"

LEMMA SpawnedTogether == Spec => [](TypeOK /\ SpawnInv)
<1>1. Init => SpawnInv
    BY DEF Init, SpawnInv
<1>2. TypeOK /\ SpawnInv /\ [Next]_vars => SpawnInv'
    <2> SUFFICES ASSUME TypeOK, SpawnInv, [Next]_vars
                 PROVE  SpawnInv'
        OBVIOUS
    <2>1. CASE UnknownProject
        BY <2>1 DEF UnknownProject, Panic, SpawnInv
    <2>2. CASE SpawnClones
        BY <2>2 DEF SpawnClones, SpawnInv
    <2>3. CASE CloneFailed
        BY <2>3 DEF CloneFailed, Panic, SpawnInv
    <2>4. CASE AllCloned
        BY <2>4 DEF AllCloned, SpawnInv
    <2>5. CASE BadData
        BY <2>5 DEF BadData, Panic, SpawnInv
    <2>6. CASE Generate
        BY <2>6 DEF Generate, SpawnInv
    <2>7. ASSUME NEW r \in Configured, CloneDone(r)
          PROVE  SpawnInv'
        BY <2>7 DEF CloneDone, SpawnInv, TypeOK
    <2>8. ASSUME NEW r \in Configured, CloneFails(r)
          PROVE  SpawnInv'
        BY <2>8 DEF CloneFails, SpawnInv, TypeOK
    <2>9. ASSUME NEW r \in Configured, NEW b \in Branch, NEW c \in Head0,
                 Push(r, b, c)
          PROVE  SpawnInv'
        BY <2>9 DEF Push, SpawnInv
    <2>10. CASE UNCHANGED vars
        BY <2>10 DEF vars, SpawnInv
    <2> QED  BY <2>1, <2>2, <2>3, <2>4, <2>5, <2>6, <2>7, <2>8, <2>9, <2>10
             DEF Next, Generator
<1> QED  BY <1>1, <1>2, TypeCorrect, PTL DEF Spec

\* The phases that are left, the git processes and the pushes.
PhasesLeft(p) ==
    CASE p = "queued" -> 3 [] p = "cloning" -> 2 [] p = "cloned" -> 1
      [] OTHER -> 0
StepsLeft == PhasesLeft(phase) + Cardinality(Busy) + (MaxPush - pushes)
Nearer == StepsLeft' \in Nat /\ StepsLeft \in Nat /\ StepsLeft' < StepsLeft

\* A git process that comes to its end, well or not.
LEMMA ProcessEnds ==
    ASSUME TypeOK, NEW r \in Configured, NEW s \in {"ok", "failed"},
           status[r] = "running", status' = [status EXCEPT ![r] = s]
    PROVE  Cardinality(Busy') = Cardinality(Busy) - 1
<1>1. Busy' = Busy \ {r} /\ r \in Busy
    BY DEF Busy, TypeOK
<1>2. IsFiniteSet(Busy)
    BY BusyCount
<1> QED  BY <1>1, <1>2, FS_RemoveElement

\* Every step, of the generator or of the rest of the world, brings it nearer
\* to its end: no phase is entered twice, no git process ends twice, and the
\* pushes that are seen during a run are MaxPush at most.
THEOREM EveryStepCounts == Spec => [][Nearer]_vars
<1>1. TypeOK /\ SpawnInv /\ TypeOK' /\ Next => Nearer
    <2> SUFFICES ASSUME TypeOK, SpawnInv, TypeOK', Next
                 PROVE  Nearer
        OBVIOUS
    <2> DEFINE n == Cardinality(Busy)
               m == Cardinality(Busy')
               p == PhasesLeft(phase)
               q == PhasesLeft(phase')
    <2>1. n \in Nat
        BY BusyCount
    <2>2. p \in 0 .. 3 /\ q \in 0 .. 3
        BY DEF PhasesLeft
    <2>3. /\ MaxPush \in Nat /\ pushes \in 0 .. MaxPush /\ pushes' \in 0 .. MaxPush
        BY PipelineAssumption DEF TypeOK
    <2>4. /\ StepsLeft = p + n + (MaxPush - pushes)
          /\ StepsLeft' = q + m + (MaxPush - pushes')
        BY DEF StepsLeft
    <2> HIDE DEF n, m, p, q
    <2>5. ASSUME \/ q < p /\ m = n /\ pushes' = pushes
                 \/ q = p /\ m = n - 1 /\ n - 1 >= 0 /\ pushes' = pushes
                 \/ q = p /\ m = n /\ pushes' = pushes + 1
          PROVE  Nearer
        BY <2>1, <2>2, <2>3, <2>4, <2>5 DEF Nearer
    <2>6. ASSUME \/ phase = "queued" /\ phase' \in {"cloning", "panic"}
                 \/ phase = "cloning" /\ phase' \in {"cloned", "panic"}
                 \/ phase = "cloned" /\ phase' \in {"done", "panic"}
          PROVE  q < p
        BY <2>6 DEF p, q, PhasesLeft
    <2>7. status' = status => m = n
        BY DEF m, n, Busy
    <2>8. CASE UnknownProject
        <3>1. /\ phase = "queued" /\ phase' = "panic" /\ status' = status
              /\ pushes' = pushes
            BY <2>8 DEF UnknownProject, Panic
        <3> QED  BY <2>5, <2>6, <2>7, <3>1
    <2>9. CASE SpawnClones
        <3>1. /\ phase = "queued" /\ phase' = "cloning" /\ pushes' = pushes
              /\ status' = [r \in Configured |-> "running"]
            BY <2>9 DEF SpawnClones
        <3>2. Busy' = Configured /\ Busy = Configured
            BY <3>1 DEF Busy, SpawnInv
        <3>3. m = n
            BY <3>2 DEF m, n
        <3> QED  BY <2>5, <2>6, <3>1, <3>3
    <2>10. CASE CloneFailed
        <3>1. /\ phase = "cloning" /\ phase' = "panic" /\ status' = status
              /\ pushes' = pushes
            BY <2>10 DEF CloneFailed, Panic
        <3> QED  BY <2>5, <2>6, <2>7, <3>1
    <2>11. CASE AllCloned
        <3>1. /\ phase = "cloning" /\ phase' = "cloned" /\ status' = status
              /\ pushes' = pushes
            BY <2>11 DEF AllCloned
        <3> QED  BY <2>5, <2>6, <2>7, <3>1
    <2>12. CASE BadData
        <3>1. /\ phase = "cloned" /\ phase' = "panic" /\ status' = status
              /\ pushes' = pushes
            BY <2>12 DEF BadData, Panic
        <3> QED  BY <2>5, <2>6, <2>7, <3>1
    <2>13. CASE Generate
        <3>1. /\ phase = "cloned" /\ phase' = "done" /\ status' = status
              /\ pushes' = pushes
            BY <2>13 DEF Generate
        <3> QED  BY <2>5, <2>6, <2>7, <3>1
    <2>14. ASSUME NEW r \in Configured, CloneDone(r) \/ CloneFails(r)
           PROVE  Nearer
        <3>1. PICK s \in {"ok", "failed"} : status' = [status EXCEPT ![r] = s]
            BY <2>14 DEF CloneDone, CloneFails
        <3>2. status[r] = "running" /\ phase' = phase /\ pushes' = pushes
            BY <2>14 DEF CloneDone, CloneFails
        <3>3. m = n - 1
            BY <3>1, <3>2, ProcessEnds DEF m, n
        <3>4. m \in Nat
            <4>1. IsFiniteSet(Configured) /\ Busy' \subseteq Configured
                BY ConfiguredFinite DEF Busy
            <4>2. IsFiniteSet(Busy')
                BY <4>1, FS_Subset
            <4> QED  BY <4>2, FS_CardinalityType DEF m
        <3>5. q = p
            BY <3>2 DEF p, q
        <3>6. n - 1 >= 0
            BY <3>3, <3>4
        <3> QED  BY <2>5, <3>2, <3>3, <3>5, <3>6
    <2>15. ASSUME NEW r \in Configured, NEW b \in Branch, NEW c \in Head0,
                  Push(r, b, c)
           PROVE  Nearer
        <3>1. pushes' = pushes + 1 /\ phase' = phase /\ status' = status
            BY <2>15 DEF Push
        <3>2. q = p
            BY <3>1 DEF p, q
        <3> QED  BY <2>5, <2>7, <3>1, <3>2
    <2> QED  BY <2>8, <2>9, <2>10, <2>11, <2>12, <2>13, <2>14, <2>15
             DEF Next, Generator
<1>2. TypeOK /\ SpawnInv /\ TypeOK' /\ [Next]_vars => [Nearer]_vars
    BY <1>1
<1> QED  BY <1>2, SpawnedTogether, TypeCorrect, PTL DEF Spec

\* A generator that is cloning can go on or has a git process to wait for:
\* awaiting the processes in the order of config.repos loses none of them.
SomeoneWorks ==
    phase = "cloning" =>
        \/ \E r \in Configured : status[r] = "running"
        \/ \E i \in DOMAIN RepoSeq :
              /\ status[RepoSeq[i]] = "failed"
              /\ \A j \in 1 .. (i - 1) : status[RepoSeq[j]] = "ok"
        \/ \A r \in Configured : status[r] = "ok"

THEOREM NobodyWaitsForNothing == Spec => []SomeoneWorks
<1>1. TypeOK /\ SpawnInv => SomeoneWorks
    <2> SUFFICES ASSUME TypeOK, SpawnInv, phase = "cloning",
                        \A r \in Configured : status[r] # "running",
                        NEW r \in Configured, status[r] # "ok"
                 PROVE  \E i \in DOMAIN RepoSeq :
                            /\ status[RepoSeq[i]] = "failed"
                            /\ \A j \in 1 .. (i - 1) : status[RepoSeq[j]] = "ok"
        BY DEF SomeoneWorks
    <2>1. \A s \in Configured : status[s] \in {"ok", "failed"}
        BY DEF TypeOK, SpawnInv
    <2>2. RepoSeq \in Seq(Configured) /\ Range(RepoSeq) = Configured
        BY PipelineAssumption
    <2> DEFINE N == Len(RepoSeq)
               Bad == {i \in 1 .. N : status[RepoSeq[i]] = "failed"}
    <2>3. N \in Nat /\ DOMAIN RepoSeq = 1 .. N
          /\ \A i \in 1 .. N : RepoSeq[i] \in Configured
        BY <2>2
    <2>4. Bad \in SUBSET Nat /\ Bad # {}
        <3>1. PICK k \in DOMAIN RepoSeq : RepoSeq[k] = r
            BY <2>2 DEF Range
        <3> QED  BY <2>1, <2>3, <3>1
    <2> HIDE DEF Bad
    <2>5. PICK i \in Bad : \A j \in Bad : ~ (<<j, i>> \in OpToRel(<, Nat))
        BY <2>4, NatLessThanWellFounded, WFMin, Zenon
    <2>6. \A j \in Bad : ~ (j < i)
        BY <2>4, <2>5, Zenon DEF OpToRel
    <2>7. \A j \in 1 .. (i - 1) : j \in 1 .. N /\ j < i
        BY <2>3 DEF Bad
    <2>8. \A j \in 1 .. (i - 1) : status[RepoSeq[j]] = "ok"
        BY <2>1, <2>3, <2>6, <2>7 DEF Bad
    <2> QED  BY <2>3, <2>8 DEF Bad
<1> QED  BY <1>1, SpawnedTogether, PTL
=============================================================================
