--------------------------- MODULE MCGenPipeline ---------------------------
(***************************************************************************)
(* The three repositories of config.toml, with NOVA vendored, one push to  *)
(* any branch during the run, and histories where the MR's branch is ahead *)
(* of, behind, beside or unrelated to the branch it targets.               *)
(***************************************************************************)
EXTENDS GenPipeline, TLC

CONSTANTS fmci, nova, bhv, other

MCConfigured == {fmci, nova, bhv}
MCDeps == fmci :> <<>> @@ nova :> <<fmci>> @@ bhv :> <<fmci, nova>>
MCDepLists == {<<>>, <<fmci>>, <<fmci, nova>>}
MCMainBranch == fmci :> "main" @@ nova :> "proof" @@ bhv :> "main"
MCRepoSeq == <<nova, bhv, fmci>>
MCProject == MCConfigured \cup {other}
MCBranch == {"main", "proof", "feat"}

\* 1 is the root of 2 and 3, and 4 has a history of its own.
MCCommit == 1..4
MCAnc == <<{1}, {1, 2}, {1, 3}, {4}>>

\* The main branch is at 2; the MR branch and a branch with the name of
\* another repository's main branch may exist or not.
Heads(r, feat, side) ==
    [b \in MCBranch |-> CASE b = MCMainBranch[r] -> 2
                          [] b = "feat"          -> feat
                          [] OTHER               -> side]
MCRemotes ==
    {[r \in MCConfigured |-> Heads(r, feat[r], side[r])] :
        feat \in [MCConfigured -> {3, Absent}],
        side \in {s \in [MCConfigured -> {1, Absent}] : s[bhv] = 1}}

MCTriggers ==
    [project : MCProject, sha : {3},
     mr : [source : {"feat"}, target : {"main", "proof"},
           labels : SUBSET Label],
     settings : {TRUE}]
    \cup [project : MCProject, sha : {1}, mr : {NoMR}, settings : BOOLEAN]
============================================================================
