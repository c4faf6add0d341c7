-------------------------- MODULE HierarchyBuilder --------------------------
(***************************************************************************)
(* CoqHierarchyBuilder (fm-linter/coq_hierarchy_builder.py), which         *)
(* populates a proof directory with the files of a target: it first looks  *)
(* at each path of the hierarchy, then creates what it found missing,      *)
(* whatever happened since.  Several builders may run on one directory,    *)
(* their users write files meanwhile, and a builder may be killed at any   *)
(* point and run again (as another member of Builder).  A user's edits and *)
(* a builder's writes are made in place.                                   *)
(*                                                                         *)
(* A path is the sequence of its parts, from the proof directory on.       *)
(***************************************************************************)
EXTENDS Integers, SequencesExt

CONSTANTS
    Builder,      \* the runs of the tool
    TargetNames,  \* names of the target's own files: "foo", or two of them
    Categories,   \* COQ_PROOF_ARTIFACT_CATEGORIES_AUTOGEN
    Exclusions,   \* the values of excluded_hierarchy that are tried
    MaxEdit       \* bound on the files users write meanwhile

ASSUME BuilderAssumption ==
    /\ TargetNames \in Seq(Range(TargetNames) \ {"target"})
    /\ Categories \in Seq(Range(Categories) \ {"prelude"})
    /\ Exclusions \subseteq SUBSET Range(Categories)
    /\ MaxEdit \in Nat

VARIABLES
    fs,       \* what is at each path
    excluded, \* the categories each run leaves out
    execute,  \* the --execute flag of each run
    pc,       \* where each run is
    queue,    \* the paths it has not looked at yet
    missing,  \* its plan: the paths that were missing, still to be created
    found,    \* the files with a user's work it has seen (observation)
    wrote,    \* the files it opened for writing (observation)
    edits     \* number of files written by users so far

arguments == <<excluded, execute>>
plans == <<arguments, queue, missing, found>>
vars == <<fs, arguments, pc, queue, missing, found, wrote, edits>>

Prf == <<"proof">>
Target == Append(Prf, "target")
Prelude == Append(Target, "prelude")
Directories == {Prf, Target, Prelude}

In(dir, names) == [i \in DOMAIN names |-> Append(dir, names[i])]

\* Mutant of Hierarchy: the prelude comes before the directory it is in.
HierarchyPreludeFirst ==
    <<Prf>> \o In(Prf, TargetNames) \o <<Prelude>> \o In(Prelude, Categories)
            \o <<Target>> \o In(Target, Categories)

\* The nodes of a plan in the order of its dictionaries, which is the order
\* they are looked at and created in.
Hierarchy ==
    <<Prf>> \o In(Prf, TargetNames) \o <<Target>> \o In(Target, Categories)
            \o <<Prelude>> \o In(Prelude, Categories)

Path == Range(Hierarchy)
Files == Path \ Directories
Position == [p \in Path |-> CHOOSE i \in DOMAIN Hierarchy : Hierarchy[i] = p]
IsFirst(p, paths) ==
    p \in paths /\ \A q \in paths : Position[p] <= Position[q]

TypeOK ==
    /\ \A p \in Directories : fs[p] \in {"none", "dir"}
    /\ \A p \in Files : fs[p] \in {"none", "empty", "generated", "user"}
    /\ excluded \in [Builder -> Exclusions]
    /\ execute \in [Builder -> BOOLEAN]
    /\ pc \in [Builder -> {"plan", "execute", "write",
                           "ok", "shown", "raised", "killed"}]
    /\ queue \in [Builder -> SUBSET Path]
    /\ missing \in [Builder -> SUBSET Path]
    /\ found \in [Builder -> SUBSET Files]
    /\ wrote \in [Builder -> SUBSET Files]
    /\ edits \in 0..MaxEdit

Exists(p) == fs[p] # "none"
HasParent(p) == IF p = Prf THEN TRUE ELSE fs[Front(p)] = "dir"

\* A run may leave out categories of the target; the prelude is complete.
LeftOut(b) == {Append(Target, c) : c \in excluded[b]}
Wanted(b) == Path \ LeftOut(b)
Able(b) == ~ Range(Categories) \subseteq excluded[b]

----------------------------------------------------------------------------
\* Any part of a hierarchy may be there already, with whatever its users
\* wrote in it.
Init ==
    /\ fs \in [Path -> {"none", "dir", "user"}]
    /\ \A p \in Path : Exists(p) => /\ (p \in Directories) = (fs[p] = "dir")
                                    /\ HasParent(p)
    /\ excluded \in [Builder -> Exclusions]
    /\ execute \in [Builder -> BOOLEAN]
    /\ pc = [b \in Builder |-> "plan"]
    /\ queue = [b \in Builder |-> Wanted(b)]
    /\ missing = [b \in Builder |-> {}]
    /\ found = [b \in Builder |-> {}]
    /\ wrote = [b \in Builder |-> {}]
    /\ edits = 0

\* Mutants of Look: a directory that is there is taken to be complete; the
\* files of a plan are planned for anyway.
LookAtTop(b, p) ==
    /\ pc[b] = "plan" /\ IsFirst(p, queue[b])
    /\ queue' = [queue EXCEPT ![b] =
                     {q \in @ \ {p} : ~ (Exists(Target) /\ IsPrefix(Target, q))}]
    /\ missing' = [missing EXCEPT ![b] = IF Exists(p) THEN @ ELSE @ \cup {p}]
    /\ found' = [found EXCEPT ![b] = IF fs[p] = "user" THEN @ \cup {p} ELSE @]
    /\ UNCHANGED <<fs, arguments, pc, wrote, edits>>

LookAtDirectories(b, p) ==
    /\ pc[b] = "plan" /\ IsFirst(p, queue[b])
    /\ queue' = [queue EXCEPT ![b] = @ \ {p}]
    /\ missing' = [missing EXCEPT ![b] =
                       IF Exists(p) /\ p \in Directories THEN @ ELSE @ \cup {p}]
    /\ found' = [found EXCEPT ![b] = IF fs[p] = "user" THEN @ \cup {p} ELSE @]
    /\ UNCHANGED <<fs, arguments, pc, wrote, edits>>

\* compute_hierarchy_plan: is_dir() or is_file() of the next node.
Look(b, p) ==
    /\ pc[b] = "plan" /\ IsFirst(p, queue[b])
    /\ queue' = [queue EXCEPT ![b] = @ \ {p}]
    /\ missing' = [missing EXCEPT ![b] = IF Exists(p) THEN @ ELSE @ \cup {p}]
    /\ found' = [found EXCEPT ![b] = IF fs[p] = "user" THEN @ \cup {p} ELSE @]
    /\ UNCHANGED <<fs, arguments, pc, wrote, edits>>

\* over_hierarchy cannot reduce an empty list: every category is excluded.
PlanFails(b) ==
    /\ pc[b] = "plan"
    /\ ~ Able(b)
    /\ pc' = [pc EXCEPT ![b] = "raised"]
    /\ UNCHANGED <<fs, plans, wrote, edits>>

\* run: the plan is executed, or displayed.
Planned(b) ==
    /\ pc[b] = "plan" /\ queue[b] = {} /\ Able(b)
    /\ pc' = [pc EXCEPT ![b] = IF execute[b] THEN "execute" ELSE "shown"]
    /\ UNCHANGED <<fs, plans, wrote, edits>>

Executes(b, p) == pc[b] = "execute" /\ IsFirst(p, missing[b])
Done(b, p) == missing' = [missing EXCEPT ![b] = @ \ {p}]

\* Mutant of MakeDir: every new node is populated like a file.
MakeDirAsFile(b, p) ==
    /\ Executes(b, p) /\ p \in Directories /\ HasParent(p)
    /\ fs' = [fs EXCEPT ![p] = "empty"]
    /\ pc' = [pc EXCEPT ![b] = "write"]
    /\ UNCHANGED <<plans, wrote, edits>>

\* execute_hierarchy_plan_aux, a directory: mkdir() wants a parent and no
\* directory of that name.
MakeDir(b, p) ==
    /\ Executes(b, p) /\ p \in Directories
    /\ IF HasParent(p) /\ ~ Exists(p)
       THEN fs' = [fs EXCEPT ![p] = "dir"] /\ Done(b, p) /\ UNCHANGED pc
       ELSE /\ pc' = [pc EXCEPT ![b] = "raised"]
            /\ UNCHANGED <<fs, missing>>
    /\ UNCHANGED <<arguments, queue, found, wrote, edits>>

\* A file: open('w') creates or truncates it, if there is a parent.
Open(b, p) ==
    /\ Executes(b, p) /\ p \in Files
    /\ IF HasParent(p)
       THEN /\ fs' = [fs EXCEPT ![p] = "empty"]
            /\ wrote' = [wrote EXCEPT ![b] = @ \cup {p}]
            /\ pc' = [pc EXCEPT ![b] = "write"]
       ELSE /\ pc' = [pc EXCEPT ![b] = "raised"]
            /\ UNCHANGED <<fs, wrote>>
    /\ UNCHANGED <<plans, edits>>

\* Mutant of Write: a file without sentences of its own is left empty.
WriteNothing(b, p) ==
    /\ pc[b] = "write" /\ IsFirst(p, missing[b])
    /\ Done(b, p)
    /\ pc' = [pc EXCEPT ![b] = "execute"]
    /\ UNCHANGED <<fs, arguments, queue, found, wrote, edits>>

\* populate_file: its text reaches the file when it is closed.
Write(b, p) ==
    /\ pc[b] = "write" /\ IsFirst(p, missing[b])
    /\ fs' = [fs EXCEPT ![p] = "generated"]
    /\ Done(b, p)
    /\ pc' = [pc EXCEPT ![b] = "execute"]
    /\ UNCHANGED <<arguments, queue, found, wrote, edits>>

Finish(b) ==
    /\ pc[b] = "execute" /\ missing[b] = {}
    /\ pc' = [pc EXCEPT ![b] = "ok"]
    /\ UNCHANGED <<fs, plans, wrote, edits>>

\* The run is interrupted, or an operation of the file system fails.
Kill(b) ==
    /\ pc[b] \in {"plan", "execute", "write"}
    /\ pc' = [pc EXCEPT ![b] = "killed"]
    /\ UNCHANGED <<fs, plans, wrote, edits>>

\* A user writes a file.
Edit(p) ==
    /\ edits < MaxEdit
    /\ HasParent(p) /\ fs[p] # "user"
    /\ fs' = [fs EXCEPT ![p] = "user"]
    /\ edits' = edits + 1
    /\ UNCHANGED <<plans, pc, wrote>>

Next ==
    \/ \E b \in Builder, p \in Path :
          Look(b, p) \/ MakeDir(b, p) \/ Open(b, p) \/ Write(b, p)
    \/ \E b \in Builder : PlanFails(b) \/ Planned(b) \/ Finish(b) \/ Kill(b)
    \/ \E p \in Files : Edit(p)

Spec == Init /\ [][Next]_vars

----------------------------------------------------------------------------
(* What could go wrong.                                                    *)

\* Populating a directory again is harmless: a run never opens a file that
\* held a user's work when it looked, whatever its plan went through since.
FoundIsKept == \A b \in Builder : wrote[b] \cap found[b] = {}

\* A run that ends well leaves its hierarchy whole, also if parts of it were
\* there before or were made by another run.
Complete ==
    \A b \in Builder : pc[b] = "ok" =>
        \A p \in Wanted(b) : Exists(p)

\* Of several runs that get in each other's way (mkdir raises in all but one
\* of them) some run always goes on: they never all give up.
SomeoneGoesOn ==
    LET able == {b \in Builder : Able(b)}
    IN  able # {} => \E b \in able : pc[b] # "raised"

\* A file without its text is being written, or was when its run was killed:
\* one at most for each run killed, and no rerun would complete it.
EmptyHasOwner ==
    \A p \in Files : fs[p] = "empty" =>
        \E b \in Builder :
            pc[b] \in {"write", "killed"} /\ IsFirst(p, missing[b])
=============================================================================
