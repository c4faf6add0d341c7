----------------------------- MODULE LintDriver -----------------------------
(***************************************************************************)
(* The command line of fm-linter (coq_lint.py): it resolves the targets,   *)
(* collects their .v files (util.py), lints each with one of three linter  *)
(* objects that live as long as the run, and reports.                      *)
(*                                                                         *)
(* A file is a sequence of sentences.  "from" breaks the common policy,    *)
(* "set" the one of code proofs; "end" without a "begin" is what the       *)
(* context machine gives up on, "cut" what the sentence parser gives up    *)
(* on, and "bytes" stands for what cannot be read at all.                  *)
(***************************************************************************)
EXTENDS Integers, FiniteSets, FiniteSetsExt, SequencesExt

CONSTANTS
    Coq,      \* the .v files
    Other,    \* files of another name
    Dir,      \* directories
    CoqDir,   \* those with a name that ends in .v
    Missing,  \* names of nothing
    NoPath,   \* a Python variable that is not bound yet
    Below,    \* what rglob('*.v') finds in each directory
    Parts,    \* the parts of the path of each of these in that directory
    Mentions, \* for each part, the categories that it has as substrings
    Texts,    \* what a file may contain
    Commands  \* command lines

CoqNamed == Coq \cup CoqDir
Target == CoqNamed \cup Other \cup Dir \cup Missing
Sentence == {"plain", "from", "set", "begin", "end", "cut", "bytes"}
Policy == {"common", "free", "proof"}
Kind == {"common", "dir", "file"}

ASSUME DriverAssumption ==
    /\ Coq \cap (Other \cup Dir \cup Missing) = {}
    /\ Other \cap (Dir \cup Missing) = {} /\ Dir \cap Missing = {}
    /\ CoqDir \subseteq Dir /\ NoPath \notin Target
    /\ Below \in [Dir -> SUBSET CoqNamed]
    /\ \A d \in Dir : Parts[d] \in [Below[d] -> Seq(DOMAIN Mentions) \ {<<>>}]
    /\ Texts \subseteq Seq(Sentence)
    /\ Commands \subseteq [common : Seq(Target), dirs : Seq(Target),
                           files : Seq(Target), fail : BOOLEAN]

VARIABLES
    args,     \* the command line; fail is --fail-on-runtime-error
    text,     \* the contents of the files
    pc,       \* "main", "resolve", "lint", "end"
    targets,  \* targets to resolve, with their kinds
    resolved, \* resolved_proof_dirpath, resolved_code_proof_filepath
    missing,  \* missing_targets, unresolved_common_targets
    rejected, \* targets of the wrong kind, with the kind they should have
    queue,    \* validated targets that are not linted yet, with their kinds
    owner,    \* the one being linted
    todo,     \* its files that are not linted yet
    linter,   \* the state of the linter objects
    results,  \* linting_results: the errors of each file below each target
    outcome   \* "none", "help", "refused", "report", "raised"

vars == <<args, text, pc, targets, resolved, missing, rejected, queue, owner,
          todo, linter, results, outcome>>

Common == args.common # <<>>
Inferred == args.dirs # <<>> \/ args.files # <<>>
Tagged(kind, s) == [i \in DOMAIN s |-> <<kind, s[i]>>]
Error == Int  \* the position of the sentence; -1 is for the file as a whole

TypeOK ==
    /\ args \in Commands /\ text \in [Coq -> Texts]
    /\ pc \in {"main", "resolve", "lint", "end"}
    /\ targets \in Seq(Kind \X Target)
    /\ resolved \in [{"dir", "file"} -> Target \cup {NoPath}]
    /\ missing \subseteq Missing
    /\ rejected \subseteq Kind \X Target
    /\ queue \in Seq(Kind \X (Dir \cup CoqNamed))
    /\ owner \in Kind \X (Dir \cup CoqNamed \cup {NoPath})
    /\ todo \subseteq CoqNamed
    /\ linter \in [Policy -> [errors : SUBSET Error, open : Nat]]
    /\ results \in [(Dir \cup CoqNamed) \X CoqNamed -> SUBSET Error]
    /\ outcome \in {"none", "help", "refused", "report", "raised"}
    /\ outcome = "none" <=> pc # "end"

Init ==
    /\ args \in Commands /\ text \in [Coq -> Texts]
    /\ pc = "main" /\ outcome = "none"
    /\ targets = <<>> /\ queue = <<>> /\ todo = {}
    /\ resolved = [kind \in {"dir", "file"} |-> NoPath]
    /\ missing = {} /\ rejected = {}
    /\ owner = <<"dir", NoPath>>
    /\ linter = [p \in Policy |-> [errors |-> {}, open |-> 0]]
    /\ results = [k \in (Dir \cup CoqNamed) \X CoqNamed |-> {}]

----------------------------------------------------------------------------
(* enumerate_coq_file_hierarchy: which policy a file below a directory has *)
(* to obey.                                                                *)

Category == <<"model", "ghost", "defs", "spec", "hints", "proof", "prelude",
              "upstream">>

\* A part named prelude decides; else the innermost directory whose name, or
\* else the file whose name, contains a category, and of these the first.
CategoryOf(d, f) ==
    LET parts == Parts[d][f]
        inner == Reverse(Front(parts)) \o <<Last(parts)>>
        hits  == {i \in DOMAIN inner : Mentions[inner[i]] # {}}
        found == Mentions[inner[Min(hits)]]
    IN  IF "prelude" \in ToSet(parts) THEN "prelude"
        ELSE IF hits = {} THEN "<UNRECOGNIZED>"
        ELSE Category[Min({i \in DOMAIN Category : Category[i] \in found})]

\* COQ_LINTERS: all the categories but one share a linter that allows anything.
PolicyOf(kind, path, f) ==
    CASE kind = "common" -> "common"
      [] kind = "file"   -> "proof"
      [] kind = "dir"    -> IF CategoryOf(path, f) = "proof" THEN "proof"
                            ELSE "free"

Flagged(policy) ==
    CASE policy = "common" -> {"from"}
      [] policy = "proof"  -> {"set"}
      [] policy = "free"   -> {}

TextOf(f) == IF f \in Coq THEN text[f] ELSE <<"bytes">>

----------------------------------------------------------------------------
(* CoqLinter.run, which starts by resetting the linter object.             *)

\* Mutant of Reset: the errors of the file before stay.
ResetContexts(l) == [l EXCEPT !.open = 0]

Reset(l) == [l EXCEPT !.errors = {}, !.open = 0]

\* One sentence, at acc.at; once acc.stop is set an exception is on its way.
RunSentence(policy, acc, s) ==
    IF acc.stop # "" THEN acc
    ELSE [at     |-> acc.at + 1,
          open   |-> CASE s = "begin" -> acc.open + 1
                       [] s = "end" /\ acc.open > 0 -> acc.open - 1
                       [] OTHER -> acc.open,
          stop   |-> CASE s = "end" /\ acc.open = 0 -> "context"
                       [] s = "cut" -> "parse"
                       [] s = "bytes" -> "read"
                       [] OTHER -> "",
          errors |-> IF s \in Flagged(policy) THEN acc.errors \cup {acc.at}
                     ELSE acc.errors]

Run(policy, f) ==
    LET l == Reset(linter[policy])
    IN  FoldLeft(LAMBDA acc, s : RunSentence(policy, acc, s),
                 [errors |-> l.errors, open |-> l.open, at |-> 1, stop |-> ""],
                 TextOf(f))

----------------------------------------------------------------------------
(* main.                                                                   *)

\* Mutant of Stop: a return is missing.
StopLater(o) == UNCHANGED pc /\ outcome' = o

Stop(o) == pc' = "end" /\ outcome' = o

Unresolved == UNCHANGED <<targets, resolved, missing, rejected>>
Unlinted == UNCHANGED <<queue, owner, todo, linter, results>>

\* Targets of both sorts are refused with a message, none get the usage: main
\* returns None or 0, and the exit status is 0 in both cases.
Refuse ==
    /\ pc = "main" /\ (Common <=> Inferred)
    /\ Stop(IF Common THEN "refused" ELSE "help")
    /\ UNCHANGED <<args, text>> /\ Unresolved /\ Unlinted

Begin ==
    /\ pc = "main" /\ (Common <=> ~ Inferred)
    /\ pc' = "resolve"
    /\ targets' = Tagged("common", args.common) \o Tagged("dir", args.dirs)
                      \o Tagged("file", args.files)
    /\ UNCHANGED <<args, text, resolved, missing, rejected, outcome>>
    /\ Unlinted

\* is_dir and is_coq_file.
RightKind(kind, path) ==
    \/ kind # "file" /\ path \in Dir
    \/ kind # "dir" /\ path \in CoqNamed

\* The files given come before the directories, each in the order given.
FilesFirst(q, entry) ==
    LET files == {i \in DOMAIN q : q[i][2] \notin Dir}
    IN  IF entry[2] \in Dir THEN Append(q, entry)
        ELSE InsertAt(q, Cardinality(files) + 1, entry)

\* Mutant of ResolveCommon: no continue after a target that does not exist.
ResolveCommonGoesOn ==
    /\ pc = "resolve" /\ targets # <<>> /\ Head(targets)[1] = "common"
    /\ LET t == Head(targets)[2]
       IN  /\ missing' = missing \cup ({t} \cap Missing)
           /\ IF RightKind("common", t)
              THEN queue' = FilesFirst(queue, Head(targets)) /\ UNCHANGED rejected
              ELSE rejected' = rejected \cup {Head(targets)} /\ UNCHANGED queue
    /\ targets' = Tail(targets)
    /\ UNCHANGED <<args, text, pc, resolved, owner, todo, linter, results,
                   outcome>>

\* main_common_policy, for one target.
ResolveCommon ==
    /\ pc = "resolve" /\ targets # <<>> /\ Head(targets)[1] = "common"
    /\ LET t == Head(targets)[2]
       IN  \/ /\ t \in Missing
              /\ missing' = missing \cup {t} /\ UNCHANGED <<rejected, queue>>
           \/ /\ t \notin Missing /\ RightKind("common", t)
              /\ queue' = FilesFirst(queue, Head(targets))
              /\ UNCHANGED <<missing, rejected>>
           \/ /\ t \notin Missing /\ ~ RightKind("common", t)
              /\ rejected' = rejected \cup {Head(targets)}
              /\ UNCHANGED <<missing, queue>>
    /\ targets' = Tail(targets)
    /\ UNCHANGED <<args, text, pc, resolved, owner, todo, linter, results,
                   outcome>>

\* main_infer_categorizations, for one target: after one that does not exist
\* the path resolved before it is looked at again, if there is any.
ResolveInferred ==
    /\ pc = "resolve" /\ targets # <<>> /\ Head(targets)[1] # "common"
    /\ LET kind == Head(targets)[1]
           t    == Head(targets)[2]
           path == IF t \in Missing THEN resolved[kind] ELSE t
       IN  /\ resolved' = [resolved EXCEPT ![kind] = path]
           /\ missing' = missing \cup ({t} \cap Missing)
           /\ \/ path = NoPath /\ Stop("raised") /\ UNCHANGED <<rejected, queue>>
              \/ /\ RightKind(kind, path)
                 /\ queue' = Append(queue, <<kind, path>>)
                 /\ UNCHANGED <<rejected, pc, outcome>>
              \/ /\ path # NoPath /\ ~ RightKind(kind, path)
                 /\ rejected' = rejected \cup {<<kind, t>>}
                 /\ UNCHANGED <<queue, pc, outcome>>
    /\ targets' = Tail(targets)
    /\ UNCHANGED <<args, text, owner, todo, linter, results>>

StartLinting ==
    /\ pc = "resolve" /\ targets = <<>>
    /\ pc' = "lint"
    /\ UNCHANGED <<args, text, outcome>> /\ Unresolved /\ Unlinted

NextTarget ==
    /\ pc = "lint" /\ todo = {} /\ queue # <<>>
    /\ owner' = Head(queue) /\ queue' = Tail(queue)
    /\ todo' = IF owner'[1] # "file" /\ owner'[2] \in Dir THEN Below[owner'[2]]
               ELSE {owner'[2]}
    /\ UNCHANGED <<args, text, pc, linter, results, outcome>> /\ Unresolved

\* Mutants of Raises and Errors: lint_coq_file catches the exceptions of the
\* context machine only; what was found before an exception is forgotten.
RaisesUnlessContext(r) ==
    \/ r.stop = "read"
    \/ r.stop # "" /\ (~ Common \/ args.fail \/ r.stop = "parse")
ErrorsUnlessStopped(r) == IF r.stop = "" THEN r.errors ELSE {}

\* lint_coq_file catches a RuntimeError in the common pass, unless told not to,
\* and warns of the file; what cannot be read or decoded is no RuntimeError.
Raises(r) == r.stop = "read" \/ (r.stop # "" /\ (~ Common \/ args.fail))
Errors(r) == r.errors \cup (IF r.stop = "" THEN {} ELSE {-1})

\* The results of the common pass are listed by file, the others by target.
KeyOf(f) == IF Common THEN <<f, f>> ELSE <<owner[2], f>>

\* One file, which in the order of the file system may be any.  After a
\* code-proof file "if errors:" reads a name that is never bound.
Lint(f) ==
    /\ pc = "lint" /\ f \in todo
    /\ LET policy == PolicyOf(owner[1], owner[2], f)
           r == Run(policy, f)
       IN  /\ linter' = [linter EXCEPT ![policy] =
                            [errors |-> r.errors, open |-> r.open]]
           /\ IF Raises(r) \/ owner[1] = "file"
              THEN Stop("raised") /\ UNCHANGED <<todo, results>>
              ELSE /\ todo' = todo \ {f}
                   /\ results' = IF Errors(r) = {} THEN results
                                 ELSE [results EXCEPT ![KeyOf(f)] = Errors(r)]
                   /\ UNCHANGED <<pc, outcome>>
    /\ UNCHANGED <<args, text, queue, owner>> /\ Unresolved

\* report_errors.
Report ==
    /\ pc = "lint" /\ todo = {} /\ queue = <<>>
    /\ Stop("report")
    /\ UNCHANGED <<args, text>> /\ Unresolved /\ Unlinted

Next ==
    \/ Refuse \/ Begin \/ ResolveCommon \/ ResolveInferred \/ StartLinting
    \/ NextTarget \/ Report
    \/ \E f \in CoqNamed : Lint(f)

Spec == Init /\ [][Next]_vars

\* The exit status: report_errors says whether it had anything to report, an
\* exception that is not caught makes it 1.
Status ==
    IF outcome = "report"
    THEN IF missing = {} /\ rejected = {} /\ \A k \in DOMAIN results :
                results[k] = {} THEN 0 ELSE 1
    ELSE IF outcome = "raised" THEN 1 ELSE 0

----------------------------------------------------------------------------
(* What could go wrong.                                                    *)

Given == {<<"common", args.common[i]>> : i \in DOMAIN args.common} \cup
         {<<"dir", args.dirs[i]>> : i \in DOMAIN args.dirs} \cup
         {<<"file", args.files[i]>> : i \in DOMAIN args.files}

\* The files a target stands for.
Covered(t) ==
    IF ~ RightKind(t[1], t[2]) THEN {}
    ELSE IF t[1] # "file" /\ t[2] \in Dir THEN Below[t[2]]
    ELSE {t[2]}

\* What a linter that had seen no other file finds: the first sentence it
\* cannot get past, and the sentences before it that break the policy.
Count(s, n, x) == Cardinality({i \in 1..n : s[i] = x})
Obstacles(s) == {i \in DOMAIN s : s[i] \in {"cut", "bytes"}
                                  \/ Count(s, i, "end") > Count(s, i, "begin")}
Findings(policy, f) ==
    LET s == TextOf(f)
    IN  {i \in DOMAIN s : /\ s[i] \in Flagged(policy)
                          /\ \A j \in Obstacles(s) : i < j}
            \cup (IF Obstacles(s) = {} THEN {} ELSE {-1})
Unreadable(f) == "bytes" \in ToSet(TextOf(f))

\* After a report the exit status is 0 if and only if every target given
\* exists and is of the right kind and every file below it is clean, whichever
\* was linted first and however far the linter came with it.
StatusIsHonest ==
    outcome = "report" =>
        (Status = 0 <=>
            \A t \in Given :
                /\ RightKind(t[1], t[2])
                /\ \A f \in Covered(t) :
                       Findings(PolicyOf(t[1], t[2], f), f) = {})

\* The errors listed for a file are those of that file, although the linter
\* objects are shared by all files and may have been left by an exception.
VerdictIsLocal ==
    \A t \in Given : \A f \in Covered(t) :
        LET key == IF Common THEN <<f, f>> ELSE <<t[2], f>>
        IN  results[key] \in {{}, Findings(PolicyOf(t[1], t[2], f), f)}

\* A target is reported missing if and only if it does not exist, and as one
\* of the wrong kind only if it is one, or if it is missing after such a one.
TargetsAccounted ==
    outcome = "report" =>
        /\ missing = {t[2] : t \in Given} \cap Missing
        /\ \A t \in Given :
               t[2] \notin Missing => (t \in rejected <=> ~ RightKind(t[1], t[2]))
        /\ \A t \in rejected : t[2] \in Missing =>
               \E u \in rejected : u[1] = t[1] /\ t[1] # "common" /\ u[2] \notin Missing

\* A strict run is one that lint_coq_file is not to go on with after a file it
\* cannot process: it catches nothing but in the common pass, where
\* --fail-on-runtime-error says what to do.
Strict == Inferred \/ args.fail
Stuck(f) == -1 \in Findings("free", f)

\* What is linted is UTF-8 text, nothing inferred is missing and no code-proof
\* file is given, for which see GivesUpAsTold.
Ordinary ==
    \A t \in Given :
        /\ \A f \in Covered(t) : ~ Unreadable(f)
        /\ t[1] # "common" => t[2] \notin Missing
        /\ t[1] = "file" => ~ RightKind("file", t[2])

\* A strict run never comes to its report over a file that it did not get to
\* the end of, in whatever order it met the files; and a run gives up only if
\* it is strict and there is such a file.
GivesUpWhenStrict ==
    /\ outcome = "report" /\ Strict =>
           \A t \in Given : \A f \in Covered(t) : ~ Stuck(f)
    /\ outcome = "raised" /\ Ordinary =>
           Strict /\ \E t \in Given : \E f \in Covered(t) : Stuck(f)

\* coq_lint.py, lint_coq_file, of the common pass without
\* --fail-on-runtime-error: simply warn if a file can't be processed; and help
\* of --extra-code-proofs: lint specific code-proof files in addition to proof
\* directories.  So a run that is given good targets gives up only if it is
\* strict and there is a file that it cannot get to the end of.
GivesUpAsTold ==
    outcome = "raised" =>
        \/ \E t \in Given : ~ RightKind(t[1], t[2])
        \/ Strict /\ \E t \in Given : \E f \in Covered(t) : Stuck(f)
=============================================================================
