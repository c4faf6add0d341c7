----------------------------- MODULE CoqLinter -----------------------------
(***************************************************************************)
(* The context machine of fm-linter/linter.py (class CoqLinter): sentence  *)
(* by sentence, the linter guesses from regular expressions which section, *)
(* module, namespace or proof of a Coq file it is in, and which policy a   *)
(* sentence has to obey.                                                   *)
(*                                                                         *)
(* A sentence is the class of regular expressions it matches.  What coqc   *)
(* makes of the same sentences is modelled beside it (external): the       *)
(* linter relies on "coqc ensures that things are properly bracketed".     *)
(***************************************************************************)
EXTENDS Naturals, Sequences, FiniteSets

CONSTANTS
    Container,    \* the contexts other than proofs, entered and left alike
    Styles,       \* how the linted files are written, see LegalStyle
    MaxDepth,     \* bound on the nesting of a file
    MaxObligation \* bound on the obligations of a Program definition

ASSUME LinterAssumption ==
    /\ Container \subseteq {"section", "module_type", "module", "nes"}
    /\ Styles \subseteq {"nested", "program", "both", "any"}
    /\ MaxDepth \in Nat /\ MaxObligation \in Nat

Ctx == Container \cup {"proof"}

VARIABLES
    style,    \* the style of the file
    ctx,      \* _context_stack, head first, above "toplevel"
    saved,    \* _nested_proof_stack, head first
    flags,    \* the five flags of the current proof
    nextObl,  \* _next_obligation_enter_proof_ctx
    verdict,  \* what became of the last sentence
    coq,      \* coqc: the enclosing sections, modules and proofs, head first
    pending   \* coqc: obligations of the last Program definition still open

vars == <<style, ctx, saved, flags, nextObl, verdict, coq, pending>>

\* _program_definition, _elide_proof_line, _expect_proof_line,
\* _proof_line_seen and _proof_line_unseen_logged.
Flags == [program : BOOLEAN, elide : BOOLEAN, expect : BOOLEAN,
          seen : BOOLEAN, logged : BOOLEAN]
NewFlags(program, elide) ==
    [program |-> program, elide |-> elide, expect |-> FALSE,
     seen |-> FALSE, logged |-> FALSE]

TypeOK ==
    /\ style \in Styles
    /\ ctx \in Seq(Ctx \cup {"toplevel"}) /\ ctx # <<>>
    /\ ctx[Len(ctx)] = "toplevel"
    /\ \A i \in 1..(Len(ctx) - 1) : ctx[i] \in Ctx
    /\ saved \in Seq(Flags)
    /\ flags \in Flags
    /\ nextObl \in BOOLEAN
    /\ verdict \in {"start", "context", "policy", "raised"}
    /\ coq \in Seq(Ctx)
    /\ pending \in 0..MaxObligation

Init ==
    /\ style \in Styles
    /\ ctx = <<"toplevel">> /\ saved = <<>>
    /\ flags = NewFlags(FALSE, FALSE)
    /\ nextObl = FALSE
    /\ verdict = "start"
    /\ coq = <<>> /\ pending = 0

----------------------------------------------------------------------------
(* The linter.                                                             *)

InProof == Head(ctx) = "proof"

\* _enter_ctx; enter_proof_ctx saves the flags of the proof around it.
Enter(c) ==
    /\ ctx' = <<c>> \o ctx
    /\ verdict' = "context"
    /\ UNCHANGED <<saved, flags, nextObl>>

EnterProof(newFlags) ==
    /\ ctx' = <<"proof">> \o ctx
    /\ saved' = <<flags>> \o saved
    /\ flags' = newFlags
    /\ nextObl' = FALSE
    /\ verdict' = "context"

\* RuntimeError_PartialLint: this file is not linted any further.
Raise ==
    /\ verdict' = "raised"
    /\ UNCHANGED <<ctx, saved, flags, nextObl>>

\* Mutants of ExitProof: the saved flags stay on their stack; a proof of an
\* obligation does not announce the next one.
ExitProofKeeps ==
    /\ ctx' = Tail(ctx)
    /\ flags' = [flags EXCEPT !.logged = TRUE]
    /\ nextObl' = (nextObl \/ flags.program)
    /\ verdict' = "context"
    /\ UNCHANGED saved

ExitProofForgets ==
    /\ ctx' = Tail(ctx)
    /\ saved' = Tail(saved)
    /\ flags' = [flags EXCEPT !.logged = TRUE]
    /\ verdict' = "context"
    /\ UNCHANGED nextObl

\* exit_proof_ctx.  The five lines that look like an assignment of the saved
\* flags are four expressions without effect and one assignment: the popped
\* tuple, which counts as true, goes into _proof_line_unseen_logged.
ExitProof ==
    /\ ctx' = Tail(ctx)
    /\ saved' = Tail(saved)
    /\ flags' = [flags EXCEPT !.logged = TRUE]
    /\ nextObl' = (nextObl \/ flags.program)
    /\ verdict' = "context"

Ignore ==
    /\ verdict' = "context"
    /\ UNCHANGED <<ctx, saved, flags, nextObl>>

\* check_policy, whose second part is LintPolicy.tla's concern.
CheckPolicy ==
    LET noProof == /\ InProof /\ flags.expect /\ ~ flags.program
                   /\ ~ flags.seen /\ ~ flags.logged
    IN  /\ flags' = [flags EXCEPT !.logged = @ \/ noProof,
                                  !.expect = ~ flags.elide /\ InProof]
        /\ verdict' = "policy"
        /\ UNCHANGED <<ctx, saved, nextObl>>

\* What neither enters nor leaves a context, perhaps under a [[NOLINT]].
LintPlain == CheckPolicy \/ Ignore

\* "Lemma foo : P.", "Instance ...", "Goal ...", "Definition foo : T." and
\* the like, without a body.
LintStatement == EnterProof(NewFlags(FALSE, TRUE))

\* "Lemma foo : P. Proof. auto. Qed." on one line: entered and left at once.
LintStatementAndProof ==
    /\ flags' = [NewFlags(FALSE, TRUE) EXCEPT !.logged = TRUE]
    /\ nextObl' = FALSE
    /\ verdict' = "context"
    /\ UNCHANGED <<ctx, saved>>

\* "Program Definition foo := _." and "Equations ...", or, with elide,
\* "Program Instance ..." and "Program Lemma ...".
LintProgram(elide) == EnterProof(NewFlags(TRUE, elide))

\* "Proof. auto. Qed." or "Next Obligation. done. Qed." on one line.
LintOneLiner == IF InProof THEN ExitProof ELSE Ignore

\* "Qed.", "Defined.", "Admit Obligations." and the like.
LintProofEnd ==
    IF InProof THEN ExitProof
    ELSE IF flags.elide THEN Ignore ELSE Raise

\* "Proof." and "Next Obligation.": the latter may open a proof context.
LintProofBegin(next) ==
    IF ~ InProof /\ ~ nextObl THEN LintPlain
    ELSE IF nextObl /\ next
    THEN EnterProof([NewFlags(TRUE, FALSE) EXCEPT !.seen = TRUE])
    ELSE /\ flags' = [flags EXCEPT !.seen = TRUE]
         /\ verdict' = "context"
         /\ UNCHANGED <<ctx, saved, nextObl>>

\* Mutant of LintEnd: whatever is innermost, the toplevel included.
LintEndAnything ==
    /\ ctx' = Tail(ctx)
    /\ verdict' = "context"
    /\ UNCHANGED <<saved, flags, nextObl>>

\* "End a." and "NES.End a.": whichever container is innermost.
LintEnd ==
    IF Head(ctx) \in Container
    THEN /\ ctx' = Tail(ctx)
         /\ verdict' = "context"
         /\ UNCHANGED <<saved, flags, nextObl>>
    ELSE Raise

----------------------------------------------------------------------------
(* coqc, and the files it accepts.                                         *)

CoqInProof == coq # <<>> /\ Head(coq) = "proof"

\* The files of each style: "nested" ones set Nested Proofs Allowed, "program"
\* ones have Program definitions whose obligations, one at least, are all
\* proved before anything else is started, "both" do both, and "any" is any
\* text at all, accepted by coqc or not, of which coqc is not asked.
Legal(condition) == style = "any" \/ condition
Nestable == ~ CoqInProof \/ style \in {"nested", "both"}
Settled == pending = 0 \/ (style = "both" /\ CoqInProof)
WithPrograms == style \in {"program", "both"}

CoqKeep == UNCHANGED <<coq, pending>>
CoqPush(c) == coq' = IF style = "any" THEN coq ELSE <<c>> \o coq
CoqPop == coq' = IF style = "any" THEN coq ELSE Tail(coq)

\* How deep the file may still nest.
Room == Len(coq) < MaxDepth /\ Len(ctx) <= MaxDepth

----------------------------------------------------------------------------
(* The sentences of a file, each as the linter and coqc see it.            *)

Go == verdict # "raised" /\ UNCHANGED style

Statement ==
    /\ Go /\ Room /\ Legal(Nestable /\ Settled)
    /\ LintStatement
    /\ CoqPush("proof") /\ UNCHANGED pending

StatementAndProof ==
    /\ Go /\ Legal(Nestable /\ Settled)
    /\ LintStatementAndProof
    /\ CoqKeep

Program(n) ==
    /\ Go /\ Room
    /\ Legal(WithPrograms /\ ~ CoqInProof /\ pending = 0 /\ n > 0)
    /\ \E elide \in BOOLEAN : LintProgram(elide)
    /\ pending' = n /\ UNCHANGED coq

ProofLine ==
    /\ Go /\ Legal(CoqInProof)
    /\ LintProofBegin(FALSE)
    /\ CoqKeep

NextObligation ==
    /\ Go /\ Room /\ Legal(~ CoqInProof /\ pending > 0)
    /\ LintProofBegin(TRUE)
    /\ CoqPush("proof")
    /\ pending' = IF pending > 0 THEN pending - 1 ELSE pending

\* A whole proof on one line, of the statement before it or of an obligation.
OneLiner ==
    /\ Go
    /\ LintOneLiner
    /\ \/ Legal(CoqInProof) /\ CoqPop /\ UNCHANGED pending
       \/ Legal(~ CoqInProof) /\ pending > 0
          /\ pending' = pending - 1 /\ UNCHANGED coq

ProofEnd ==
    /\ Go /\ Legal(CoqInProof)
    /\ LintProofEnd
    /\ CoqPop /\ UNCHANGED pending

Open(c) ==
    /\ Go /\ Room /\ Legal(~ CoqInProof /\ Settled)
    /\ Enter(c)
    /\ CoqPush(c) /\ UNCHANGED pending

End ==
    /\ Go /\ Legal(coq # <<>> /\ ~ CoqInProof /\ Settled)
    /\ LintEnd
    /\ CoqPop /\ UNCHANGED pending

\* Everything else: tactics, imports, definitions with a body.
Plain ==
    /\ Go
    /\ LintPlain
    /\ CoqKeep

Next ==
    \/ Statement \/ StatementAndProof \/ ProofLine \/ NextObligation
    \/ OneLiner \/ ProofEnd \/ End \/ Plain
    \/ \E n \in 0..MaxObligation : Program(n)
    \/ \E c \in Container : Open(c)

Spec == Init /\ [][Next]_vars

----------------------------------------------------------------------------
(* What could go wrong.                                                    *)

ProofsIn(s) == {i \in 1..Len(s) : s[i] = "proof"}

\* The two stacks of the linter stay in step on any input whatsoever: the
\* popleft of exit_proof_ctx always finds what enter_proof_ctx has pushed.
StacksAgree == Len(saved) = Cardinality(ProofsIn(ctx))

\* A Program definition whose first obligation is still to come counts as a
\* proof for the linter.
FirstObligation == Head(ctx) = "proof" /\ ~ CoqInProof /\ pending > 0

\* The linter is where coqc is.
InStep ==
    ctx = (IF FirstObligation THEN <<"proof">> ELSE <<>>)
              \o coq \o <<"toplevel">>

\* On what coqc accepts the linter is where coqc is, so that it applies the
\* policy of the right context and takes every obligation for a proof, and it
\* never gives up on such a file.
TracksNesting ==
    style \in {"nested", "program"} => InStep /\ verdict # "raised"

\* linter.py, reset: _nested_proof_stack accounts for Set Nested Proofs
\* Allowed, among the obligations of a Program definition as elsewhere.
NestedProofsAccounted == style = "both" => InStep
============================================================================
