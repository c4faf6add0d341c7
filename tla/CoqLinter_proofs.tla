-------------------------- MODULE CoqLinter_proofs --------------------------
(***************************************************************************)
(* Proofs about CoqLinter.tla, for files of any depth and any number of    *)
(* obligations.                                                            *)
(***************************************************************************)
EXTENDS CoqLinter, FiniteSetTheorems, SequenceTheorems, TLAPS

AllCtx == Ctx \cup {"toplevel"}
Base(s) == s \o <<"toplevel">>

----------------------------------------------------------------------------
(* Stacks.                                                                 *)

\* Pushing and popping are inverse to each other.
LEMMA PushPop ==
    ASSUME NEW T, NEW s \in Seq(T), NEW x \in T
    PROVE  LET r == <<x>> \o s
           IN  /\ r \in Seq(T) /\ r # <<>>
               /\ Head(r) = x /\ Tail(r) = s
               /\ Len(r) = Len(s) + 1
               /\ r[1] = x /\ \A i \in 1..Len(s) : r[i + 1] = s[i]
<1> DEFINE r == <<x>> \o s
<1>1. /\ r \in Seq(T) /\ Len(r) = Len(s) + 1
      /\ r[1] = x /\ \A i \in 1..Len(s) : r[i + 1] = s[i]
    <2>1. <<x>> \in Seq(T) /\ Len(<<x>>) = 1 /\ <<x>>[1] = x
        OBVIOUS
    <2>2. Len(s) \in Nat
        BY LenProperties
    <2> HIDE DEF r
    <2>3. /\ r \in Seq(T) /\ Len(r) = 1 + Len(s)
          /\ \A i \in 1..(1 + Len(s)) :
                 r[i] = IF i <= 1 THEN <<x>>[i] ELSE s[i - 1]
        BY <2>1, ConcatProperties DEF r
    <2>4. \A i \in 1..Len(s) : r[i + 1] = s[i]
        <3> SUFFICES ASSUME NEW i \in 1..Len(s)
                     PROVE  r[i + 1] = s[i]
            OBVIOUS
        <3>1. i + 1 \in 1..(1 + Len(s)) /\ ~ (i + 1 <= 1) /\ (i + 1) - 1 = i
            BY <2>2
        <3> QED  BY <3>1, <2>3
    <2> QED  BY <2>1, <2>2, <2>3, <2>4
<1>2. r # <<>> /\ Head(r) = x
    BY <1>1, EmptySeq, LenProperties
<1>3. Tail(r) = s
    <2> HIDE DEF r
    <2>1. Tail(r) \in Seq(T) /\ Len(Tail(r)) = Len(s)
        BY <1>1, <1>2, HeadTailProperties, LenProperties
    <2>2. \A i \in 1..Len(s) : Tail(r)[i] = s[i]
        BY <1>1, <1>2, <2>1, HeadTailProperties
    <2> QED  BY <2>1, <2>2, SeqEqual
<1> QED  BY <1>1, <1>2, <1>3

\* Popping a proof takes one proof from a stack, popping anything else none.
LEMMA PopCounts ==
    ASSUME NEW T, NEW s \in Seq(T), s # <<>>
    PROVE  /\ Cardinality(ProofsIn(s)) =
                  Cardinality(ProofsIn(Tail(s)))
                      + (IF Head(s) = "proof" THEN 1 ELSE 0)
           /\ Cardinality(ProofsIn(Tail(s))) \in Nat
<1> DEFINE P == ProofsIn(Tail(s))
           Q == {i + 1 : i \in P}
<1>1. /\ Len(s) \in Nat \ {0} /\ Tail(s) \in Seq(T)
      /\ Len(Tail(s)) = Len(s) - 1 /\ Head(s) = s[1]
      /\ \A i \in 1..Len(Tail(s)) : Tail(s)[i] = s[i + 1]
    BY EmptySeq, HeadTailProperties
<1>2. IsFiniteSet(P) /\ Cardinality(P) \in Nat
    <2>1. P \subseteq 1..Len(Tail(s)) /\ Len(Tail(s)) \in Int
        BY <1>1 DEF ProofsIn
    <2>2. IsFiniteSet(1..Len(Tail(s)))
        BY <2>1, FS_Interval
    <2> HIDE DEF P
    <2>3. IsFiniteSet(P)
        BY <2>1, <2>2, FS_Subset
    <2> QED  BY <2>3, FS_CardinalityType
<1>3. IsFiniteSet(Q) /\ Cardinality(Q) = Cardinality(P)
    <2> DEFINE f == [i \in P |-> i + 1]
    <2>1. P \subseteq Int
        BY <1>1 DEF ProofsIn
    <2>2. f \in Bijection(P, Q)
        BY <2>1 DEF Bijection, Injection, Surjection, IsInjective
    <2>3. ExistsBijection(P, Q)
        BY <2>2 DEF ExistsBijection
    <2> QED  BY <1>2, <2>3, FS_Bijection
<1>4. ProofsIn(s) = IF Head(s) = "proof" THEN Q \cup {1} ELSE Q
    <2>1. \A i \in Q : i \in 2..Len(s) /\ s[i] = "proof"
        BY <1>1 DEF ProofsIn
    <2>2. \A i \in 2..Len(s) : s[i] = "proof" => i \in Q
        <3> SUFFICES ASSUME NEW i \in 2..Len(s), s[i] = "proof"
                     PROVE  i \in Q
            OBVIOUS
        <3>1. i - 1 \in 1..Len(Tail(s)) /\ (i - 1) + 1 = i
            BY <1>1
        <3>2. Tail(s)[i - 1] = "proof"
            BY <1>1, <3>1
        <3>3. i - 1 \in P
            BY <3>1, <3>2 DEF ProofsIn
        <3> QED  BY <3>1, <3>3
    <2> HIDE DEF Q
    <2>3. \A i \in 1..Len(s) : i = 1 \/ i \in 2..Len(s)
        BY <1>1
    <2>4. 1 \in 1..Len(s) /\ \A i \in 2..Len(s) : i \in 1..Len(s)
        BY <1>1
    <2> QED  BY <1>1, <2>1, <2>2, <2>3, <2>4 DEF ProofsIn
<1>5. 1 \notin Q
    BY <1>1 DEF ProofsIn
<1> HIDE DEF P, Q
<1>6. Cardinality(Q \cup {1}) = Cardinality(Q) + 1
    BY <1>3, <1>5, FS_AddElement
<1>7. Cardinality(ProofsIn(s)) =
          Cardinality(P) + (IF Head(s) = "proof" THEN 1 ELSE 0)
    BY <1>2, <1>3, <1>4, <1>6
<1> QED  BY <1>2, <1>7 DEF P

\* Pushing a proof adds one, pushing anything else none.
LEMMA PushCounts ==
    ASSUME NEW T, NEW s \in Seq(T), NEW x \in T
    PROVE  Cardinality(ProofsIn(<<x>> \o s)) =
               Cardinality(ProofsIn(s)) + (IF x = "proof" THEN 1 ELSE 0)
<1> DEFINE r == <<x>> \o s
<1>1. r \in Seq(T) /\ r # <<>> /\ Head(r) = x /\ Tail(r) = s
    BY PushPop
<1> HIDE DEF r
<1>2. Cardinality(ProofsIn(r)) =
          Cardinality(ProofsIn(s)) + (IF x = "proof" THEN 1 ELSE 0)
    BY <1>1, PopCounts
<1> QED  BY <1>2 DEF r

----------------------------------------------------------------------------
(* Type correctness and the two stacks.                                    *)

\* What the linter remembers is well formed: its innermost contexts lie above
\* the toplevel, and a state of flags is saved for each proof among them.
LinterInv ==
    /\ ctx \in Seq(AllCtx) /\ ctx # <<>>
    /\ ctx[Len(ctx)] = "toplevel"
    /\ \A i \in 1..(Len(ctx) - 1) : ctx[i] \in Ctx
    /\ saved \in Seq(Flags) /\ flags \in Flags
    /\ nextObl \in BOOLEAN
    /\ verdict \in {"start", "context", "policy", "raised"}
    /\ StacksAgree

\* What a sentence may do to the linter.
Keeps ==
    /\ UNCHANGED <<ctx, saved>>
    /\ flags' \in Flags /\ nextObl' \in BOOLEAN
    /\ verdict' \in {"context", "policy", "raised"}
Leaves ==
    /\ Head(ctx) \in Container /\ ctx' = Tail(ctx)
    /\ verdict' = "context"
    /\ UNCHANGED <<saved, flags, nextObl>>

LEMMA NamesApart ==
    /\ Container \subseteq Ctx /\ "proof" \in Ctx /\ "toplevel" \notin Ctx
    /\ "proof" \notin Container
BY LinterAssumption DEF Ctx

\* Entering a context that is no toplevel leaves the stack well formed.
LEMMA PushedCtx ==
    ASSUME LinterInv, NEW c \in Ctx, ctx' = <<c>> \o ctx
    PROVE  /\ ctx' \in Seq(AllCtx) /\ ctx' # <<>>
           /\ ctx'[Len(ctx')] = "toplevel"
           /\ \A i \in 1..(Len(ctx') - 1) : ctx'[i] \in Ctx
           /\ Cardinality(ProofsIn(ctx')) =
                  Cardinality(ProofsIn(ctx)) + (IF c = "proof" THEN 1 ELSE 0)
<1>1. ctx \in Seq(AllCtx) /\ c \in AllCtx /\ Len(ctx) \in Nat \ {0}
    BY EmptySeq DEF LinterInv, AllCtx
<1>2. /\ ctx' \in Seq(AllCtx) /\ ctx' # <<>> /\ Len(ctx') = Len(ctx) + 1
      /\ ctx'[1] = c /\ \A i \in 1..Len(ctx) : ctx'[i + 1] = ctx[i]
    BY <1>1, PushPop
<1>3. ctx'[Len(ctx')] = "toplevel"
    BY <1>1, <1>2 DEF LinterInv
<1>4. ASSUME NEW i \in 1..(Len(ctx') - 1)
      PROVE  ctx'[i] \in Ctx
    <2>1. CASE i = 1
        BY <2>1, <1>2
    <2>2. CASE i # 1
        <3>1. i - 1 \in 1..(Len(ctx) - 1) /\ i - 1 \in 1..Len(ctx)
              /\ (i - 1) + 1 = i
            BY <2>2, <1>1, <1>2
        <3> QED  BY <3>1, <1>2 DEF LinterInv
    <2> QED  BY <2>1, <2>2
<1>5. Cardinality(ProofsIn(ctx')) =
          Cardinality(ProofsIn(ctx)) + (IF c = "proof" THEN 1 ELSE 0)
    BY <1>1, PushCounts
<1> QED  BY <1>2, <1>3, <1>4, <1>5

\* So does leaving one.
LEMMA PoppedCtx ==
    ASSUME LinterInv, Head(ctx) \in Ctx, ctx' = Tail(ctx)
    PROVE  /\ ctx' \in Seq(AllCtx) /\ ctx' # <<>>
           /\ ctx'[Len(ctx')] = "toplevel"
           /\ \A i \in 1..(Len(ctx') - 1) : ctx'[i] \in Ctx
           /\ Cardinality(ProofsIn(ctx)) =
                  Cardinality(ProofsIn(ctx'))
                      + (IF Head(ctx) = "proof" THEN 1 ELSE 0)
           /\ Cardinality(ProofsIn(ctx')) \in Nat
<1>1. ctx \in Seq(AllCtx) /\ ctx # <<>> /\ Len(ctx) \in Nat \ {0}
    BY EmptySeq DEF LinterInv
<1>2. /\ ctx' \in Seq(AllCtx) /\ Len(ctx') = Len(ctx) - 1
      /\ \A i \in 1..Len(ctx') : ctx'[i] = ctx[i + 1]
      /\ Head(ctx) = ctx[1]
    BY <1>1, HeadTailProperties
<1>3. Len(ctx) # 1
    BY <1>2, NamesApart DEF LinterInv
<1>4. ctx' # <<>> /\ Len(ctx') \in Nat \ {0}
    <2>1. Len(ctx') \in Nat \ {0}
        BY <1>1, <1>2, <1>3
    <2>2. Len(<<>>) = 0
        BY EmptySeq
    <2> QED  BY <2>1, <2>2
<1>5. ctx'[Len(ctx')] = "toplevel"
    BY <1>1, <1>2, <1>4 DEF LinterInv
<1>6. ASSUME NEW i \in 1..(Len(ctx') - 1)
      PROVE  ctx'[i] \in Ctx
    <2>1. i \in 1..Len(ctx') /\ i + 1 \in 1..(Len(ctx) - 1)
        BY <1>1, <1>2
    <2> QED  BY <2>1, <1>2 DEF LinterInv
<1>7. /\ Cardinality(ProofsIn(ctx)) =
             Cardinality(ProofsIn(ctx'))
                 + (IF Head(ctx) = "proof" THEN 1 ELSE 0)
      /\ Cardinality(ProofsIn(ctx')) \in Nat
    BY <1>1, PopCounts
<1> QED  BY <1>2, <1>4, <1>5, <1>6, <1>7

LEMMA EnterKeepsInv ==
    ASSUME LinterInv, NEW c \in Container, Enter(c)
    PROVE  LinterInv'
<1>1. c \in Ctx /\ c # "proof" /\ ctx' = <<c>> \o ctx
    BY NamesApart DEF Enter
<1>2. UNCHANGED <<saved, flags, nextObl>> /\ verdict' = "context"
    BY DEF Enter
<1>3. StacksAgree'
    <2>1. Cardinality(ProofsIn(ctx')) = Cardinality(ProofsIn(ctx)) + 0
        BY <1>1, PushedCtx
    <2>2. Len(saved) \in Nat
        BY LenProperties DEF LinterInv
    <2> QED  BY <2>1, <2>2, <1>2 DEF LinterInv, StacksAgree
<1> QED  BY <1>1, <1>2, <1>3, PushedCtx DEF LinterInv

LEMMA EnterProofKeepsInv ==
    ASSUME LinterInv, NEW f \in Flags, EnterProof(f)
    PROVE  LinterInv'
<1>1. /\ ctx' = <<"proof">> \o ctx /\ saved' = <<flags>> \o saved
      /\ flags' = f /\ nextObl' = FALSE /\ verdict' = "context"
    BY DEF EnterProof
<1>2. saved' \in Seq(Flags) /\ Len(saved') = Len(saved) + 1
    BY <1>1, PushPop DEF LinterInv
<1>3. StacksAgree'
    <2>1. Cardinality(ProofsIn(ctx')) = Cardinality(ProofsIn(ctx)) + 1
        BY <1>1, NamesApart, PushedCtx
    <2> QED  BY <2>1, <1>2 DEF LinterInv, StacksAgree
<1> QED  BY <1>1, <1>2, <1>3, NamesApart, PushedCtx DEF LinterInv

LEMMA ExitProofKeepsInv ==
    ASSUME LinterInv, InProof, ExitProof
    PROVE  LinterInv'
<1>1. /\ ctx' = Tail(ctx) /\ saved' = Tail(saved)
      /\ flags' \in Flags /\ nextObl' \in BOOLEAN /\ verdict' = "context"
    BY DEF ExitProof, LinterInv, Flags
<1>2. Head(ctx) = "proof" /\ Head(ctx) \in Ctx
    BY NamesApart DEF InProof
<1>3. /\ Cardinality(ProofsIn(ctx)) = Cardinality(ProofsIn(ctx')) + 1
      /\ Cardinality(ProofsIn(ctx')) \in Nat
    BY <1>1, <1>2, PoppedCtx
<1>4. Len(saved) # 0 /\ saved # <<>>
    BY <1>3, EmptySeq DEF LinterInv, StacksAgree
<1>5. saved' \in Seq(Flags) /\ Len(saved') = Len(saved) - 1
    BY <1>1, <1>4, HeadTailProperties DEF LinterInv
<1>6. StacksAgree'
    BY <1>3, <1>5 DEF LinterInv, StacksAgree
<1> QED  BY <1>1, <1>2, <1>5, <1>6, PoppedCtx DEF LinterInv

LEMMA LeavesKeepsInv ==
    ASSUME LinterInv, Leaves
    PROVE  LinterInv'
<1>1. Head(ctx) \in Ctx /\ Head(ctx) # "proof" /\ ctx' = Tail(ctx)
    BY NamesApart DEF Leaves
<1>2. UNCHANGED <<saved, flags, nextObl>> /\ verdict' = "context"
    BY DEF Leaves
<1>3. StacksAgree'
    <2>1. /\ Cardinality(ProofsIn(ctx)) = Cardinality(ProofsIn(ctx')) + 0
          /\ Cardinality(ProofsIn(ctx')) \in Nat
        BY <1>1, PoppedCtx
    <2> QED  BY <2>1, <1>2 DEF LinterInv, StacksAgree
<1> QED  BY <1>1, <1>2, <1>3, PoppedCtx DEF LinterInv

LEMMA KeepsKeepsInv ==
    ASSUME LinterInv, Keeps
    PROVE  LinterInv'
BY DEF LinterInv, Keeps, StacksAgree

\* Every sentence does one of these things to the linter.
LEMMA LinterMoves ==
    ASSUME LinterInv, Next
    PROVE  \/ Keeps \/ Leaves
           \/ InProof /\ ExitProof
           \/ \E c \in Container : Enter(c)
           \/ \E f \in Flags : EnterProof(f)
<1> USE DEF LinterInv, Keeps, Flags
<1>1. \A p, e \in BOOLEAN : NewFlags(p, e) \in Flags
    BY DEF NewFlags
<1>2. CheckPolicy => Keeps
    BY DEF CheckPolicy
<1>3. Ignore => Keeps
    BY DEF Ignore
<1>4. Raise => Keeps
    BY DEF Raise
<1>5. LintPlain => Keeps
    BY <1>2, <1>3 DEF LintPlain
<1>6. CASE Statement
    BY <1>6, <1>1 DEF Statement, LintStatement
<1>7. CASE StatementAndProof
    BY <1>7 DEF StatementAndProof, LintStatementAndProof, NewFlags
<1>8. ASSUME NEW n \in 0..MaxObligation, Program(n)
      PROVE  \E f \in Flags : EnterProof(f)
    BY <1>8, <1>1 DEF Program, LintProgram
<1>9. ASSUME NEW next \in BOOLEAN, LintProofBegin(next)
      PROVE  Keeps \/ \E f \in Flags : EnterProof(f)
    BY <1>9, <1>5 DEF LintProofBegin, NewFlags
<1>10. CASE OneLiner
    BY <1>10, <1>3 DEF OneLiner, LintOneLiner
<1>11. CASE ProofEnd
    BY <1>11, <1>3, <1>4 DEF ProofEnd, LintProofEnd
<1>12. CASE End
    BY <1>12, <1>4 DEF End, LintEnd, Leaves
<1>13. CASE Plain
    BY <1>13, <1>5 DEF Plain
<1>14. CASE ProofLine \/ NextObligation
    BY <1>14, <1>9 DEF ProofLine, NextObligation
<1>15. ASSUME NEW c \in Container, Open(c)
       PROVE  Enter(c)
    BY <1>15 DEF Open
<1> QED  BY <1>6, <1>7, <1>8, <1>10, <1>11, <1>12, <1>13, <1>14, <1>15
         DEF Next

LEMMA LinterInvStep ==
    ASSUME LinterInv, [Next]_vars
    PROVE  LinterInv'
<1>1. CASE UNCHANGED vars
    BY <1>1 DEF LinterInv, vars, StacksAgree
<1>2. CASE Next
    BY <1>2, LinterMoves, EnterKeepsInv, EnterProofKeepsInv,
       ExitProofKeepsInv, LeavesKeepsInv, KeepsKeepsInv
<1> QED  BY <1>1, <1>2

LEMMA InitLinterInv ==
    ASSUME Init
    PROVE  LinterInv
<1>1. ctx = <<"toplevel">> /\ saved = <<>>
    BY DEF Init
<1>2. /\ ctx \in Seq(AllCtx) /\ Len(ctx) = 1 /\ ctx # <<>>
      /\ ctx[1] = "toplevel" /\ 1..(Len(ctx) - 1) = {}
    BY <1>1 DEF AllCtx
<1>3. saved \in Seq(Flags) /\ Len(saved) = 0
    BY <1>1, EmptySeq
<1>4. ProofsIn(ctx) = {}
    BY <1>2 DEF ProofsIn
<1>5. StacksAgree
    BY <1>3, <1>4, FS_EmptySet DEF StacksAgree
<1>6. /\ flags \in Flags /\ nextObl \in BOOLEAN
      /\ verdict \in {"start", "context", "policy", "raised"}
    BY DEF Init, NewFlags, Flags
<1> QED  BY <1>2, <1>3, <1>5, <1>6 DEF LinterInv

\* What the model keeps of coqc is well formed too.
CoqInv ==
    /\ style \in Styles
    /\ coq \in Seq(Ctx)
    /\ pending \in 0..MaxObligation

LEMMA CoqInvStep ==
    ASSUME CoqInv, [Next]_vars
    PROVE  CoqInv'
<1> USE DEF CoqInv
<1>1. CASE UNCHANGED vars
    BY <1>1 DEF vars
<1>2. \A c \in Ctx : CoqPush(c) => coq' \in Seq(Ctx)
    BY PushPop DEF CoqPush
<1>3. (style = "any" \/ coq # <<>>) /\ CoqPop => coq' \in Seq(Ctx)
    BY HeadTailProperties DEF CoqPop
<1>4. Legal(CoqInProof) => style = "any" \/ coq # <<>>
    BY DEF Legal, CoqInProof
<1>5. CASE Statement
    BY <1>5, <1>2, NamesApart DEF Statement, Go
<1>6. CASE StatementAndProof
    BY <1>6 DEF StatementAndProof, Go, CoqKeep
<1>7. ASSUME NEW n \in 0..MaxObligation, Program(n)
      PROVE  CoqInv'
    BY <1>7 DEF Program, Go
<1>8. CASE ProofLine
    BY <1>8 DEF ProofLine, Go, CoqKeep
<1>9. CASE NextObligation
    <2>1. pending' \in 0..MaxObligation
        BY <1>9, LinterAssumption DEF NextObligation
    <2> QED  BY <1>9, <2>1, <1>2, NamesApart DEF NextObligation, Go
<1>10. CASE OneLiner
    <2>1. CASE Legal(CoqInProof) /\ CoqPop /\ UNCHANGED pending
        BY <2>1, <1>10, <1>3, <1>4 DEF OneLiner, Go
    <2>2. CASE pending > 0 /\ pending' = pending - 1 /\ UNCHANGED coq
        <3>1. pending' \in 0..MaxObligation
            BY <2>2, LinterAssumption
        <3> QED  BY <2>2, <3>1, <1>10 DEF OneLiner, Go
    <2> QED  BY <1>10, <2>1, <2>2 DEF OneLiner
<1>11. CASE ProofEnd
    BY <1>11, <1>3, <1>4 DEF ProofEnd, Go
<1>12. CASE End
    BY <1>12, <1>3 DEF End, Go, Legal
<1>13. CASE Plain
    BY <1>13 DEF Plain, Go, CoqKeep
<1>14. ASSUME NEW c \in Container, Open(c)
       PROVE  CoqInv'
    BY <1>14, <1>2, NamesApart DEF Open, Go
<1> QED  BY <1>1, <1>5, <1>6, <1>7, <1>8, <1>9, <1>10, <1>11, <1>12, <1>13,
            <1>14 DEF Next

LEMMA InitCoqInv ==
    ASSUME Init
    PROVE  CoqInv
BY LinterAssumption, EmptySeq DEF Init, CoqInv

\* What a linter remembers is well formed on any file whatsoever, however deep
\* and however many obligations it has.
THEOREM TypeCorrect == Spec => []TypeOK
<1>1. Init => LinterInv /\ CoqInv
    BY InitLinterInv, InitCoqInv
<1>2. LinterInv /\ CoqInv /\ [Next]_vars => (LinterInv /\ CoqInv)'
    BY LinterInvStep, CoqInvStep
<1>3. LinterInv /\ CoqInv => TypeOK
    BY DEF LinterInv, CoqInv, TypeOK, AllCtx
<1> QED  BY <1>1, <1>2, <1>3, PTL DEF Spec

\* On any text, accepted by coqc or not, a state of flags is saved for each
\* proof on the stack of contexts: exit_proof_ctx never pops an empty stack.
THEOREM StacksStayInStep == Spec => []StacksAgree
<1>1. Init => LinterInv
    BY InitLinterInv
<1>2. LinterInv /\ [Next]_vars => LinterInv'
    BY LinterInvStep
<1>3. LinterInv => StacksAgree
    BY DEF LinterInv
<1> QED  BY <1>1, <1>2, <1>3, PTL DEF Spec

----------------------------------------------------------------------------
(* On what coqc accepts the linter is where coqc is.                       *)

\* The linter sees what coqc sees, or a proof more: it takes the time between a
\* Program definition and its first obligation for one.
Inside == ctx = Base(coq)
Awaiting == ctx = <<"proof">> \o Base(coq) /\ ~ CoqInProof /\ pending > 0

\* Why it stays there: in a file with Program definitions, while obligations
\* are open, the flags of a proof know of them, and after it the flag that
\* announces the next one does; no proof is nested in another, whose flags
\* would be those.
TrackInv ==
    style \in {"nested", "program"} =>
        /\ Inside \/ Awaiting
        /\ verdict # "raised"
        /\ style = "nested" => pending = 0
        /\ style = "program" =>
              /\ \A i \in 2..Len(coq) : coq[i] # "proof"
              /\ InProof => ~ nextObl
              /\ pending > 0 => IF InProof THEN flags.program ELSE nextObl

LEMMA BaseFacts ==
    ASSUME NEW s \in Seq(Ctx)
    PROVE  /\ Base(s) \in Seq(AllCtx) /\ Base(s) # <<>>
           /\ Head(Base(s)) = IF s = <<>> THEN "toplevel" ELSE Head(s)
           /\ s # <<>> => Tail(Base(s)) = Base(Tail(s))
           /\ \A c \in Ctx : Base(<<c>> \o s) = <<c>> \o Base(s)
<1>1. /\ s \in Seq(AllCtx) /\ Len(s) \in Nat
      /\ <<"toplevel">> \in Seq(AllCtx) /\ Len(<<"toplevel">>) = 1
      /\ <<"toplevel">>[1] = "toplevel"
    <2>1. s \in Seq(AllCtx)
        BY SeqMonotonic DEF AllCtx
    <2>2. "toplevel" \in AllCtx
        BY DEF AllCtx
    <2> QED  BY <2>1, <2>2, LenProperties
<1>2. /\ Base(s) \in Seq(AllCtx) /\ Len(Base(s)) = Len(s) + 1
      /\ \A i \in 1..(Len(s) + 1) :
             Base(s)[i] = IF i <= Len(s) THEN s[i] ELSE "toplevel"
    <2>1. /\ Base(s) \in Seq(AllCtx) /\ Len(Base(s)) = Len(s) + 1
          /\ \A i \in 1..(Len(s) + 1) :
                 Base(s)[i] = IF i <= Len(s) THEN s[i]
                              ELSE <<"toplevel">>[i - Len(s)]
        BY <1>1, ConcatProperties DEF Base
    <2>2. \A i \in 1..(Len(s) + 1) : ~ (i <= Len(s)) => i - Len(s) = 1
        BY <1>1
    <2> QED  BY <2>1, <2>2, <1>1
<1>3. Base(s) # <<>>
    BY <1>1, <1>2, EmptySeq
<1>4. Head(Base(s)) = IF s = <<>> THEN "toplevel" ELSE Head(s)
    <2>1. Head(Base(s)) = Base(s)[1]
        BY <1>2, <1>3
    <2>2. CASE s = <<>>
        <3>1. Len(s) = 0
            BY <2>2, EmptySeq
        <3> QED  BY <2>1, <2>2, <3>1, <1>2
    <2>3. CASE s # <<>>
        <3>1. Len(s) \in Nat \ {0} /\ Head(s) = s[1]
            BY <2>3, EmptySeq
        <3> QED  BY <2>1, <2>3, <3>1, <1>2
    <2> QED  BY <2>2, <2>3
<1>5. ASSUME NEW c \in Ctx
      PROVE  Base(<<c>> \o s) = <<c>> \o Base(s)
    <2>1. <<c>> \in Seq(AllCtx)
        BY DEF AllCtx
    <2> QED  BY <2>1, <1>1, ConcatAssociative DEF Base
<1>6. ASSUME s # <<>>
      PROVE  Tail(Base(s)) = Base(Tail(s))
    <2>1. Head(s) \in Ctx /\ Tail(s) \in Seq(Ctx) /\ s = <<Head(s)>> \o Tail(s)
        <3>1. Head(s) \in Ctx /\ Tail(s) \in Seq(Ctx) /\ Len(s) \in Nat \ {0}
              /\ Len(Tail(s)) = Len(s) - 1 /\ Head(s) = s[1]
              /\ \A i \in 1..Len(Tail(s)) : Tail(s)[i] = s[i + 1]
            BY <1>6, HeadTailProperties, EmptySeq
        <3> DEFINE r == <<Head(s)>> \o Tail(s)
        <3>2. /\ r \in Seq(Ctx) /\ Len(r) = Len(s)
              /\ r[1] = Head(s) /\ \A i \in 1..Len(Tail(s)) : r[i + 1] = s[i + 1]
            BY <3>1, PushPop
        <3> HIDE DEF r
        <3>3. \A i \in 1..Len(s) : r[i] = s[i]
            <4> SUFFICES ASSUME NEW i \in 1..Len(s)
                         PROVE  r[i] = s[i]
                OBVIOUS
            <4>1. CASE i = 1
                BY <4>1, <3>1, <3>2
            <4>2. CASE i # 1
                <5>1. i - 1 \in 1..Len(Tail(s)) /\ (i - 1) + 1 = i
                    BY <4>2, <3>1
                <5> QED  BY <5>1, <3>2
            <4> QED  BY <4>1, <4>2
        <3>4. r = s
            BY <3>2, <3>3, SeqEqual
        <3> QED  BY <3>1, <3>4 DEF r
    <2>2. Tail(s) \in Seq(AllCtx) /\ Head(s) \in AllCtx
        BY <2>1, SeqMonotonic DEF AllCtx
    <2>3. Base(Tail(s)) \in Seq(AllCtx)
        BY <2>2, <1>1, ConcatProperties DEF Base
    <2>4. Base(s) = <<Head(s)>> \o Base(Tail(s))
        <3>1. <<Head(s)>> \in Seq(AllCtx)
            BY <2>2
        <3>2. (<<Head(s)>> \o Tail(s)) \o <<"toplevel">> =
                  <<Head(s)>> \o (Tail(s) \o <<"toplevel">>)
            BY <3>1, <2>2, <1>1, ConcatAssociative
        <3> QED  BY <3>2, <2>1 DEF Base
    <2> QED  BY <2>2, <2>3, <2>4, PushPop
<1> QED  BY <1>2, <1>3, <1>4, <1>5, <1>6

\* Where coqc is in no proof, a push leaves none below the top.
LEMMA NoneBelowPush ==
    ASSUME NEW q \in Seq(Ctx), NEW c \in Ctx,
           ~ (q # <<>> /\ Head(q) = "proof"),
           \A i \in 2..Len(q) : q[i] # "proof"
    PROVE  \A i \in 2..Len(<<c>> \o q) : (<<c>> \o q)[i] # "proof"
<1> DEFINE r == <<c>> \o q
<1>1. Len(r) = Len(q) + 1 /\ \A i \in 1..Len(q) : r[i + 1] = q[i]
    BY PushPop
<1> HIDE DEF r
<1>2. Len(q) \in Nat
    BY LenProperties
<1>3. ASSUME NEW i \in 2..Len(r)
      PROVE  r[i] # "proof"
    <2>1. i - 1 \in 1..Len(q) /\ (i - 1) + 1 = i
        BY <1>1, <1>2
    <2>2. r[i] = q[i - 1]
        BY <2>1, <1>1
    <2>3. CASE i - 1 = 1
        <3>1. q # <<>>
            BY <2>1, EmptySeq
        <3>2. Head(q) = q[1]
            BY <3>1
        <3> QED  BY <2>2, <2>3, <3>1, <3>2
    <2>4. CASE i - 1 # 1
        BY <2>1, <2>2, <2>4, <1>2
    <2> QED  BY <2>3, <2>4
<1> QED  BY <1>3 DEF r

\* If there is none below the top, a pop leaves none at all.
LEMMA NoneLeftByPop ==
    ASSUME NEW q \in Seq(Ctx), q # <<>>,
           \A i \in 2..Len(q) : q[i] # "proof"
    PROVE  /\ \A i \in 2..Len(Tail(q)) : Tail(q)[i] # "proof"
           /\ Tail(q) # <<>> => Head(Tail(q)) # "proof"
<1>1. /\ Tail(q) \in Seq(Ctx) /\ Len(Tail(q)) = Len(q) - 1
      /\ \A i \in 1..Len(Tail(q)) : Tail(q)[i] = q[i + 1]
      /\ Len(q) \in Nat \ {0}
    BY HeadTailProperties, EmptySeq
<1>2. ASSUME NEW i \in 1..Len(Tail(q))
      PROVE  Tail(q)[i] # "proof"
    <2>1. i + 1 \in 2..Len(q)
        BY <1>1
    <2> QED  BY <2>1, <1>1
<1>3. \A i \in 2..Len(Tail(q)) : i \in 1..Len(Tail(q))
    BY <1>1
<1>4. ASSUME Tail(q) # <<>>
      PROVE  Head(Tail(q)) # "proof"
    <2>1. Len(Tail(q)) \in Nat \ {0} /\ Head(Tail(q)) = Tail(q)[1]
        BY <1>1, <1>4, EmptySeq
    <2>2. \A n \in Nat \ {0} : 1 \in 1..n
        OBVIOUS
    <2>3. Tail(q)[1] # "proof"
        BY <2>1, <2>2, <1>2
    <2> QED  BY <2>1, <2>3
<1> QED  BY <1>2, <1>3, <1>4

\* What the linter takes itself to be in, in either case.
LEMMA WhereItIs ==
    ASSUME CoqInv
    PROVE  /\ Inside => /\ InProof <=> CoqInProof
                        /\ coq # <<>> => /\ Head(ctx) = Head(coq)
                                         /\ Tail(ctx) = Base(Tail(coq))
           /\ Awaiting => InProof /\ Tail(ctx) = Base(coq)
<1>1. coq \in Seq(Ctx)
    BY DEF CoqInv
<1>2. Inside => /\ InProof <=> CoqInProof
                /\ coq # <<>> => /\ Head(ctx) = Head(coq)
                                 /\ Tail(ctx) = Base(Tail(coq))
    BY <1>1, BaseFacts DEF Inside, InProof, CoqInProof
<1>3. Awaiting => InProof /\ Tail(ctx) = Base(coq)
    <2>1. Base(coq) \in Seq(AllCtx) /\ "proof" \in AllCtx
        BY <1>1, BaseFacts DEF AllCtx, Ctx
    <2> QED  BY <2>1, PushPop DEF Awaiting, InProof
<1> QED  BY <1>2, <1>3

LEMMA TrackInvStep ==
    ASSUME LinterInv, CoqInv, TrackInv, [Next]_vars
    PROVE  TrackInv'
<1>1. CASE UNCHANGED vars
    BY <1>1 DEF vars, TrackInv, Inside, Awaiting, InProof, CoqInProof
<1> SUFFICES ASSUME Next, style' \in {"nested", "program"}
             PROVE  TrackInv'
    BY <1>1 DEF TrackInv
<1>2. Go
    BY DEF Next, Statement, StatementAndProof, Program, ProofLine,
           NextObligation, OneLiner, ProofEnd, Open, End, Plain
<1>3. /\ style' = style /\ style \in {"nested", "program"}
      /\ \A condition \in BOOLEAN : Legal(condition) => condition
    BY <1>2 DEF Go, Legal
<1>4. /\ coq \in Seq(Ctx) /\ pending \in Nat
      /\ flags \in Flags /\ nextObl \in BOOLEAN
    BY LinterAssumption DEF CoqInv, LinterInv
<1>5. /\ Inside \/ Awaiting
      /\ style = "nested" => pending = 0
      /\ style = "program" =>
            /\ \A i \in 2..Len(coq) : coq[i] # "proof"
            /\ InProof => ~ nextObl
            /\ pending > 0 => IF InProof THEN flags.program ELSE nextObl
    BY <1>3 DEF TrackInv
<1>6. /\ Inside => /\ InProof <=> CoqInProof
                   /\ coq # <<>> => /\ Head(ctx) = Head(coq)
                                    /\ Tail(ctx) = Base(Tail(coq))
      /\ Awaiting => /\ InProof /\ ~ CoqInProof /\ pending > 0
                     /\ Tail(ctx) = Base(coq) /\ style = "program"
    BY <1>3, <1>4, <1>5, WhereItIs DEF Awaiting
<1>7. Settled => pending = 0 /\ Inside
    BY <1>3, <1>4, <1>5, <1>6 DEF Settled
<1>8. CoqInProof => Inside /\ InProof
    BY <1>5, <1>6
\* Entering something where coqc is in no proof.
<1>9. ASSUME NEW c \in Ctx, Inside, ctx' = <<c>> \o ctx, coq' = <<c>> \o coq
      PROVE  Inside' /\ (InProof' <=> c = "proof")
    <2>1. Base(coq') = <<c>> \o Base(coq)
        BY <1>4, <1>9, BaseFacts
    <2>2. ctx \in Seq(AllCtx) /\ c \in AllCtx
        BY DEF LinterInv, AllCtx
    <2>3. Head(ctx') = c
        BY <2>2, <1>9, PushPop
    <2> QED  BY <2>1, <2>3, <1>9 DEF Inside, InProof
\* Leaving the proof coqc is in: the linter announces further obligations.
<1>10. ASSUME CoqInProof, ExitProof, coq' = Tail(coq), pending' = pending
       PROVE  TrackInv'
    <2>1. Inside' /\ coq' \in Seq(Ctx) /\ coq # <<>>
        BY <1>10, <1>4, <1>6, <1>8, HeadTailProperties
           DEF ExitProof, Inside, CoqInProof
    <2>2. nextObl' = (nextObl \/ flags.program) /\ verdict' = "context"
        BY <1>10 DEF ExitProof
    <2>3. CASE style = "nested"
        BY <2>1, <2>2, <2>3, <1>3, <1>5, <1>10 DEF TrackInv
    <2>4. CASE style = "program"
        <3>1. /\ \A i \in 2..Len(coq') : coq'[i] # "proof"
              /\ coq' # <<>> => Head(coq') # "proof"
            BY <2>1, <2>4, <1>4, <1>5, <1>10, NoneLeftByPop
        <3>2. Head(ctx') = IF coq' = <<>> THEN "toplevel" ELSE Head(coq')
            BY <2>1, BaseFacts DEF Inside
        <3>3. ~ InProof'
            BY <3>1, <3>2 DEF InProof
        <3>4. pending' > 0 => nextObl'
            BY <2>2, <2>4, <1>5, <1>8, <1>10
        <3> QED  BY <2>1, <2>2, <2>4, <3>1, <3>3, <3>4, <1>3 DEF TrackInv
    <2> QED  BY <2>3, <2>4, <1>3
\* Nothing is entered or left, by either.
<1>11. ASSUME UNCHANGED <<ctx, coq, pending, nextObl>>, verdict' # "raised",
              flags'.program = flags.program
       PROVE  TrackInv'
    <2>1. (Inside \/ Awaiting)' /\ (InProof' <=> InProof)
        BY <1>5, <1>11 DEF Inside, Awaiting, CoqInProof, InProof
    <2> QED  BY <2>1, <1>3, <1>5, <1>11 DEF TrackInv
\* coqc and the linter enter the same.
<1>12. ASSUME NEW c \in Ctx, Inside, ~ CoqInProof \/ style = "nested",
              ctx' = <<c>> \o ctx, coq' = <<c>> \o coq, verdict' = "context",
              style = "program" => /\ c = "proof" => ~ nextObl'
                                   /\ pending' > 0 => /\ c = "proof"
                                                      /\ flags'.program,
              style = "nested" => pending' = 0
       PROVE  TrackInv'
    <2>1. Inside' /\ (InProof' <=> c = "proof")
        BY <1>9, <1>12
    <2>2. style = "program" => \A i \in 2..Len(coq') : coq'[i] # "proof"
        BY <1>4, <1>5, <1>12, NoneBelowPush DEF CoqInProof
    <2> QED  BY <2>1, <2>2, <1>3, <1>12 DEF TrackInv
<1>13. CASE Statement
    <2>1. /\ Nestable /\ Settled /\ CoqPush("proof") /\ UNCHANGED pending
          /\ EnterProof(NewFlags(FALSE, TRUE))
        BY <1>13, <1>3 DEF Statement, Legal, LintStatement
    <2>2. /\ coq' = <<"proof">> \o coq /\ ctx' = <<"proof">> \o ctx
          /\ nextObl' = FALSE /\ verdict' = "context" /\ pending' = 0
          /\ Inside /\ (~ CoqInProof \/ style = "nested")
        BY <2>1, <1>3, <1>7 DEF CoqPush, EnterProof, Nestable
    <2> QED  BY <2>2, <1>12, NamesApart
<1>14. CASE StatementAndProof
    <2>1. Settled /\ UNCHANGED <<ctx, coq, pending>> /\ nextObl' = FALSE
          /\ verdict' = "context"
        BY <1>14, <1>3 DEF StatementAndProof, LintStatementAndProof, CoqKeep,
                           Legal
    <2>2. Inside' /\ pending' = 0
        BY <2>1, <1>7 DEF Inside
    <2>3. style = "program" => \A i \in 2..Len(coq') : coq'[i] # "proof"
        BY <2>1, <1>5
    <2> QED  BY <2>1, <2>2, <2>3, <1>3 DEF TrackInv
<1>15. ASSUME NEW n \in 0..MaxObligation, Program(n)
       PROVE  TrackInv'
    <2>1. PICK elide \in BOOLEAN : LintProgram(elide)
        BY <1>15 DEF Program
    <2>2. /\ style = "program" /\ ~ CoqInProof /\ pending = 0 /\ n > 0
          /\ pending' = n /\ coq' = coq
        BY <1>15, <1>3 DEF Program, Legal, WithPrograms
    <2>3. /\ ctx' = <<"proof">> \o ctx /\ flags'.program /\ nextObl' = FALSE
          /\ verdict' = "context"
        BY <2>1 DEF LintProgram, EnterProof, NewFlags
    <2>4. Inside
        BY <2>2, <1>5, <1>6
    <2>5. Awaiting'
        BY <2>2, <2>3, <2>4 DEF Inside, Awaiting, CoqInProof
    <2>6. InProof'
        <3>1. ctx \in Seq(AllCtx) /\ "proof" \in AllCtx
            BY NamesApart DEF LinterInv, AllCtx
        <3> QED  BY <3>1, <2>3, PushPop DEF InProof
    <2>7. \A i \in 2..Len(coq') : coq'[i] # "proof"
        BY <2>2, <1>5
    <2> QED  BY <2>2, <2>3, <2>5, <2>6, <2>7, <1>3 DEF TrackInv
<1>16. CASE ProofLine
    <2>1. CoqInProof /\ LintProofBegin(FALSE) /\ UNCHANGED <<coq, pending>>
        BY <1>16, <1>3 DEF ProofLine, Legal, CoqKeep
    <2>2. /\ flags' = [flags EXCEPT !.seen = TRUE] /\ verdict' = "context"
          /\ UNCHANGED <<ctx, saved, nextObl>>
        BY <2>1, <1>8 DEF LintProofBegin
    <2>3. flags'.program = flags.program
        BY <2>2, <1>4 DEF Flags
    <2> QED  BY <2>1, <2>2, <2>3, <1>11
<1>17. CASE NextObligation
    <2>1. /\ ~ CoqInProof /\ pending > 0 /\ style = "program"
          /\ LintProofBegin(TRUE)
          /\ coq' = <<"proof">> \o coq /\ pending' = pending - 1
        <3>1. /\ Legal(~ CoqInProof /\ pending > 0) /\ LintProofBegin(TRUE)
              /\ CoqPush("proof")
              /\ pending' = IF pending > 0 THEN pending - 1 ELSE pending
            BY <1>17 DEF NextObligation
        <3>2. ~ CoqInProof /\ pending > 0
            BY <3>1, <1>3 DEF Legal
        <3>3. style = "program"
            BY <3>2, <1>3, <1>5
        <3>4. coq' = <<"proof">> \o coq
            BY <3>1, <1>3 DEF CoqPush
        <3> QED  BY <3>1, <3>2, <3>3, <3>4
    <2>2. CASE Inside
        <3>1. ~ InProof /\ nextObl
            BY <2>1, <2>2, <1>5, <1>6
        <3>2. EnterProof([NewFlags(TRUE, FALSE) EXCEPT !.seen = TRUE])
            BY <2>1, <3>1 DEF LintProofBegin
        <3>3. /\ ctx' = <<"proof">> \o ctx /\ flags'.program
              /\ nextObl' = FALSE /\ verdict' = "context"
            BY <3>2 DEF EnterProof, NewFlags
        <3> QED  BY <2>1, <2>2, <3>3, <1>12, NamesApart
    <2>3. CASE Awaiting
        <3>1. InProof /\ ~ nextObl /\ flags.program
            BY <2>1, <2>3, <1>5, <1>6
        <3>2. /\ flags' = [flags EXCEPT !.seen = TRUE]
              /\ verdict' = "context" /\ UNCHANGED <<ctx, saved, nextObl>>
            BY <2>1, <3>1 DEF LintProofBegin
        <3>3. flags'.program
            BY <3>1, <3>2, <1>4 DEF Flags
        <3>4. Inside'
            BY <2>1, <2>3, <3>2, <1>4, BaseFacts, NamesApart
               DEF Awaiting, Inside
        <3>5. \A i \in 2..Len(coq') : coq'[i] # "proof"
            BY <2>1, <1>4, <1>5, NoneBelowPush, NamesApart DEF CoqInProof
        <3>6. InProof' /\ ~ nextObl'
            BY <3>1, <3>2 DEF InProof
        <3> QED  BY <2>1, <3>2, <3>3, <3>4, <3>5, <3>6, <1>3 DEF TrackInv
    <2> QED  BY <2>2, <2>3, <1>5
<1>18. CASE OneLiner
    <2>1. CASE Legal(CoqInProof) /\ CoqPop /\ UNCHANGED pending
        <3>1. CoqInProof /\ coq' = Tail(coq) /\ pending' = pending
            BY <2>1, <1>3 DEF Legal, CoqPop
        <3>2. ExitProof
            BY <3>1, <1>8, <1>18 DEF OneLiner, LintOneLiner
        <3> QED  BY <3>1, <3>2, <1>10
    <2>2. CASE /\ Legal(~ CoqInProof) /\ pending > 0
               /\ pending' = pending - 1 /\ UNCHANGED coq
        <3>1. ~ CoqInProof /\ style = "program"
            BY <2>2, <1>3, <1>5 DEF Legal
        <3>2. CASE Inside
            <4>1. ~ InProof /\ nextObl
                BY <3>1, <3>2, <2>2, <1>5, <1>6
            <4>2. verdict' = "context" /\ UNCHANGED <<ctx, nextObl>>
                BY <4>1, <1>18 DEF OneLiner, LintOneLiner, Ignore
            <4>3. Inside' /\ ~ InProof'
                BY <3>2, <4>1, <4>2, <2>2 DEF Inside, InProof
            <4> QED  BY <2>2, <3>1, <4>1, <4>2, <4>3, <1>3, <1>5 DEF TrackInv
        <3>3. CASE Awaiting
            <4>1. InProof /\ flags.program
                BY <3>1, <3>3, <2>2, <1>5, <1>6
            <4>2. /\ ctx' = Tail(ctx) /\ verdict' = "context"
                  /\ nextObl' = (nextObl \/ flags.program)
                BY <4>1, <1>18 DEF OneLiner, LintOneLiner, ExitProof
            <4>3. Inside'
                BY <3>3, <4>2, <2>2, <1>6 DEF Inside
            <4>4. Head(ctx') = IF coq = <<>> THEN "toplevel" ELSE Head(coq)
                BY <4>3, <2>2, <1>4, BaseFacts DEF Inside
            <4>5. ~ InProof' /\ nextObl'
                BY <4>1, <4>2, <4>4, <3>1, <1>4 DEF InProof, CoqInProof
            <4> QED  BY <2>2, <3>1, <4>2, <4>3, <4>5, <1>3, <1>5 DEF TrackInv
        <3> QED  BY <3>2, <3>3, <1>5
    <2> QED  BY <1>18, <2>1, <2>2 DEF OneLiner
<1>19. CASE ProofEnd
    <2>1. CoqInProof /\ coq' = Tail(coq) /\ pending' = pending
        BY <1>19, <1>3 DEF ProofEnd, Legal, CoqPop
    <2>2. ExitProof
        BY <2>1, <1>8, <1>19 DEF ProofEnd, LintProofEnd
    <2> QED  BY <2>1, <2>2, <1>10
<1>20. ASSUME NEW c \in Container, Open(c)
       PROVE  TrackInv'
    <2>1. /\ ~ CoqInProof /\ Settled /\ Enter(c)
          /\ coq' = <<c>> \o coq /\ pending' = pending
        BY <1>20, <1>3 DEF Open, Legal, CoqPush
    <2>2. /\ Inside /\ pending' = 0
          /\ ctx' = <<c>> \o ctx /\ verdict' = "context"
        BY <2>1, <1>7 DEF Enter
    <2> QED  BY <2>1, <2>2, <1>12, NamesApart
<1>21. CASE End
    <2>1. /\ coq # <<>> /\ ~ CoqInProof /\ Settled
          /\ coq' = Tail(coq) /\ pending' = pending
        BY <1>21, <1>3 DEF End, Legal, CoqPop
    <2>2. Inside /\ pending' = 0 /\ Head(ctx) = Head(coq)
          /\ Tail(ctx) = Base(Tail(coq))
        BY <2>1, <1>6, <1>7
    <2>3. Head(ctx) \in Container
        BY <2>1, <2>2, <1>4, HeadTailProperties DEF CoqInProof, Ctx
    <2>4. Inside' /\ verdict' = "context"
        BY <2>1, <2>2, <2>3, <1>21 DEF End, LintEnd, Inside
    <2>5. CASE style = "nested"
        BY <2>2, <2>4, <2>5, <1>3 DEF TrackInv
    <2>6. CASE style = "program"
        <3>1. /\ \A i \in 2..Len(coq') : coq'[i] # "proof"
              /\ coq' # <<>> => Head(coq') # "proof"
            BY <2>1, <2>6, <1>4, <1>5, NoneLeftByPop
        <3>2. Head(ctx') = IF coq' = <<>> THEN "toplevel" ELSE Head(coq')
            BY <2>1, <2>4, <1>4, HeadTailProperties, BaseFacts DEF Inside
        <3>3. ~ InProof'
            BY <3>1, <3>2 DEF InProof
        <3> QED  BY <2>2, <2>4, <2>6, <3>1, <3>3, <1>3 DEF TrackInv
    <2> QED  BY <2>5, <2>6, <1>3
<1>22. CASE Plain
    <2>1. /\ UNCHANGED <<ctx, coq, pending, nextObl>>
          /\ flags'.program = flags.program /\ verdict' # "raised"
        BY <1>22, <1>4 DEF Plain, LintPlain, CheckPolicy, Ignore, CoqKeep,
                           Flags
    <2> QED  BY <2>1, <1>11
<1> QED  BY <1>13, <1>14, <1>15, <1>16, <1>17, <1>18, <1>19, <1>20, <1>21,
            <1>22 DEF Next

LEMMA InitTrackInv ==
    ASSUME Init
    PROVE  TrackInv
<1>1. /\ ctx = <<"toplevel">> /\ coq = <<>> /\ pending = 0
      /\ verdict = "start" /\ nextObl = FALSE
    BY DEF Init
<1>2. Inside
    <2>1. <<"toplevel">> \in Seq(AllCtx)
        BY DEF AllCtx
    <2> QED  BY <2>1, <1>1, ConcatEmptySeq DEF Inside, Base
<1>3. \A i \in 2..Len(coq) : coq[i] # "proof"
    BY <1>1, EmptySeq
<1> QED  BY <1>1, <1>2, <1>3 DEF TrackInv

LEMMA TrackingIsInStep ==
    ASSUME CoqInv, LinterInv, TrackInv
    PROVE  TracksNesting
<1> SUFFICES ASSUME style \in {"nested", "program"}
             PROVE  InStep /\ verdict # "raised"
    BY DEF TracksNesting
<1>1. /\ Inside \/ Awaiting
      /\ verdict # "raised"
    BY DEF TrackInv
<1>2. /\ coq \in Seq(Ctx) /\ coq \in Seq(AllCtx)
      /\ <<"toplevel">> \in Seq(AllCtx) /\ <<"proof">> \in Seq(AllCtx)
    <2>1. coq \in Seq(Ctx)
        BY DEF CoqInv
    <2>2. coq \in Seq(AllCtx)
        BY <2>1, SeqMonotonic DEF AllCtx
    <2> QED  BY <2>1, <2>2, NamesApart DEF AllCtx
<1>3. CASE Inside
    <2>1. ~ FirstObligation
        BY <1>3, WhereItIs DEF FirstObligation, InProof
    <2>2. <<>> \o coq = coq
        BY <1>2, ConcatEmptySeq
    <2> QED  BY <1>1, <1>3, <2>1, <2>2 DEF Inside, InStep, Base
<1>4. CASE Awaiting
    <2>1. FirstObligation
        BY <1>4, WhereItIs DEF FirstObligation, InProof, Awaiting
    <2>2. <<"proof">> \o (coq \o <<"toplevel">>) =
              (<<"proof">> \o coq) \o <<"toplevel">>
        BY <1>2, ConcatAssociative
    <2> QED  BY <1>1, <1>4, <2>1, <2>2 DEF Awaiting, InStep, Base
<1> QED  BY <1>1, <1>3, <1>4

\* On every file that coqc accepts, with nested proofs or with obligations of
\* Program definitions, but not one within the other, the linter is where coqc
\* is and never gives up, however deep the file and however many obligations.
THEOREM NestingIsTracked == Spec => []TracksNesting
<1>1. Init => LinterInv /\ CoqInv /\ TrackInv
    BY InitLinterInv, InitCoqInv, InitTrackInv
<1>2. LinterInv /\ CoqInv /\ TrackInv /\ [Next]_vars
          => (LinterInv /\ CoqInv /\ TrackInv)'
    BY LinterInvStep, CoqInvStep, TrackInvStep
<1>3. LinterInv /\ CoqInv /\ TrackInv => TracksNesting
    BY TrackingIsInStep
<1> QED  BY <1>1, <1>2, <1>3, PTL DEF Spec
=============================================================================
