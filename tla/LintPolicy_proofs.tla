------------------------- MODULE LintPolicy_proofs -------------------------
(***************************************************************************)
(* Proofs about LintPolicy.tla, for any set of matchers.                   *)
(***************************************************************************)
EXTENDS LintPolicy, TLAPS

\* The policy of a context loses nothing of the global one but what a
\* stronger list of its own has taken over.
LEMMA ExtendTakesOver ==
    ASSUME NEW g \in Policy, NEW e \in Policy
    PROVE  /\ Extend(g, e) \in Policy
           /\ g.eager \subseteq Extend(g, e).eager
           /\ g.deny \subseteq Extend(g, e).deny \cup Extend(g, e).eager
           /\ g.allow \subseteq Extend(g, e).allow \cup Extend(g, e).deny
                                                   \cup Extend(g, e).eager
BY DEF Policy, Extend

\* Hence the second look, at the global policy, never changes the verdict.
LEMMA GlobalIsRedundant ==
    ASSUME NEW g \in Policy, NEW e \in Policy, NEW s \in Sentence
    PROVE  Verdict(s, Extend(g, e), g) = Verdict(s, Extend(g, e), NoPolicy)
<1> DEFINE c == Extend(g, e)
<1>1. /\ g.eager \subseteq c.eager
      /\ g.deny \subseteq c.deny \cup c.eager
      /\ g.allow \subseteq c.allow \cup c.deny \cup c.eager
    BY ExtendTakesOver
<1> HIDE DEF c
<1>2. /\ ~ Hits(s, NoPolicy.eager)
      /\ ~ Hits(s, NoPolicy.deny)
      /\ ~ Hits(s, NoPolicy.allow)
    BY DEF Hits, NoPolicy
<1>3. Hits(s, g.eager) => Hits(s, c.eager)
    BY <1>1 DEF Hits
<1>4. Hits(s, g.deny) => Hits(s, c.deny) \/ Hits(s, c.eager)
    BY <1>1 DEF Hits
<1>5. Hits(s, g.allow) =>
          Hits(s, c.allow) \/ Hits(s, c.deny) \/ Hits(s, c.eager)
    BY <1>1 DEF Hits
<1>6. Verdict(s, c, g) = Verdict(s, c, NoPolicy)
    BY <1>2, <1>3, <1>4, <1>5 DEF Verdict
<1> QED  BY <1>6 DEF c

\* A context denies what a global policy lets pass, or the other way round,
\* only by a list of its own.
LEMMA OverrideIsOwn ==
    ASSUME NEW g \in Policy, NEW e \in Policy, NEW s \in Sentence
    PROVE  LET v == Verdict(s, g, g)
               w == Verdict(s, Extend(g, e), g)
           IN  /\ v = "denied" /\ w = "ok" => Hits(s, e.eager)
               /\ v = "ok" /\ w = "denied" => Hits(s, e.deny)
               /\ v = "ok" => w # "unknown"
<1> DEFINE c == Extend(g, e)
<1>1. /\ Hits(s, c.eager) <=> Hits(s, g.eager) \/ Hits(s, e.eager)
      /\ Hits(s, c.deny) => Hits(s, g.deny) \/ Hits(s, e.deny)
      /\ Hits(s, g.deny) => Hits(s, c.deny) \/ Hits(s, c.eager)
    BY DEF Extend, Hits, Policy
<1> HIDE DEF c
<1>2. LET v == Verdict(s, g, g)
          w == Verdict(s, c, g)
      IN  /\ v = "denied" /\ w = "ok" => Hits(s, e.eager)
          /\ v = "ok" /\ w = "denied" => Hits(s, e.deny)
          /\ v = "ok" => w # "unknown"
    BY <1>1 DEF Verdict
<1> QED  BY <1>2 DEF c

\* What a report was made from.
ReportInv ==
    /\ phase # "made" => report = NoReport
    /\ phase = "made" => ctx = Extend(global, ext)
    /\ Reported => report.verdict = Verdict(report.sentence, ctx, global)

IInv == TypeOK /\ ReportInv

\* Policies stay sets of matchers and a report is about one sentence.
THEOREM TypeCorrect == Spec => []TypeOK
<1>1. Init => TypeOK
    BY DEF Init, TypeOK, Policy, Sentence, NoPolicy, NoReport
<1>2. TypeOK /\ [Next]_vars => TypeOK'
    <2> SUFFICES ASSUME TypeOK, [Next]_vars
                 PROVE  TypeOK'
        OBVIOUS
    <2>1. CASE MkPolicy
        BY <2>1, ExtendTakesOver DEF MkPolicy, TypeOK
    <2>2. CASE MkPolicyFails
        BY <2>2 DEF MkPolicyFails, TypeOK
    <2>3. ASSUME NEW s \in Sentence, Check(s)
          PROVE  TypeOK'
        <3>1. Verdict(s, ctx, global) \in {"ok", "denied", "unknown"}
            BY DEF Verdict
        <3> QED  BY <2>3, <3>1 DEF Check, TypeOK
    <2>4. CASE UNCHANGED vars
        BY <2>4 DEF vars, TypeOK
    <2> QED  BY <2>1, <2>2, <2>3, <2>4 DEF Next
<1> QED  BY <1>1, <1>2, PTL DEF Spec

\* Every report is the verdict of the policy that mk_policy has made.
THEOREM Invariance == Spec => []IInv
<1>1. Init => IInv
    <2> SUFFICES ASSUME Init
                 PROVE  IInv
        OBVIOUS
    <2>1. TypeOK
        BY DEF Init, TypeOK, Policy, Sentence, NoPolicy, NoReport
    <2> QED  BY <2>1 DEF Init, IInv, ReportInv, Reported, NoReport
<1>2. IInv /\ TypeOK' /\ [Next]_vars => IInv'
    <2> SUFFICES ASSUME IInv, TypeOK', [Next]_vars
                 PROVE  ReportInv'
        BY DEF IInv
    <2> USE DEF IInv, ReportInv, Reported
    <2>1. CASE MkPolicy
        BY <2>1 DEF MkPolicy, NoReport
    <2>2. CASE MkPolicyFails
        BY <2>2 DEF MkPolicyFails
    <2>3. ASSUME NEW s \in Sentence, Check(s)
          PROVE  ReportInv'
        BY <2>3 DEF Check
    <2>4. CASE UNCHANGED vars
        BY <2>4 DEF vars
    <2> QED  BY <2>1, <2>2, <2>3, <2>4 DEF Next
<1> QED  BY <1>1, <1>2, TypeCorrect, PTL DEF Spec

\* The TODO is right: the most specific policy alone gives every verdict.
THEOREM SpecificPolicySuffices == Spec => []MostSpecificSuffices
<1>1. IInv => MostSpecificSuffices
    BY GlobalIsRedundant
    DEF IInv, TypeOK, ReportInv, Reported, NoReport, MostSpecificSuffices
<1> QED  BY <1>1, Invariance, PTL

\* No context weakens or tightens the global policy by accident.
THEOREM OverridesArePermissible == Spec => []OverridesPermissible
<1>1. IInv => OverridesPermissible
    BY OverrideIsOwn
    DEF IInv, TypeOK, ReportInv, Reported, NoReport, OverridesPermissible
<1> QED  BY <1>1, Invariance, PTL
============================================================================
