---------------------------- MODULE LintPolicy ----------------------------
(***************************************************************************)
(* The policies of fm-linter: how mk_policy builds one for each context as *)
(* an extension of the global one (linter_util.py), and how check_policy   *)
(* judges a sentence by two of them (linter.py).                           *)
(*                                                                         *)
(* A matcher is a compiled regular expression, compared by identity, and a *)
(* sentence is the set of matchers it matches.  A list of matchers is the  *)
(* set of its members: order only chooses among error messages.            *)
(***************************************************************************)
CONSTANT Matcher

Policy == [eager : SUBSET Matcher, deny : SUBSET Matcher,
           allow : SUBSET Matcher]
Sentence == SUBSET Matcher

VARIABLES
    phase,   \* "defaults", then "made", or "conflict" (RuntimeError)
    global,  \* global_policies
    ext,     \* the extensions a configuration gives for one context
    ctx,     \* the policy of that context
    report   \* the last sentence checked in that context and its verdict

vars == <<phase, global, ext, ctx, report>>

NoReport == [sentence |-> {}, verdict |-> "none"]
NoPolicy == [eager |-> {}, deny |-> {}, allow |-> {}]

TypeOK ==
    /\ phase \in {"defaults", "made", "conflict"}
    /\ global \in Policy /\ ext \in Policy /\ ctx \in Policy
    /\ report \in [sentence : Sentence,
                   verdict : {"none", "ok", "denied", "unknown"}]

\* extend_allow_deny_policy raises rather than let an allow override a deny
\* or an eager allow of the base, or a deny an eager allow of it.
Conflict(base, e) ==
    \/ e.allow \cap (base.eager \cup base.deny) # {}
    \/ e.deny \cap base.eager # {}

\* Mutants of Extend: the lists of the extension replace those of the base;
\* the allow list is forgotten.
ExtendReplaces(base, e) ==
    [eager |-> e.eager, deny |-> e.deny \ e.eager,
     allow |-> (e.allow \ e.deny) \ e.eager]
ExtendWithoutAllow(base, e) ==
    [eager |-> base.eager \cup e.eager,
     deny  |-> (base.deny \cup e.deny) \ e.eager]

\* Otherwise deny overrides allow, and eager allow overrides both.
Extend(base, e) ==
    [eager |-> base.eager \cup e.eager,
     deny  |-> (base.deny \cup e.deny) \ e.eager,
     allow |-> ((base.allow \cup e.allow) \ e.deny) \ e.eager]

Hits(s, matchers) == s \cap matchers # {}

\* Mutant of Verdict: the allow lists come before the deny lists.
VerdictAllowFirst(s, c, g) ==
    IF Hits(s, c.eager) \/ Hits(s, g.eager) THEN "ok"
    ELSE IF Hits(s, c.allow) \/ Hits(s, g.allow) THEN "ok"
    ELSE IF Hits(s, c.deny) \/ Hits(s, g.deny) THEN "denied"
    ELSE "unknown"

\* check_policy_aux, in any context but the toplevel: of the two policies
\* first the eager lists are tried, then the deny lists, then the allow lists.
Verdict(s, c, g) ==
    IF Hits(s, c.eager) \/ Hits(s, g.eager) THEN "ok"
    ELSE IF Hits(s, c.deny) \/ Hits(s, g.deny) THEN "denied"
    ELSE IF Hits(s, c.allow) \/ Hits(s, g.allow) THEN "ok"
    ELSE "unknown"

Init ==
    /\ phase = "defaults"
    /\ global \in Policy
    /\ ext \in Policy
    /\ ctx = NoPolicy
    /\ report = NoReport

\* mk_policy, for one of its five contexts.
MkPolicy ==
    /\ phase = "defaults"
    /\ ~ Conflict(global, ext)
    /\ phase' = "made"
    /\ ctx' = Extend(global, ext)
    /\ UNCHANGED <<global, ext, report>>

MkPolicyFails ==
    /\ phase = "defaults"
    /\ Conflict(global, ext)
    /\ phase' = "conflict"
    /\ UNCHANGED <<global, ext, ctx, report>>

\* A sentence of the file is checked in the context.
Check(s) ==
    /\ phase = "made"
    /\ report' = [sentence |-> s, verdict |-> Verdict(s, ctx, global)]
    /\ UNCHANGED <<phase, global, ext, ctx>>

Next == MkPolicy \/ MkPolicyFails \/ \E s \in Sentence : Check(s)

Spec == Init /\ [][Next]_vars

----------------------------------------------------------------------------
(* What could go wrong.                                                    *)

Reported == report.verdict # "none"

\* The TODO of linter_util.py: if the policies come from mk_policy, checking
\* the most specific one is enough, although what it prunes from the global
\* policy is still looked up there.
MostSpecificSuffices ==
    Reported => report.verdict = Verdict(report.sentence, ctx, NoPolicy)

\* Permissible overrides are eager allow over deny over allow: a context lets
\* a globally denied sentence pass only where it says so eagerly, and denies
\* a globally accepted one only by a deny of its own.
OverridesPermissible ==
    Reported =>
        LET s == report.sentence
            v == Verdict(s, global, global)
        IN  /\ v = "denied" /\ report.verdict = "ok" => Hits(s, ext.eager)
            /\ v = "ok" /\ report.verdict = "denied" => Hits(s, ext.deny)
            /\ v = "ok" => report.verdict # "unknown"
===========================================================================
