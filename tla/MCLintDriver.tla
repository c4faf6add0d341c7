---------------------------- MODULE MCLintDriver ----------------------------
(***************************************************************************)
(* Two .v files; a directory that holds both, one of them below proof/;    *)
(* proof/ itself; a directory that also holds a directory named *.v.       *)
(***************************************************************************)
EXTENDS LintDriver

CONSTANTS f, g, o, d, e, w, x, m

MCBelow == [p \in {d, e, w, x} |->
    CASE p = d -> {f, g} [] p = e -> {f} [] p = w -> {x, g} [] p = x -> {}]

MCParts == [p \in {d, e, w, x} |->
    CASE p = d -> f :> <<"proof", "a.v">> @@ g :> <<"prelude", "proof", "b.v">>
      [] p = e -> f :> <<"a.v">>
      [] p = w -> x :> <<"x.v">> @@
                  g :> <<"hints", "spec_and_proof", "b_proof.v">>
      [] p = x -> <<>>]

MCMentions ==
    "proof" :> {"proof"} @@ "prelude" :> {"prelude"} @@ "hints" :> {"hints"} @@
    "spec_and_proof" :> {"spec", "proof"} @@ "b_proof.v" :> {"proof"} @@
    "a.v" :> {} @@ "b.v" :> {} @@ "x.v" :> {}

\* A clean file; both policies broken and a context left open; one context too
\* many closed; a cut in an open context; undecodable bytes.
MCTexts == {<<"plain">>, <<"from", "begin", "set">>, <<"from", "end", "set">>,
            <<"begin", "set", "cut">>, <<"from", "bytes">>}

Some(S, n) == BoundedSeq(S, n)

MCCommands ==
    [common : Some({f, g, o, d, w, m}, 2), dirs : {<<>>}, files : {<<>>},
     fail : BOOLEAN] \cup
    [common : {<<>>}, dirs : Some({d, e, w, o, m}, 2),
     files : Some({f, x, o, m}, 1) \cup {<<o, m>>, <<f, m>>}, fail : {FALSE}] \cup
    [common : {<<d>>}, dirs : {<<>>, <<e>>}, files : {<<>>, <<f>>},
     fail : {FALSE}]
=============================================================================
