--------------------------- MODULE SentenceParser ---------------------------
(***************************************************************************)
(* The sentence parser of fm-linter (coq_sentence_parser.py): line by line *)
(* it blanks what it takes for comments and gathers lines up to one that   *)
(* ends in a period.  Beside it runs the lexer of coqc (external), which   *)
(* knows what is a comment, so that the two can be compared.               *)
(*                                                                         *)
(* A line is a sequence of tokens: "word" is any run of other text, "open" *)
(* and "close" are the comment delimiters.  "dash", "plus" and "star" are  *)
(* runs of these characters and "brace" is either of the curly ones: what  *)
(* selects goals between sentences, and text like any other within one.    *)
(***************************************************************************)
EXTENDS Integers, FiniteSets, FiniteSetsExt, SequencesExt

CONSTANTS
    MaxLine,  \* bound on the tokens of a line
    MaxNest,  \* bound on the nesting of comments
    Styles    \* how the linted files are written, see Legal

ASSUME ParserAssumption ==
    /\ MaxLine \in Nat /\ MaxNest \in Nat
    /\ Styles \subseteq {"plain", "touching", "any"}

Bullet == {"dash", "plus", "star"}
Selector == Bullet \cup {"brace"}
Token == {"word", "dot", "open", "close", "quote"} \cup Selector
Line == BoundedSeq(Token, MaxLine)

VARIABLES
    style,      \* the style of the file
    stage,      \* "read", "strip" (a line was stripped), "closed", "raised"
    depth,      \* _comment_depth
    gathering,  \* get_next_sentence holds an unterminated sentence
    line,       \* the line that was read
    kept,       \* the positions of line that were not stripped
    coq,        \* coqc: comment depth, inside a string, inside a sentence,
                \* behind a bullet that did not begin its line
    code,       \* coqc: the positions of line outside of comments
    flat        \* coqc: no comment of line, no comment of the file was nested

vars == <<style, stage, depth, gathering, line, kept, coq, code, flat>>

TypeOK ==
    /\ style \in Styles
    /\ stage \in {"read", "strip", "closed", "raised"}
    /\ depth \in -1..MaxNest /\ (depth = -1 => stage = "raised")
    /\ gathering \in BOOLEAN
    /\ line \in Line
    /\ kept \subseteq DOMAIN line /\ code \subseteq DOMAIN line
    /\ coq \in [depth : 0..MaxNest, string : BOOLEAN, unfinished : BOOLEAN,
                dangling : BOOLEAN]
    /\ flat \in [line : BOOLEAN, file : BOOLEAN]

Init ==
    /\ style \in Styles
    /\ stage = "read" /\ depth = 0 /\ gathering = FALSE
    /\ line = <<>> /\ kept = {} /\ code = {}
    /\ coq = [depth |-> 0, string |-> FALSE, unfinished |-> FALSE,
              dangling |-> FALSE]
    /\ flat = [line |-> TRUE, file |-> TRUE]

----------------------------------------------------------------------------
(* get_next_line_and_stripped_comments.                                    *)

\* The double quotes that have no other beside them, paired up; an odd number
\* of them is ignored.
StringsOf(l) ==
    LET beside(i) == {i - 1, i + 1} \cap DOMAIN l
        q == {i \in DOMAIN l : /\ l[i] = "quote"
                               /\ \A j \in beside(i) : l[j] # "quote"}
        rank(i) == Cardinality({j \in q : j <= i})
    IN  IF Cardinality(q) % 2 # 0 THEN {}
        ELSE {s \in q \X q : rank(s[1]) % 2 = 1 /\ rank(s[2]) = rank(s[1]) + 1}

\* Mutant of Delimiters: strings are not looked at.
DelimitersUnpruned(l) ==
    {i \in DOMAIN l : l[i] \in {"open", "close"}}

\* A close right before a quote is no delimiter (the regular expression
\* END_COMMENT), and those that look like part of a string are pruned.
Delimiters(l) ==
    {i \in DOMAIN l :
        /\ \/ l[i] = "open"
           \/ l[i] = "close" /\ ~ (i < Len(l) /\ l[i + 1] = "quote")
        /\ ~ \E s \in StringsOf(l) : s[1] < i /\ i + 1 < s[2]}

Start(acc, i) == [acc EXCEPT !.depth = @ + 1, !.starts = <<i>> \o @]

\* Mutants of Cancel: a close always blanks from the beginning of the line; an
\* unbalanced one is not noticed.
CancelFromPrefix(l, acc, i) ==
    IF acc.depth < 0 THEN acc
    ELSE IF l[i] = "open" THEN Start(acc, i)
    ELSE [acc EXCEPT !.depth = @ - 1, !.starts = <<>>, !.blank = @ \cup 1..i]
CancelUnbalanced(l, acc, i) ==
    IF l[i] = "open" THEN Start(acc, i)
    ELSE [acc EXCEPT !.depth = @ - 1, !.blank = @ \cup 1..i]

\* One delimiter: a close blanks from the last start on the line if it ends the
\* whole comment, else from the beginning of the line, and then pops no start.
Cancel(l, acc, i) ==
    IF acc.depth < 0 THEN acc
    ELSE IF l[i] = "open" THEN Start(acc, i)
    ELSE LET whole == acc.starts # <<>> /\ acc.depth = 1
         IN  [depth  |-> acc.depth - 1,
              starts |-> IF whole THEN Tail(acc.starts) ELSE acc.starts,
              blank  |-> acc.blank \cup
                            (IF whole THEN Head(acc.starts) ELSE 1)..i]

\* All of them, the last one on top of those before; then the outermost start
\* that is left blanks the rest.  A line inside a comment without any delimiter
\* is skipped.
Blanked(l) ==
    LET acc == MapThenFoldSet(LAMBDA i, a : Cancel(l, a, i),
                              [depth |-> depth, starts |-> <<>>, blank |-> {}],
                              LAMBDA i : i, LAMBDA s : Max(s), Delimiters(l))
    IN  [depth |-> acc.depth,
         blank |-> IF depth # 0 /\ Delimiters(l) = {} THEN DOMAIN l
                   ELSE IF acc.starts = <<>> THEN acc.blank
                   ELSE acc.blank \cup Last(acc.starts)..Len(l)]

\* One substitution: a bullet of this kind goes if the line begins with it.
WithoutFirst(l, positions, bullet) ==
    {i \in positions : l[i] = bullet => \E j \in positions : j < i}

\* Mutant of Stripped: braces go at the beginning of a line only.
StrippedInFront(l, positions, inProof) ==
    LET dashes == WithoutFirst(l, positions, "dash")
        bare   == WithoutFirst(l, WithoutFirst(l, dashes, "plus"), "star")
    IN  IF ~ inProof THEN positions
        ELSE {i \in bare : \E j \in bare : j <= i /\ l[j] # "brace"}

\* coq_rstrip: in an interactive proof the line loses the bullets it begins
\* with, one of each kind and in this order, and then braces at either end.
Stripped(l, positions, inProof) ==
    LET dashes == WithoutFirst(l, positions, "dash")
        bare   == WithoutFirst(l, WithoutFirst(l, dashes, "plus"), "star")
        text   == {i \in bare : l[i] # "brace"}
    IN  IF ~ inProof THEN positions
        ELSE {i \in bare : \E j, k \in text : j <= i /\ i <= k}

\* The test for SENTENCE_END after a line of which these positions are left.
Unterminated(l, positions, before) ==
    IF positions = {} THEN before ELSE l[Max(positions)] # "dot"

----------------------------------------------------------------------------
(* The lexer of coqc, in which strings count inside of comments too.       *)

Lex(acc, token) ==
    LET here == [acc EXCEPT !.at = @ + 1,
                            !.code = IF acc.depth = 0 THEN @ \cup {acc.at}
                                     ELSE @]
    IN  CASE token = "quote" -> [here EXCEPT !.string = ~ @]
          [] token = "open" /\ ~ acc.string ->
                [here EXCEPT !.depth = @ + 1, !.code = acc.code,
                             !.deepest = IF @ > acc.depth THEN @
                                         ELSE acc.depth + 1]
          [] token = "close" /\ ~ acc.string ->
                [here EXCEPT !.depth = @ - 1]
          [] OTHER -> here

\* A close outside of any comment makes the depth negative: not accepted.
Lexed(l) ==
    FoldLeft(LAMBDA a, token : IF a.depth < 0 THEN a ELSE Lex(a, token),
             [at |-> 1, depth |-> coq.depth, string |-> coq.string,
              deepest |-> coq.depth, code |-> {}], l)

Text(l, positions) == {i \in positions : l[i] \notin Selector}

\* Whether a sentence goes on after text ending at these positions.
GoesOn(l, positions, before) ==
    IF Text(l, positions) = {} THEN before
    ELSE l[Max(Text(l, positions))] # "dot"

\* Whether, since the last text, a bullet stood behind other code of its line.
Dangles(l, positions, before) ==
    \/ Text(l, positions) = {} /\ before
    \/ \E i \in positions :
          /\ l[i] \in Bullet /\ \E j \in positions : j < i
          /\ \A j \in Text(l, positions) : j < i

\* Strings end on the line where they begin and hold no quotes.  In a "plain"
\* file no comment delimiter stands right before a quote either, in a
\* "touching" one that may open a comment.
QuotesApart(l, tokens) ==
    /\ Cardinality({i \in DOMAIN l : l[i] = "quote"}) % 2 = 0
    /\ \A i \in 1..(Len(l) - 1) : l[i + 1] = "quote" => l[i] \notin tokens

\* What a file of each style may go on with: "any" is any text at all, of which
\* coqc is not asked.
Legal(l, inProof) ==
    \/ style = "any"
    \/ /\ Lexed(l).depth \in 0..MaxNest /\ Lexed(l).deepest <= MaxNest
       /\ ~ inProof => \A i \in DOMAIN l : l[i] \notin Selector
       /\ QuotesApart(l, IF style = "plain" THEN {"quote", "open", "close"}
                         ELSE {"quote", "close"})

----------------------------------------------------------------------------

\* A line is read; the linter says whether it is in an interactive proof.
ReadLine(l, inProof) ==
    /\ stage = "read" /\ Legal(l, inProof)
    /\ LET b == Blanked(l)
       IN  /\ b.depth <= MaxNest
           /\ depth' = b.depth
           /\ stage' = IF b.depth < 0 THEN "raised" ELSE "strip"
           /\ kept' = Stripped(l, DOMAIN l \ b.blank, inProof)
    /\ line' = l
    /\ IF style = "any" THEN code' = {} /\ UNCHANGED <<coq, flat>>
       ELSE LET x == Lexed(l)
            IN  /\ code' = x.code
                /\ coq' = [depth |-> x.depth, string |-> x.string,
                           unfinished |-> GoesOn(l, x.code, coq.unfinished),
                           dangling |-> Dangles(l, x.code, coq.dangling)]
                /\ flat' = [line |-> x.deepest <= 1,
                            file |-> flat.file /\ x.deepest <= 1]
    /\ UNCHANGED <<style, gathering>>

\* get_next_sentence adds the line, if anything is left of it, and returns the
\* sentence once it ends in a period.
AddLine ==
    /\ stage = "strip"
    /\ gathering' = Unterminated(line, kept, gathering)
    /\ stage' = "read"
    /\ line' = <<>> /\ kept' = {} /\ code' = {}
    /\ flat' = [flat EXCEPT !.line = TRUE]
    /\ UNCHANGED <<style, depth, coq>>

\* coqc accepts a file that ends outside of comments and sentences, and with
\* a sentence behind every bullet: that of the proof, if no other.
EndOfFile ==
    /\ stage = "read"
    /\ \/ style = "any"
       \/ coq.depth = 0 /\ ~ coq.unfinished /\ ~ coq.dangling
    /\ stage' = IF depth # 0 \/ gathering THEN "raised" ELSE "closed"
    /\ UNCHANGED <<style, depth, gathering, line, kept, coq, code, flat>>

Next ==
    \/ \E l \in Line, inProof \in BOOLEAN : ReadLine(l, inProof)
    \/ AddLine
    \/ EndOfFile

Spec == Init /\ [][Next]_vars

----------------------------------------------------------------------------
(* What could go wrong.                                                    *)

\* After every line of a file that coqc accepts, the parser agrees with it on
\* how many comments are open, however they are nested.
NestingKept == style = "plain" /\ stage # "raised" => depth = coq.depth

\* What a nested comment spoils stays on the lines where it is nested: on any
\* other line exactly the text outside of comments is kept, selectors aside.
FlatLinesExact ==
    style = "plain" /\ stage = "strip" /\ flat.line =>
        Text(line, kept) = Text(line, code)

\* The parser gives up on no accepted file without nested comments.  It ends
\* no sentence before that file does, and goes on gathering after one only
\* behind a bullet that the author did not put at the beginning of a line.
FlatFilesRead ==
    style = "plain" /\ flat.file =>
        /\ stage # "raised"
        /\ stage = "read" =>
              /\ coq.unfinished => gathering
              /\ gathering => coq.unfinished \/ coq.dangling

\* coq_sentence_parser.py: pairs of double quotes prune the comment delimiters
\* which appear within those strings.
DelimitersInStringsPruned ==
    style = "touching" /\ stage # "raised" => depth = coq.depth
=============================================================================
