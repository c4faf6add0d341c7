----------------------- MODULE SentenceParser_proofs -----------------------
(***************************************************************************)
(* Proofs about SentenceParser.tla, for lines of any length and comments   *)
(* nested to any depth.                                                    *)
(*                                                                         *)
(* The first part is about data, as in LintDriver_proofs: induction over   *)
(* the natural numbers, stated with sets, unfolds the folds by which the   *)
(* parser and the lexer of coqc go over a line.  Then both are followed    *)
(* through a line side by side.                                            *)
(***************************************************************************)
EXTENDS SentenceParser, FiniteSetTheorems, SequenceTheorems,
        WellFoundedInduction, TLAPS

\* A set of naturals has a least element.
LEMMA LeastNat ==
    ASSUME NEW T \in SUBSET Nat, T # {}
    PROVE  \E x \in T : \A y \in T : x <= y
<1>1. PICK x \in T : \A y \in T : ~ (<<y, x>> \in OpToRel(<, Nat))
    BY NatLessThanWellFounded, WFMin, Zenon
<1>2. \A y \in T : ~ (y < x)
    BY <1>1, Zenon DEF OpToRel
<1> QED  BY <1>2

\* Induction over the natural numbers.
LEMMA SetInduction ==
    ASSUME NEW S, 0 \in S, \A n \in Nat : n \in S => n + 1 \in S
    PROVE  Nat \subseteq S
<1> SUFFICES ASSUME Nat \ S # {}
             PROVE  FALSE
    OBVIOUS
<1>1. PICK x \in Nat \ S : \A y \in Nat \ S : x <= y
    BY LeastNat
<1>2. x # 0 /\ x - 1 \in Nat
    BY <1>1
<1>3. x - 1 \in S
    BY <1>1, <1>2
<1> QED  BY <1>1, <1>2, <1>3

\* Max picks what it says from a set of positions.
LEMMA MaxOfPositions ==
    ASSUME NEW n \in Nat, NEW s \in SUBSET (1 .. n), s # {}
    PROVE  Max(s) \in s /\ \A y \in s : y <= Max(s)
<1> DEFINE T == {n - i : i \in s}
<1>1. T \in SUBSET Nat /\ T # {}
    <2>1. \A i \in s : i \in 1 .. n /\ n - i \in Nat
        OBVIOUS
    <2> QED  BY <2>1
<1>2. PICK t \in T : \A u \in T : t <= u
    BY <1>1, LeastNat
<1>3. PICK x \in s : t = n - x
    BY <1>2
<1>4. \A y \in s : n - y \in T
    OBVIOUS
<1>5. \A y \in s : x >= y
    <2> SUFFICES ASSUME NEW y \in s
                 PROVE  x >= y
        OBVIOUS
    <2>1. n - x <= n - y
        BY <1>2, <1>3, <1>4
    <2>2. x \in 1 .. n /\ y \in 1 .. n
        OBVIOUS
    <2> HIDE DEF T
    <2> QED  BY <2>1, <2>2
<1>6. \E z \in s : \A y \in s : z >= y
    BY <1>5
<1>7. Max(s) \in s /\ \A y \in s : Max(s) >= y
    BY <1>6, Zenon DEF Max
<1> QED  BY <1>7

----------------------------------------------------------------------------
(* A fold over the first n positions, taken from the last one backwards.   *)

Iter(iter, step, base, n) ==
    iter = [s \in SUBSET (1 .. n) |->
               IF s = {} THEN base ELSE step[<<iter[s \ {Max(s)}], Max(s)>>]]

HasIter(State, step, base, n) ==
    \E iter \in [SUBSET (1 .. n) -> State] : Iter(iter, step, base, n)

\* The recursion by which a fold is defined has a solution.
LEMMA IterExists ==
    ASSUME NEW State, NEW N \in Nat, NEW base \in State,
           NEW step \in [State \X (1 .. N) -> State]
    PROVE  HasIter(State, step, base, N)
<1> DEFINE S == {n \in Nat : n <= N => HasIter(State, step, base, n)}
<1>1. 0 \in S
    <2> DEFINE none == [s \in SUBSET (1 .. 0) |-> base]
    <2>1. none \in [SUBSET (1 .. 0) -> State]
        OBVIOUS
    <2>2. \A s \in SUBSET (1 .. 0) : s = {}
        OBVIOUS
    <2>3. Iter(none, step, base, 0)
        BY <2>2 DEF Iter
    <2> QED  BY <2>1, <2>3 DEF HasIter
<1>2. ASSUME NEW n \in Nat, n \in S
      PROVE  n + 1 \in S
    <2> SUFFICES ASSUME n + 1 <= N
                 PROVE  HasIter(State, step, base, n + 1)
        OBVIOUS
    <2>1. HasIter(State, step, base, n)
        <3>1. n <= N
            OBVIOUS
        <3> QED  BY <1>2, <3>1
    <2>2. PICK h \in [SUBSET (1 .. n) -> State] : Iter(h, step, base, n)
        BY <2>1, Zenon DEF HasIter
    <2> DEFINE g == [s \in SUBSET (1 .. n + 1) |->
                        IF n + 1 \in s THEN step[<<h[s \ {n + 1}], n + 1>>]
                        ELSE h[s]]
    <2>3. \A s \in SUBSET (1 .. n + 1) : s \ {n + 1} \in SUBSET (1 .. n)
        OBVIOUS
    <2>4. g \in [SUBSET (1 .. n + 1) -> State]
        <3> SUFFICES ASSUME NEW s \in SUBSET (1 .. n + 1)
                     PROVE  g[s] \in State
            OBVIOUS
        <3>1. CASE n + 1 \in s
            <4>1. h[s \ {n + 1}] \in State /\ n + 1 \in 1 .. N
                BY <2>3
            <4> QED  BY <3>1, <4>1
        <3>2. CASE n + 1 \notin s
            <4>1. s \in SUBSET (1 .. n)
                BY <3>2
            <4> QED  BY <3>2, <4>1
        <3> QED  BY <3>1, <3>2
    <2>5. ASSUME NEW s \in SUBSET (1 .. n + 1)
          PROVE  g[s] = IF s = {} THEN base
                        ELSE step[<<g[s \ {Max(s)}], Max(s)>>]
        <3>1. CASE n + 1 \in s
            <4>1. n + 1 \in Nat /\ s # {}
                BY <3>1
            <4>2. Max(s) \in s /\ \A y \in s : y <= Max(s)
                BY <4>1, MaxOfPositions
            <4>3. Max(s) \in 1 .. n + 1 /\ n + 1 <= Max(s)
                BY <3>1, <4>2
            <4>4. Max(s) = n + 1
                BY <4>3
            <4>5. g[s \ {n + 1}] = h[s \ {n + 1}]
                OBVIOUS
            <4> QED  BY <3>1, <4>4, <4>5
        <3>2. CASE n + 1 \notin s
            <4>1. s \in SUBSET (1 .. n)
                BY <3>2
            <4>2. g[s] = h[s] /\ g[s \ {Max(s)}] = h[s \ {Max(s)}]
                BY <3>2
            <4>3. h[s] = IF s = {} THEN base
                         ELSE step[<<h[s \ {Max(s)}], Max(s)>>]
                BY <2>2, <4>1 DEF Iter
            <4> QED  BY <4>2, <4>3
        <3> QED  BY <3>1, <3>2
    <2>6. Iter(g, step, base, n + 1)
        BY <2>5 DEF Iter
    <2> QED  BY <2>4, <2>6 DEF HasIter
<1>3. N \in S
    BY <1>1, <1>2, SetInduction
<1> QED  BY <1>3

\* The part of a set of positions up to the k-th.
LEMMA UpTo ==
    ASSUME NEW N \in Nat, NEW D \in SUBSET (1 .. N), NEW k \in 1 .. N
    PROVE  /\ k \in D => /\ D \cap (1 .. k) # {} /\ Max(D \cap (1 .. k)) = k
                         /\ (D \cap (1 .. k)) \ {k} = D \cap (1 .. k - 1)
           /\ k \notin D => D \cap (1 .. k) = D \cap (1 .. k - 1)
<1>1. ASSUME k \in D
      PROVE  D \cap (1 .. k) # {} /\ Max(D \cap (1 .. k)) = k
    <2> DEFINE s == D \cap (1 .. k)
    <2>1. k \in Nat /\ s \in SUBSET (1 .. k) /\ k \in s
        BY <1>1
    <2> HIDE DEF s
    <2>2. s # {}
        BY <2>1
    <2>3. Max(s) \in s /\ \A y \in s : y <= Max(s)
        BY <2>1, <2>2, MaxOfPositions
    <2>4. Max(s) \in 1 .. k /\ k <= Max(s)
        BY <2>1, <2>3
    <2> QED  BY <2>2, <2>4 DEF s
<1>2. (D \cap (1 .. k)) \ {k} = D \cap (1 .. k - 1)
    OBVIOUS
<1> QED  BY <1>1, <1>2

\* A fold over a set of positions in their order has a solution.
HasFold(State, step, base, D) ==
    \E it \in [SUBSET D -> State] : \A d \in SUBSET D :
        it[d] = IF d = {} THEN base ELSE step[<<it[d \ {Max(d)}], Max(d)>>]

LEMMA FoldExists ==
    ASSUME NEW State, NEW N \in Nat, NEW base \in State,
           NEW step \in [State \X (1 .. N) -> State], NEW D \in SUBSET (1 .. N)
    PROVE  HasFold(State, step, base, D)
<1>1. HasIter(State, step, base, N)
    BY IterExists
<1>2. PICK h \in [SUBSET (1 .. N) -> State] : Iter(h, step, base, N)
    BY <1>1, Zenon DEF HasIter
<1> DEFINE it == [d \in SUBSET D |-> h[d]]
<1>3. \A d \in SUBSET D : d \in SUBSET (1 .. N) /\ d \ {Max(d)} \in SUBSET D
    OBVIOUS
<1>4. it \in [SUBSET D -> State]
    BY <1>3
<1>5. \A d \in SUBSET D :
          it[d] = IF d = {} THEN base ELSE step[<<it[d \ {Max(d)}], Max(d)>>]
    BY <1>2, <1>3 DEF Iter
<1> QED  BY <1>4, <1>5 DEF HasFold

----------------------------------------------------------------------------
(* The lexer of coqc goes over a line.                                     *)

LexState == [at : Nat, depth : Int, string : BOOLEAN, deepest : Int,
             code : SUBSET Nat]
LexBegin == [at |-> 1, depth |-> coq.depth, string |-> coq.string,
             deepest |-> coq.depth, code |-> {}]
LexStep(a, token) == IF a.depth < 0 THEN a ELSE Lex(a, token)

\* x[k] is the state of the lexer after k tokens of l.
IsLexing(l, x) ==
    /\ x \in [0 .. Len(l) -> LexState]
    /\ x[0] = LexBegin
    /\ \A k \in 1 .. Len(l) : x[k] = LexStep(x[k - 1], l[k])

\* What Lex does with a token, component by component.
Opens(a, token) == token = "open" /\ ~ a.string
Closes(a, token) == token = "close" /\ ~ a.string
Lexes(a, token, r) ==
    /\ r = [at |-> r.at, depth |-> r.depth, string |-> r.string,
            deepest |-> r.deepest, code |-> r.code]
    /\ r.at = a.at + 1
    /\ r.string = IF token = "quote" THEN ~ a.string ELSE a.string
    /\ r.depth = IF Opens(a, token) THEN a.depth + 1
                 ELSE IF Closes(a, token) THEN a.depth - 1 ELSE a.depth
    /\ r.deepest = IF Opens(a, token) /\ a.deepest <= a.depth THEN a.depth + 1
                   ELSE a.deepest
    /\ r.code = IF a.depth = 0 /\ ~ Opens(a, token) THEN a.code \cup {a.at}
                ELSE a.code

LEMMA LexParts ==
    ASSUME NEW a \in LexState, NEW token \in Token
    PROVE  Lexes(a, token, Lex(a, token))
<1>1. a = [at |-> a.at, depth |-> a.depth, string |-> a.string,
           deepest |-> a.deepest, code |-> a.code]
      /\ a.depth \in Int /\ a.deepest \in Int
    BY DEF LexState
<1>2. CASE token = "quote"
    BY <1>1, <1>2 DEF Lex, Lexes, Opens, Closes
<1>3. CASE token = "open" /\ ~ a.string
    <2>1. ~ (a.deepest > a.depth) <=> a.deepest <= a.depth
        BY <1>1
    <2>2. CASE a.deepest > a.depth
        BY <1>1, <1>3, <2>1, <2>2 DEF Lex, Lexes, Opens, Closes
    <2>3. CASE ~ (a.deepest > a.depth)
        BY <1>1, <1>3, <2>1, <2>3 DEF Lex, Lexes, Opens, Closes
    <2> QED  BY <2>2, <2>3
<1>4. CASE token = "close" /\ ~ a.string
    BY <1>1, <1>4 DEF Lex, Lexes, Opens, Closes
<1>5. CASE ~ (token = "quote" \/ (token \in {"open", "close"} /\ ~ a.string))
    BY <1>1, <1>5 DEF Lex, Lexes, Opens, Closes
<1> QED  BY <1>2, <1>3, <1>4, <1>5

LEMMA LexStepType ==
    ASSUME NEW a \in LexState, NEW token \in Token
    PROVE  LexStep(a, token) \in LexState
<1>1. CASE a.depth < 0
    BY <1>1 DEF LexStep
<1>2. CASE ~ (a.depth < 0)
    <2> DEFINE r == Lex(a, token)
    <2>1. /\ a.at \in Nat /\ a.depth \in Int /\ a.string \in BOOLEAN
          /\ a.deepest \in Int /\ a.code \in SUBSET Nat
        BY DEF LexState
    <2>2. /\ a.at + 1 \in Nat /\ a.depth + 1 \in Int /\ a.depth - 1 \in Int
          /\ a.code \cup {a.at} \in SUBSET Nat
        BY <2>1
    <2>3. Lexes(a, token, r)
        BY LexParts
    <2> HIDE DEF r
    <2>4. r.string \in BOOLEAN
        BY <2>1, <2>3, Zenon DEF Lexes
    <2>5. /\ r.at \in Nat /\ r.depth \in Int /\ r.deepest \in Int
          /\ r.code \in SUBSET Nat
        BY <2>1, <2>2, <2>3, Zenon DEF Lexes
    <2>6. r = [at |-> r.at, depth |-> r.depth, string |-> r.string,
               deepest |-> r.deepest, code |-> r.code]
        BY <2>3, Zenon DEF Lexes
    <2>7. r \in LexState
        BY <2>4, <2>5, <2>6 DEF LexState
    <2> QED  BY <1>2, <2>7 DEF r, LexStep
<1> QED  BY <1>1, <1>2

\* The definition of Lexed, with the fold unfolded.
LEMMA LexedIsLexing ==
    ASSUME NEW l \in Seq(Token), LexBegin \in LexState
    PROVE  \E x : IsLexing(l, x) /\ Lexed(l) = x[Len(l)]
<1> DEFINE N == Len(l)
           D == DOMAIN l
           step == [p \in LexState \X (1 .. N) |-> LexStep(p[1], l[p[2]])]
           Solves(i) == i = [d \in SUBSET D |->
                                IF d = {} THEN LexBegin
                                ELSE LexStep(i[d \ {Max(d)}], l[Max(d)])]
           it == CHOOSE i : Solves(i)
<1>1. N \in Nat /\ D = 1 .. N /\ \A i \in 1 .. N : l[i] \in Token
    OBVIOUS
<1>2. step \in [LexState \X (1 .. N) -> LexState]
    BY <1>1, LexStepType
<1>3. D \in SUBSET (1 .. N)
    BY <1>1
<1> HIDE DEF D
<1>4. PICK h \in [SUBSET D -> LexState] : \A d \in SUBSET D :
          h[d] = IF d = {} THEN LexBegin
                 ELSE LexStep(h[d \ {Max(d)}], l[Max(d)])
    <2> HIDE DEF step, N
    <2>1. PICK h \in [SUBSET D -> LexState] : \A d \in SUBSET D :
              h[d] = IF d = {} THEN LexBegin ELSE step[<<h[d \ {Max(d)}], Max(d)>>]
        <3>1. HasFold(LexState, step, LexBegin, D)
            BY <1>1, <1>2, <1>3, FoldExists
        <3> QED  BY <3>1, Zenon DEF HasFold
    <2>2. ASSUME NEW d \in SUBSET D, d # {}
          PROVE  step[<<h[d \ {Max(d)}], Max(d)>>] = LexStep(h[d \ {Max(d)}], l[Max(d)])
        <3>1. Max(d) \in 1 .. N
            BY <1>1, <1>3, <2>2, MaxOfPositions
        <3>2. h[d \ {Max(d)}] \in LexState
            OBVIOUS
        <3> QED  BY <3>1, <3>2 DEF step
    <2> QED  BY <2>1, <2>2
<1>5. Solves(h)
    BY <1>4
<1>6. Solves(it)
    BY <1>5, Zenon
<1>7. \A d \in SUBSET D :
           it[d] = IF d = {} THEN LexBegin
                   ELSE LexStep(it[d \ {Max(d)}], l[Max(d)])
    <2> HIDE DEF it
    <2> QED  BY <1>6
<1>8. Lexed(l) = it[D]
    BY Zenon DEF D, Lexed, FoldLeft, MapThenFoldSet, LexStep, LexBegin
<1> HIDE DEF it, Solves, step
<1> DEFINE x == [k \in 0 .. N |-> it[D \cap (1 .. k)]]
<1>9. x[0] = LexBegin /\ x[N] = it[D]
    <2>1. D \cap (1 .. 0) = {} /\ {} \in SUBSET D /\ D \cap (1 .. N) = D
        BY <1>1, <1>3
    <2>2. it[{}] = LexBegin
        BY <1>7, <2>1
    <2>3. x[0] = it[D \cap (1 .. 0)] /\ x[N] = it[D \cap (1 .. N)]
        BY <1>1
    <2> HIDE DEF x
    <2> QED  BY <2>1, <2>2, <2>3
<1>10. ASSUME NEW k \in 1 .. N
      PROVE  x[k] = LexStep(x[k - 1], l[k])
    <2> DEFINE d == D \cap (1 .. k)
    <2>1. d # {} /\ Max(d) = k /\ d \ {k} = D \cap (1 .. k - 1)
        <3>1. k \in D /\ N \in Nat /\ k \in 1 .. N
            BY <1>1
        <3> HIDE DEF N
        <3> QED  BY <1>3, <3>1, UpTo
    <2>2. it[d] = LexStep(it[D \cap (1 .. k - 1)], l[k])
        BY <1>7, <2>1
    <2>3. k \in 0 .. N /\ k - 1 \in 0 .. N
        BY <1>1
    <2> QED  BY <2>2, <2>3
<1> HIDE DEF x
<1>11. \A k \in 0 .. N : x[k] \in LexState
    <2> DEFINE S == {k \in Nat : k <= N => x[k] \in LexState}
    <2>1. 0 \in S
        BY <1>9
    <2>2. ASSUME NEW k \in Nat, k \in S
          PROVE  k + 1 \in S
        <3> SUFFICES ASSUME k + 1 <= N
                     PROVE  x[k + 1] \in LexState
            OBVIOUS
        <3>1. k + 1 \in 1 .. N /\ k + 1 - 1 = k /\ x[k] \in LexState
            BY <1>1, <2>2
        <3>2. x[k + 1] = LexStep(x[k], l[k + 1])
            BY <1>10, <3>1
        <3>3. l[k + 1] \in Token
            BY <1>1, <3>1
        <3> QED  BY <3>1, <3>2, <3>3, LexStepType
    <2>3. Nat \subseteq S
        <3> HIDE DEF S
        <3> QED  BY <2>1, <2>2, SetInduction
    <2> QED  BY <1>1, <2>3
<1>12. x \in [0 .. N -> LexState]
    BY <1>11 DEF x
<1>13. IsLexing(l, x)
    BY <1>9, <1>10, <1>12 DEF IsLexing
<1> QED  BY <1>8, <1>9, <1>13

----------------------------------------------------------------------------
(* The parser goes over the delimiters of a line.                          *)

CancelState == [depth : Int, starts : Seq(Nat), blank : SUBSET Nat]
CancelBegin == [depth |-> depth, starts |-> <<>>, blank |-> {}]

\* p[k] is the state of the parser after the delimiters among the first k
\* tokens of l.
IsCancelling(l, p) ==
    /\ p \in [0 .. Len(l) -> CancelState]
    /\ p[0] = CancelBegin
    /\ \A k \in 1 .. Len(l) :
           p[k] = IF k \in Delimiters(l) THEN Cancel(l, p[k - 1], k) ELSE p[k - 1]

\* What Cancel does with a delimiter, component by component.
Cancels(l, a, i, r) ==
    /\ r = [depth |-> r.depth, starts |-> r.starts, blank |-> r.blank]
    /\ r.depth = IF l[i] = "open" THEN a.depth + 1 ELSE a.depth - 1
    /\ r.starts = IF l[i] = "open" THEN <<i>> \o a.starts
                  ELSE IF a.starts # <<>> /\ a.depth = 1 THEN Tail(a.starts)
                  ELSE a.starts
    /\ r.blank = IF l[i] = "open" THEN a.blank
                 ELSE a.blank \cup ((IF a.starts # <<>> /\ a.depth = 1
                                     THEN Head(a.starts) ELSE 1) .. i)

LEMMA CancelParts ==
    ASSUME NEW l, NEW a \in CancelState, NEW i
    PROVE  IF a.depth < 0 THEN Cancel(l, a, i) = a
           ELSE Cancels(l, a, i, Cancel(l, a, i))
<1> DEFINE r == Cancel(l, a, i)
           whole == a.starts # <<>> /\ a.depth = 1
<1>1. a = [depth |-> a.depth, starts |-> a.starts, blank |-> a.blank]
    BY DEF CancelState
<1>2. CASE a.depth < 0
    BY <1>2, Zenon DEF Cancel
<1>3. CASE ~ (a.depth < 0) /\ l[i] = "open"
    <2> DEFINE d == a.depth + 1
               s == <<i>> \o a.starts
    <2>1. r = [a EXCEPT !.depth = d, !.starts = s]
        BY <1>3, Zenon DEF Cancel, Start
    <2> HIDE DEF r, d, s
    <2>2. r = [depth |-> d, starts |-> s, blank |-> a.blank]
        BY <1>1, <2>1
    <2>3. /\ r.depth = d /\ r.starts = s /\ r.blank = a.blank
          /\ r = [depth |-> r.depth, starts |-> r.starts, blank |-> r.blank]
        BY <2>2
    <2>4. Cancels(l, a, i, r)
        BY <1>3, <2>3, Zenon DEF Cancels, d, s
    <2> QED  BY <1>3, <2>4 DEF r
<1>4. CASE ~ (a.depth < 0) /\ l[i] # "open"
    <2> DEFINE d == a.depth - 1
               s == IF whole THEN Tail(a.starts) ELSE a.starts
               b == a.blank \cup ((IF whole THEN Head(a.starts) ELSE 1) .. i)
    <2>1. r = [depth |-> d, starts |-> s, blank |-> b]
        BY <1>4, Zenon DEF Cancel
    <2> HIDE DEF r, d, s, b
    <2>2. /\ r.depth = d /\ r.starts = s /\ r.blank = b
          /\ r = [depth |-> r.depth, starts |-> r.starts, blank |-> r.blank]
        BY <2>1
    <2>3. Cancels(l, a, i, r)
        BY <1>4, <2>2, Zenon DEF Cancels, d, s, b
    <2> QED  BY <1>4, <2>3 DEF r
<1> QED  BY <1>2, <1>3, <1>4

LEMMA CancelType ==
    ASSUME NEW l, NEW a \in CancelState, NEW i \in Nat
    PROVE  Cancel(l, a, i) \in CancelState
<1> DEFINE r == Cancel(l, a, i)
           from == IF a.starts # <<>> /\ a.depth = 1 THEN Head(a.starts) ELSE 1
<1>1. a.depth \in Int /\ a.starts \in Seq(Nat) /\ a.blank \in SUBSET Nat
    BY DEF CancelState
<1>2. a.depth + 1 \in Int /\ a.depth - 1 \in Int
    BY <1>1
<1>3. <<i>> \o a.starts \in Seq(Nat)
    BY <1>1
<1>4. a.starts # <<>> => Tail(a.starts) \in Seq(Nat) /\ Head(a.starts) \in Nat
    BY <1>1
<1>5. a.blank \cup (from .. i) \in SUBSET Nat
    <2>1. from \in Nat
        BY <1>4
    <2> HIDE DEF from
    <2> QED  BY <1>1, <2>1
<1>6. CASE a.depth < 0
    BY <1>6, CancelParts
<1>7. CASE ~ (a.depth < 0)
    <2>1. Cancels(l, a, i, r)
        BY <1>7, CancelParts
    <2> HIDE DEF r
    <2>2. r.depth \in Int
        BY <1>2, <2>1, Zenon DEF Cancels
    <2>3. r.starts \in Seq(Nat)
        BY <1>1, <1>3, <1>4, <2>1, Zenon DEF Cancels
    <2>4. r.blank \in SUBSET Nat
        BY <1>1, <1>5, <2>1, Zenon DEF Cancels
    <2>5. r = [depth |-> r.depth, starts |-> r.starts, blank |-> r.blank]
        BY <2>1, Zenon DEF Cancels
    <2>6. r \in CancelState
        BY <2>2, <2>3, <2>4, <2>5 DEF CancelState
    <2> QED  BY <2>6 DEF r
<1> QED  BY <1>6, <1>7

\* The definition of Blanked, with the fold unfolded.
LEMMA BlankedIsCancelling ==
    ASSUME NEW l \in Seq(Token), depth \in Int
    PROVE  \E p :
               /\ IsCancelling(l, p)
               /\ LET acc == p[Len(l)]
                  IN  Blanked(l) =
                          [depth |-> acc.depth,
                           blank |-> IF depth # 0 /\ Delimiters(l) = {} THEN DOMAIN l
                                     ELSE IF acc.starts = <<>> THEN acc.blank
                                     ELSE acc.blank \cup (Last(acc.starts) .. Len(l))]
<1> DEFINE N == Len(l)
           D == Delimiters(l)
           step == [q \in CancelState \X (1 .. N) |-> Cancel(l, q[1], q[2])]
           Solves(i) == i = [d \in SUBSET D |->
                                IF d = {} THEN CancelBegin
                                ELSE Cancel(l, i[d \ {Max(d)}], Max(d))]
           it == CHOOSE i : Solves(i)
<1>1. N \in Nat /\ CancelBegin \in CancelState
    BY DEF CancelBegin, CancelState
<1>2. step \in [CancelState \X (1 .. N) -> CancelState]
    BY <1>1, CancelType
<1>3. D \in SUBSET (1 .. N)
    BY DEF Delimiters
<1> HIDE DEF D
<1>4. PICK h \in [SUBSET D -> CancelState] : \A d \in SUBSET D :
          h[d] = IF d = {} THEN CancelBegin
                 ELSE Cancel(l, h[d \ {Max(d)}], Max(d))
    <2> HIDE DEF step, N
    <2>1. PICK h \in [SUBSET D -> CancelState] : \A d \in SUBSET D :
              h[d] = IF d = {} THEN CancelBegin ELSE step[<<h[d \ {Max(d)}], Max(d)>>]
        <3>1. HasFold(CancelState, step, CancelBegin, D)
            BY <1>1, <1>2, <1>3, FoldExists
        <3> QED  BY <3>1, Zenon DEF HasFold
    <2>2. ASSUME NEW d \in SUBSET D, d # {}
          PROVE  step[<<h[d \ {Max(d)}], Max(d)>>] = Cancel(l, h[d \ {Max(d)}], Max(d))
        <3>1. Max(d) \in 1 .. N
            BY <1>1, <1>3, <2>2, MaxOfPositions
        <3>2. h[d \ {Max(d)}] \in CancelState
            OBVIOUS
        <3> QED  BY <3>1, <3>2 DEF step
    <2> QED  BY <2>1, <2>2
<1>5. Solves(h)
    BY <1>4
<1>6. Solves(it)
    BY <1>5, Zenon
<1>7. \A d \in SUBSET D :
           it[d] = IF d = {} THEN CancelBegin
                   ELSE Cancel(l, it[d \ {Max(d)}], Max(d))
    <2> HIDE DEF it
    <2> QED  BY <1>6
<1>8. LET acc == it[D]
      IN  Blanked(l) = [depth |-> acc.depth,
                        blank |-> IF depth # 0 /\ Delimiters(l) = {} THEN DOMAIN l
                                  ELSE IF acc.starts = <<>> THEN acc.blank
                                  ELSE acc.blank \cup (Last(acc.starts) .. Len(l))]
    BY Zenon DEF D, Blanked, MapThenFoldSet, CancelBegin
<1> HIDE DEF it, Solves, step
<1> DEFINE p == [k \in 0 .. N |-> it[D \cap (1 .. k)]]
<1>9. p[0] = CancelBegin /\ p[N] = it[D]
    <2>1. D \cap (1 .. 0) = {} /\ {} \in SUBSET D /\ D \cap (1 .. N) = D
        <3>1. 1 .. 0 = {}
            OBVIOUS
        <3>2. D \cap (1 .. N) = D
            BY <1>3, Zenon
        <3> QED  BY <3>1, <3>2
    <2>2. it[{}] = CancelBegin
        BY <1>7, <2>1
    <2>3. p[0] = it[D \cap (1 .. 0)] /\ p[N] = it[D \cap (1 .. N)]
        BY <1>1
    <2> HIDE DEF p
    <2> QED  BY <2>1, <2>2, <2>3
<1>10. ASSUME NEW k \in 1 .. N
      PROVE  p[k] = IF k \in D THEN Cancel(l, p[k - 1], k) ELSE p[k - 1]
    <2> DEFINE d == D \cap (1 .. k)
    <2>1. /\ k \in D => d # {} /\ Max(d) = k /\ d \ {k} = D \cap (1 .. k - 1)
          /\ k \notin D => d = D \cap (1 .. k - 1)
        <3> HIDE DEF N
        <3> QED  BY <1>1, <1>3, UpTo
    <2>2. k \in D => it[d] = Cancel(l, it[D \cap (1 .. k - 1)], k)
        BY <1>7, <2>1
    <2>3. p[k] = it[d] /\ p[k - 1] = it[D \cap (1 .. k - 1)]
        BY <1>1
    <2> HIDE DEF p
    <2> QED  BY <2>1, <2>2, <2>3
<1> HIDE DEF p
<1>11. \A k \in 0 .. N : p[k] \in CancelState
    <2> DEFINE S == {k \in Nat : k <= N => p[k] \in CancelState}
    <2>1. 0 \in S
        BY <1>1, <1>9
    <2>2. ASSUME NEW k \in Nat, k \in S
          PROVE  k + 1 \in S
        <3> SUFFICES ASSUME k + 1 <= N
                     PROVE  p[k + 1] \in CancelState
            OBVIOUS
        <3>1. k + 1 \in 1 .. N /\ k + 1 - 1 = k /\ p[k] \in CancelState
            BY <1>1, <2>2
        <3>2. p[k + 1] = IF k + 1 \in D THEN Cancel(l, p[k], k + 1) ELSE p[k]
            BY <1>10, <3>1
        <3> QED  BY <3>1, <3>2, CancelType
    <2>3. Nat \subseteq S
        <3> HIDE DEF S
        <3> QED  BY <2>1, <2>2, SetInduction
    <2> QED  BY <1>1, <2>3
<1>12. p \in [0 .. N -> CancelState]
    BY <1>11 DEF p
<1>13. IsCancelling(l, p)
    BY <1>9, <1>10, <1>12 DEF IsCancelling, D
<1> QED  BY <1>8, <1>9, <1>13

----------------------------------------------------------------------------
(* Where the strings of a line are.                                        *)

\* How many of the first k tokens are quotes: a position with an odd number of
\* them before it is inside of a string.
Quotes(l, k) == Cardinality({j \in 1 .. k : l[j] = "quote"})

\* A line of a plain file.
PlainLine(l) == l \in Seq(Token) /\ QuotesApart(l, {"quote", "open", "close"})

LEMMA QuotesStep ==
    ASSUME NEW l, NEW k \in Nat
    PROVE  /\ Quotes(l, k) \in Nat
           /\ Quotes(l, 0) = 0
           /\ Quotes(l, k + 1) = IF l[k + 1] = "quote" THEN Quotes(l, k) + 1
                                 ELSE Quotes(l, k)
<1> DEFINE At(n) == {i \in 1 .. n : l[i] = "quote"}
<1>1. IsFiniteSet(At(k))
    <2>1. IsFiniteSet(1 .. k) /\ At(k) \subseteq 1 .. k
        BY FS_Interval
    <2> QED  BY <2>1, FS_Subset
<1>2. Cardinality(At(k)) \in Nat
    BY <1>1, FS_CardinalityType
<1>3. Cardinality(At(0)) = 0
    <2>1. At(0) = {}
        OBVIOUS
    <2> QED  BY <2>1, FS_EmptySet
<1>4. Cardinality(At(k + 1)) = IF l[k + 1] = "quote" THEN Cardinality(At(k)) + 1
                               ELSE Cardinality(At(k))
    <2>1. CASE l[k + 1] = "quote"
        <3>1. At(k + 1) = At(k) \cup {k + 1} /\ k + 1 \notin At(k)
            BY <2>1
        <3> HIDE DEF At
        <3> QED  BY <1>1, <2>1, <3>1, FS_AddElement
    <2>2. CASE l[k + 1] # "quote"
        <3>1. At(k + 1) = At(k)
            BY <2>2
        <3> QED  BY <2>2, <3>1
    <2> QED  BY <2>1, <2>2
<1> HIDE DEF At
<1>5. \A n : Quotes(l, n) = Cardinality(At(n))
    BY Zenon DEF Quotes, At
<1> QED  BY <1>2, <1>3, <1>4, <1>5

LEMMA QuotesGrow ==
    ASSUME NEW l, NEW k \in Nat, NEW n \in Nat, k <= n
    PROVE  Quotes(l, k) <= Quotes(l, n)
<1> DEFINE S == {m \in Nat : Quotes(l, k) <= Quotes(l, k + m)}
<1>1. 0 \in S
    BY QuotesStep
<1>2. ASSUME NEW m \in Nat, m \in S
      PROVE  m + 1 \in S
    <2>1. k + m \in Nat /\ k + (m + 1) = (k + m) + 1
        OBVIOUS
    <2>2. /\ Quotes(l, k) \in Nat /\ Quotes(l, k + m) \in Nat
          /\ Quotes(l, (k + m) + 1) \in {Quotes(l, k + m), Quotes(l, k + m) + 1}
        BY <2>1, QuotesStep
    <2>3. Quotes(l, k) <= Quotes(l, k + (m + 1))
        BY <1>2, <2>1, <2>2
    <2> QED  BY <2>3
<1>3. Nat \subseteq S
    <2> HIDE DEF S
    <2> QED  BY <1>1, <1>2, SetInduction
<1>4. n - k \in Nat /\ k + (n - k) = n
    OBVIOUS
<1> QED  BY <1>3, <1>4

\* The c-th quote.
LEMMA QuoteWithCount ==
    ASSUME NEW l, NEW n \in Nat, NEW c \in Nat \ {0}, c <= Quotes(l, n)
    PROVE  \E k \in 1 .. n : /\ l[k] = "quote" /\ Quotes(l, k) = c
                             /\ \A j \in 0 .. n : Quotes(l, j) < c => j < k
<1> DEFINE T == {j \in Nat : c <= Quotes(l, j)}
<1>1. PICK k \in T : \A j \in T : k <= j
    BY LeastNat
<1>2. k \in Nat /\ c <= Quotes(l, k) /\ k <= n
    BY <1>1
<1>3. k # 0
    BY <1>2, QuotesStep
<1>4. k - 1 \in Nat /\ (k - 1) + 1 = k /\ ~ (k <= k - 1)
    BY <1>2, <1>3
<1>5. /\ Quotes(l, k - 1) \in Nat
      /\ Quotes(l, k) = IF l[k] = "quote" THEN Quotes(l, k - 1) + 1
                        ELSE Quotes(l, k - 1)
    BY <1>4, QuotesStep
<1>6. ~ (c <= Quotes(l, k - 1))
    BY <1>1, <1>4
<1>7. l[k] = "quote" /\ Quotes(l, k) = c
    BY <1>2, <1>5, <1>6
<1>8. ASSUME NEW j \in 0 .. n, Quotes(l, j) < c
      PROVE  j < k
    <2>1. j \in Nat /\ Quotes(l, j) \in Nat /\ Quotes(l, k) \in Nat
        BY <1>2, QuotesStep
    <2>2. k <= j => Quotes(l, k) <= Quotes(l, j)
        BY <1>2, <2>1, QuotesGrow
    <2> QED  BY <1>2, <1>7, <1>8, <2>1, <2>2
<1> QED  BY <1>2, <1>3, <1>7, <1>8

\* In a plain line every quote is alone and begins or ends a string.
LEMMA StringsOfPlain ==
    ASSUME NEW l, PlainLine(l)
    PROVE  LET Q == {i \in DOMAIN l : l[i] = "quote"}
           IN  /\ Quotes(l, Len(l)) % 2 = 0
               /\ StringsOf(l) = {s \in Q \X Q : /\ Quotes(l, s[1]) % 2 = 1
                                                 /\ Quotes(l, s[2]) = Quotes(l, s[1]) + 1}
<1> DEFINE Q == {i \in DOMAIN l : l[i] = "quote"}
           N == Len(l)
           beside(i) == {i - 1, i + 1} \cap DOMAIN l
           q == {i \in DOMAIN l : l[i] = "quote" /\ \A j \in beside(i) : l[j] # "quote"}
           rank(i) == Cardinality({j \in q : j <= i})
<1>1. l \in Seq(Token) /\ N \in Nat /\ DOMAIN l = 1 .. N
    BY DEF PlainLine
<1>2. \A i \in 1 .. N - 1 : l[i + 1] = "quote" => l[i] # "quote"
    BY DEF PlainLine, QuotesApart
<1>3. q = Q
    <2> SUFFICES ASSUME NEW i \in 1 .. N, l[i] = "quote", NEW j \in beside(i)
                 PROVE  l[j] # "quote"
        BY <1>1
    <2>1. j \in 1 .. N /\ (j = i - 1 \/ j = i + 1)
        BY <1>1
    <2>2. CASE j = i - 1
        <3>1. j \in 1 .. N - 1 /\ j + 1 = i
            BY <1>1, <2>1, <2>2
        <3> QED  BY <1>2, <3>1
    <2>3. CASE j = i + 1
        <3>1. i \in 1 .. N - 1
            BY <1>1, <2>1, <2>3
        <3> QED  BY <1>2, <2>3, <3>1
    <2> QED  BY <2>1, <2>2, <2>3
<1>4. \A i \in 1 .. N : rank(i) = Quotes(l, i)
    <2> SUFFICES ASSUME NEW i \in 1 .. N
                 PROVE  rank(i) = Quotes(l, i)
        OBVIOUS
    <2>1. {j \in Q : j <= i} = {j \in 1 .. i : l[j] = "quote"}
        BY <1>1
    <2> HIDE DEF q, Q
    <2> QED  BY <1>3, <2>1 DEF Quotes
<1>5. Cardinality(Q) = Quotes(l, N)
    BY <1>1 DEF Quotes
<1>6. Cardinality(Q) % 2 = 0
    BY DEF PlainLine, QuotesApart
<1>7. StringsOf(l) = IF Cardinality(q) % 2 # 0 THEN {}
                     ELSE {s \in q \X q : rank(s[1]) % 2 = 1
                                          /\ rank(s[2]) = rank(s[1]) + 1}
    BY Zenon DEF StringsOf
<1>8. Q \subseteq 1 .. N
    BY <1>1
<1> HIDE DEF q, Q, rank, N
<1>9. StringsOf(l) = {s \in Q \X Q : rank(s[1]) % 2 = 1
                                     /\ rank(s[2]) = rank(s[1]) + 1}
    BY <1>3, <1>6, <1>7
<1>10. \A s \in Q \X Q : rank(s[1]) = Quotes(l, s[1]) /\ rank(s[2]) = Quotes(l, s[2])
    BY <1>4, <1>8
<1>11. StringsOf(l) = {s \in Q \X Q : Quotes(l, s[1]) % 2 = 1
                                      /\ Quotes(l, s[2]) = Quotes(l, s[1]) + 1}
    BY <1>9, <1>10
<1> QED  BY <1>5, <1>6, <1>11 DEF Q, N

\* The delimiters of a plain line are those outside of its strings.
LEMMA DelimitersOfPlain ==
    ASSUME NEW l, PlainLine(l), NEW i \in 1 .. Len(l)
    PROVE  i \in Delimiters(l) <=> /\ l[i] \in {"open", "close"}
                                   /\ Quotes(l, i - 1) % 2 = 0
<1> DEFINE N == Len(l)
           c == Quotes(l, i - 1)
           Q == {j \in DOMAIN l : l[j] = "quote"}
<1>1. l \in Seq(Token) /\ N \in Nat /\ DOMAIN l = 1 .. N /\ i \in 1 .. N /\ i \in Nat
    BY DEF PlainLine
<1>2. \A j \in 1 .. N - 1 : l[j + 1] = "quote" => l[j] \notin {"quote", "open", "close"}
    BY DEF PlainLine, QuotesApart
<1> SUFFICES ASSUME l[i] \in {"open", "close"}
             PROVE  i \in Delimiters(l) <=> c % 2 = 0
    BY DEF Delimiters
<1>3. ~ (i < N /\ l[i + 1] = "quote")
    BY <1>1, <1>2
<1>4. i \in Delimiters(l) <=> ~ \E s \in StringsOf(l) : s[1] < i /\ i + 1 < s[2]
    BY <1>1, <1>3 DEF Delimiters
<1>5. c \in Nat /\ Quotes(l, i) = c /\ Quotes(l, N) \in Nat
    <2>1. i - 1 \in Nat /\ (i - 1) + 1 = i /\ l[i] # "quote"
        BY <1>1
    <2> QED  BY <1>1, <2>1, QuotesStep
<1>6. /\ Quotes(l, N) % 2 = 0
      /\ StringsOf(l) = {s \in Q \X Q : /\ Quotes(l, s[1]) % 2 = 1
                                        /\ Quotes(l, s[2]) = Quotes(l, s[1]) + 1}
    BY StringsOfPlain
<1> HIDE DEF c, Q, N
<1>7. ASSUME c % 2 # 0
      PROVE  \E s \in StringsOf(l) : s[1] < i /\ i + 1 < s[2]
    <2>1. c # 0 /\ c % 2 = 1
        BY <1>5, <1>7
    <2>2. c <= Quotes(l, N) /\ c # Quotes(l, N)
        BY <1>1, <1>5, <1>6, <1>7, QuotesGrow
    <2>3. c + 1 \in Nat \ {0} /\ c + 1 <= Quotes(l, N) /\ c \in Nat \ {0}
        BY <1>5, <2>1, <2>2
    <2>4. PICK a \in 1 .. i : l[a] = "quote" /\ Quotes(l, a) = c
        <3>1. i \in Nat /\ c \in Nat \ {0} /\ c <= Quotes(l, i)
            BY <1>1, <1>5, <2>3
        <3> QED  BY <3>1, QuoteWithCount
    <2>5. PICK b \in 1 .. N : /\ l[b] = "quote" /\ Quotes(l, b) = c + 1
                              /\ \A j \in 0 .. N : Quotes(l, j) < c + 1 => j < b
        BY <1>1, <2>3, QuoteWithCount
    <2>6. a < i
        BY <1>1, <2>4
    <2>7. i < b
        BY <1>1, <1>5, <2>5
    <2>8. i + 1 # b
        BY <1>1, <1>3, <2>5, <2>7
    <2>9. i + 1 < b
        BY <1>1, <2>5, <2>7, <2>8
    <2>10. a \in Q /\ b \in Q
        BY <1>1, <2>4, <2>5 DEF Q
    <2>11. <<a, b>> \in StringsOf(l)
        BY <1>6, <2>1, <2>4, <2>5, <2>10
    <2> QED  BY <2>6, <2>9, <2>11
<1>8. ASSUME NEW s \in StringsOf(l), s[1] < i, i + 1 < s[2]
      PROVE  c % 2 # 0
    <2>1. /\ s[1] \in Q /\ s[2] \in Q /\ Quotes(l, s[1]) % 2 = 1
          /\ Quotes(l, s[2]) = Quotes(l, s[1]) + 1
        BY <1>6
    <2>2. /\ s[1] \in Nat /\ s[2] \in Nat /\ s[2] - 1 \in Nat
          /\ (s[2] - 1) + 1 = s[2] /\ l[s[2]] = "quote"
        BY <1>1, <2>1 DEF Q
    <2> DEFINE x == s[1]
               y == s[2]
    <2>3. /\ Quotes(l, y) = Quotes(l, y - 1) + 1
          /\ Quotes(l, y - 1) \in Nat /\ Quotes(l, x) \in Nat
        BY <2>2, QuotesStep
    <2>4. x <= i /\ i <= y - 1
        BY <1>1, <1>8, <2>2
    <2>5. Quotes(l, x) <= Quotes(l, i) /\ Quotes(l, i) <= Quotes(l, y - 1)
        BY <1>1, <2>2, <2>4, QuotesGrow
    <2>6. c = Quotes(l, x)
        BY <1>5, <2>1, <2>3, <2>5
    <2> QED  BY <2>1, <2>6
<1> QED  BY <1>4, <1>7, <1>8

----------------------------------------------------------------------------
(* The lexer on a line that coqc accepts.                                  *)

\* What is known of the lexer after k tokens of any line.
Placed(l, x, k) ==
    /\ x[k].code \subseteq 1 .. k
    /\ x[k].depth <= x[k].deepest
    /\ x[k].depth >= 0 => /\ x[k].at = k + 1
                          /\ x[k].string <=> Quotes(l, k) % 2 = 1

LEMMA LexPlace ==
    ASSUME NEW l \in Seq(Token), NEW x, IsLexing(l, x),
           coq.depth \in Int, coq.string = FALSE
    PROVE  \A k \in 0 .. Len(l) : Placed(l, x, k)
<1> DEFINE N == Len(l)
           S == {k \in Nat : k <= N => Placed(l, x, k)}
<1>1. N \in Nat /\ \A i \in 1 .. N : l[i] \in Token
    OBVIOUS
<1>2. 0 \in S
    <2>1. x[0] = LexBegin /\ Quotes(l, 0) = 0
        BY QuotesStep DEF IsLexing
    <2> QED  BY <2>1 DEF LexBegin, Placed
<1>3. ASSUME NEW k \in Nat, k \in S
      PROVE  k + 1 \in S
    <2> SUFFICES ASSUME k + 1 <= N
                 PROVE  Placed(l, x, k + 1)
        OBVIOUS
    <2> DEFINE a == x[k]
               r == x[k + 1]
               token == l[k + 1]
    <2>1. Placed(l, x, k) /\ k \in 0 .. N /\ k + 1 \in 1 .. N /\ (k + 1) - 1 = k
        BY <1>1, <1>3
    <2>2. a \in LexState /\ token \in Token /\ r = LexStep(a, token)
        BY <1>1, <2>1 DEF IsLexing
    <2>3. /\ a.depth \in Int /\ a.deepest \in Int /\ a.string \in BOOLEAN
          /\ a.at \in Nat
        BY <2>2 DEF LexState
    <2>4. a.code \subseteq 1 .. k /\ a.depth <= a.deepest
        BY <2>1 DEF Placed
    <2>5. a.depth >= 0 => a.at = k + 1 /\ (a.string <=> Quotes(l, k) % 2 = 1)
        BY <2>1 DEF Placed
    <2>6. /\ Quotes(l, k) \in Nat
          /\ Quotes(l, k + 1) = IF token = "quote" THEN Quotes(l, k) + 1
                                ELSE Quotes(l, k)
        BY QuotesStep
    <2> HIDE DEF a, r, token
    <2>7. CASE a.depth < 0
        <3>1. r = a /\ ~ (a.depth >= 0)
            BY <2>2, <2>3, <2>7 DEF LexStep
        <3>2. r.code \subseteq 1 .. k + 1
            BY <2>4, <3>1
        <3> QED  BY <2>4, <3>1, <3>2 DEF Placed, r
    <2>8. CASE ~ (a.depth < 0)
        <3>1. a.depth >= 0
            BY <2>3, <2>8
        <3>2. Lexes(a, token, r)
            BY <2>2, <2>8, LexParts DEF LexStep
        <3>3. r.at = (k + 1) + 1
            BY <2>5, <3>1, <3>2, Zenon DEF Lexes
        <3>4. r.code \subseteq 1 .. k + 1
            <4>1. r.code \subseteq a.code \cup {k + 1}
                BY <2>5, <3>1, <3>2, Zenon DEF Lexes
            <4> QED  BY <2>4, <4>1
        <3>5. r.string <=> Quotes(l, k + 1) % 2 = 1
            <4>1. r.string <=> IF token = "quote" THEN ~ a.string ELSE a.string
                BY <3>2, Zenon DEF Lexes
            <4>2. a.string <=> Quotes(l, k) % 2 = 1
                BY <2>5, <3>1
            <4>3. token = "quote" =>
                      (Quotes(l, k + 1) % 2 = 1 <=> ~ (Quotes(l, k) % 2 = 1))
                BY <2>6
            <4> QED  BY <2>6, <4>1, <4>2, <4>3, Zenon
        <3>6. r.depth <= r.deepest
            <4>1. /\ r.depth = IF Opens(a, token) THEN a.depth + 1
                               ELSE IF Closes(a, token) THEN a.depth - 1
                               ELSE a.depth
                  /\ r.deepest = IF Opens(a, token) /\ a.deepest <= a.depth
                                 THEN a.depth + 1 ELSE a.deepest
                BY <3>2, Zenon DEF Lexes
            <4> QED  BY <2>3, <2>4, <4>1
        <3> QED  BY <3>3, <3>4, <3>5, <3>6 DEF Placed, r
    <2> QED  BY <2>7, <2>8
<1>4. Nat \subseteq S
    <2> HIDE DEF S
    <2> QED  BY <1>2, <1>3, SetInduction
<1> QED  BY <1>1, <1>4

\* A line that ends well for coqc went well all along.
LEMMA LexSurvives ==
    ASSUME NEW l \in Seq(Token), NEW x, IsLexing(l, x), x[Len(l)].depth >= 0
    PROVE  \A k \in 0 .. Len(l) : x[k].depth >= 0 /\ x[k].deepest <= x[Len(l)].deepest
<1> DEFINE N == Len(l)
           Good(k) == x[k].depth >= 0 /\ x[k].deepest <= x[N].deepest
           S == {m \in Nat : m <= N => Good(N - m)}
<1>1. /\ N \in Nat /\ \A i \in 1 .. N : l[i] \in Token
      /\ \A k \in 0 .. N : x[k] \in LexState
    BY DEF IsLexing
<1>2. \A k \in 0 .. N : x[k].depth \in Int /\ x[k].deepest \in Int
    BY <1>1 DEF LexState
<1>3. 0 \in S
    <2>1. N - 0 = N /\ N \in 0 .. N
        BY <1>1
    <2>2. Good(N)
        BY <1>2, <2>1
    <2> QED  BY <2>1, <2>2
<1>4. ASSUME NEW m \in Nat, m \in S
      PROVE  m + 1 \in S
    <2> SUFFICES ASSUME m + 1 <= N
                 PROVE  Good(N - (m + 1))
        OBVIOUS
    <2> DEFINE k == N - (m + 1)
    <2>1. /\ k \in 0 .. N /\ k + 1 \in 1 .. N /\ (k + 1) - 1 = k
          /\ k + 1 = N - m /\ m <= N /\ N \in 0 .. N /\ k + 1 \in 0 .. N
        BY <1>1
    <2>2. Good(k + 1)
        BY <1>4, <2>1
    <2> HIDE DEF k
    <2>3. x[k] \in LexState /\ l[k + 1] \in Token /\ x[k + 1] = LexStep(x[k], l[k + 1])
        BY <1>1, <2>1 DEF IsLexing
    <2>4. /\ x[k].depth \in Int /\ x[k].deepest \in Int
          /\ x[k + 1].depth \in Int /\ x[k + 1].deepest \in Int
          /\ x[N].deepest \in Int
        BY <1>2, <2>1
    <2>5. ~ (x[k].depth < 0)
        <3> SUFFICES ASSUME x[k].depth < 0
                     PROVE  FALSE
            OBVIOUS
        <3>1. x[k + 1] = x[k]
            BY <2>3 DEF LexStep
        <3> QED  BY <2>2, <2>4, <3>1
    <2>6. Lexes(x[k], l[k + 1], x[k + 1])
        BY <2>3, <2>5, LexParts DEF LexStep
    <2>7. \/ x[k + 1].deepest = x[k].deepest
          \/ x[k].deepest <= x[k].depth /\ x[k + 1].deepest = x[k].depth + 1
        BY <2>6, Zenon DEF Lexes
    <2>8. Good(k)
        BY <2>2, <2>4, <2>5, <2>7
    <2> QED  BY <2>8 DEF k
<1>5. Nat \subseteq S
    <2> HIDE DEF S
    <2> QED  BY <1>3, <1>4, SetInduction
<1>6. ASSUME NEW k \in 0 .. N
      PROVE  Good(k)
    <2>1. N - k \in Nat /\ N - k <= N /\ N - (N - k) = k
        BY <1>1
    <2>2. N - k \in S
        BY <1>5, <2>1
    <2> QED  BY <2>1, <2>2
<1> QED  BY <1>6

----------------------------------------------------------------------------
(* The parser and the lexer side by side, on a plain line.                 *)

\* A plain line that coqc accepts, entered and left outside of strings, with
\* the parser in agreement with coqc on the comments that are open.
SideBySide(l, x, p) ==
    /\ PlainLine(l) /\ IsLexing(l, x) /\ IsCancelling(l, p)
    /\ coq.depth \in Int /\ coq.string = FALSE /\ depth = coq.depth
    /\ x[Len(l)].depth >= 0

\* What either does with the next token.
Stays(l, x, p, k) ==
    /\ k + 1 \notin Delimiters(l) /\ p[k + 1] = p[k]
    /\ x[k + 1].depth = x[k].depth
    /\ x[k + 1].code = IF x[k].depth = 0 THEN x[k].code \cup {k + 1} ELSE x[k].code
GoesIn(l, x, p, k) ==
    /\ k + 1 \in Delimiters(l)
    /\ x[k + 1].depth = x[k].depth + 1 /\ x[k + 1].code = x[k].code
    /\ p[k].depth >= 0 => /\ p[k + 1].depth = p[k].depth + 1
                          /\ p[k + 1].starts = <<k + 1>> \o p[k].starts
                          /\ p[k + 1].blank = p[k].blank
GoesOut(l, x, p, k) ==
    LET whole == p[k].starts # <<>> /\ p[k].depth = 1
    IN  /\ k + 1 \in Delimiters(l)
        /\ x[k + 1].depth = x[k].depth - 1
        /\ x[k].depth # 0 => x[k + 1].code = x[k].code
        /\ p[k].depth >= 0 => /\ p[k + 1].depth = p[k].depth - 1
                              /\ p[k + 1].starts = IF whole THEN Tail(p[k].starts)
                                                   ELSE p[k].starts
                              /\ p[k + 1].blank = p[k].blank \cup
                                     ((IF whole THEN Head(p[k].starts) ELSE 1) .. k + 1)

\* What the parser takes for a delimiter is one for coqc, and the other way
\* around.
LEMMA SameDelimiters ==
    ASSUME NEW l, NEW x, NEW p, SideBySide(l, x, p), NEW k \in 0 .. Len(l) - 1
    PROVE  Stays(l, x, p, k) \/ GoesIn(l, x, p, k) \/ GoesOut(l, x, p, k)
<1> DEFINE N == Len(l)
           a == x[k]
           r == x[k + 1]
           c == p[k]
           e == p[k + 1]
           token == l[k + 1]
<1>1. /\ l \in Seq(Token) /\ N \in Nat /\ \A i \in 1 .. N : l[i] \in Token
      /\ k \in Nat /\ k \in 0 .. N /\ k + 1 \in 1 .. N /\ (k + 1) - 1 = k
    BY DEF SideBySide, PlainLine
<1>2. a \in LexState /\ token \in Token /\ r = LexStep(a, token)
    BY <1>1 DEF SideBySide, IsLexing
<1>3. c \in CancelState /\ e = IF k + 1 \in Delimiters(l) THEN Cancel(l, c, k + 1) ELSE c
    BY <1>1 DEF SideBySide, IsCancelling
<1>4. a.depth \in Int /\ c.depth \in Int
    BY <1>2, <1>3 DEF LexState, CancelState
<1>5. a.depth >= 0
    BY <1>1, LexSurvives DEF SideBySide
<1>6. a.at = k + 1 /\ (a.string <=> Quotes(l, k) % 2 = 1)
    <2>1. Placed(l, x, k)
        BY <1>1, LexPlace DEF SideBySide
    <2> QED  BY <1>5, <2>1 DEF Placed
<1>7. k + 1 \in Delimiters(l) <=> Opens(a, token) \/ Closes(a, token)
    <2>1. k + 1 \in Delimiters(l) <=> /\ token \in {"open", "close"}
                                      /\ Quotes(l, k) % 2 = 0
        BY <1>1, DelimitersOfPlain DEF SideBySide
    <2>2. Quotes(l, k) % 2 = 0 <=> ~ (Quotes(l, k) % 2 = 1)
        <3>1. Quotes(l, k) \in Nat
            BY <1>1, QuotesStep
        <3> QED  BY <3>1
    <2> QED  BY <1>6, <2>1, <2>2 DEF Opens, Closes
<1>8. Lexes(a, token, r)
    BY <1>2, <1>4, <1>5, LexParts DEF LexStep
<1>9. ASSUME k + 1 \in Delimiters(l), c.depth >= 0
      PROVE  Cancels(l, c, k + 1, e)
    <2>1. ~ (c.depth < 0)
        BY <1>4, <1>9
    <2> QED  BY <1>3, <1>9, <2>1, CancelParts, Zenon
<1> HIDE DEF a, r, c, e, token
<1>10. CASE Opens(a, token)
    <2>1. k + 1 \in Delimiters(l) /\ token = "open"
        BY <1>7, <1>10 DEF Opens
    <2>2. r.depth = a.depth + 1 /\ r.code = a.code
        BY <1>8, <1>10, Zenon DEF Lexes
    <2>3. ASSUME c.depth >= 0
          PROVE  /\ e.depth = c.depth + 1 /\ e.starts = <<k + 1>> \o c.starts
                 /\ e.blank = c.blank
        BY <1>9, <2>1, <2>3, Zenon DEF Cancels, token
    <2>4. GoesIn(l, x, p, k)
        BY <2>1, <2>2, <2>3, Zenon DEF GoesIn, a, r, c, e
    <2> QED  BY <2>4
<1>11. CASE Closes(a, token)
    <2>1. k + 1 \in Delimiters(l) /\ token = "close" /\ token # "open"
        BY <1>7, <1>11 DEF Closes
    <2>2. ~ Opens(a, token)
        BY <2>1 DEF Opens
    <2>3. r.depth = a.depth - 1 /\ (a.depth # 0 => r.code = a.code)
        BY <1>8, <1>11, <2>2, Zenon DEF Lexes
    <2> DEFINE whole == c.starts # <<>> /\ c.depth = 1
    <2>4. ASSUME c.depth >= 0
          PROVE  /\ e.depth = c.depth - 1
                 /\ e.starts = IF whole THEN Tail(c.starts) ELSE c.starts
                 /\ e.blank = c.blank \cup ((IF whole THEN Head(c.starts) ELSE 1) .. k + 1)
        BY <1>9, <2>1, <2>4, Zenon DEF Cancels, token
    <2>5. GoesOut(l, x, p, k)
        BY <2>1, <2>3, <2>4, Zenon DEF GoesOut, a, r, c, e
    <2> QED  BY <2>5
<1>12. CASE ~ (Opens(a, token) \/ Closes(a, token))
    <2>1. k + 1 \notin Delimiters(l) /\ e = c
        BY <1>3, <1>7, <1>12
    <2>2. r.depth = a.depth
          /\ r.code = IF a.depth = 0 THEN a.code \cup {k + 1} ELSE a.code
        BY <1>6, <1>8, <1>12, Zenon DEF Lexes
    <2>3. Stays(l, x, p, k)
        BY <2>1, <2>2, Zenon DEF Stays, a, r, c, e
    <2> QED  BY <2>3
<1> QED  BY <1>10, <1>11, <1>12

\* So they agree on how many comments are open after every token.
LEMMA SameDepth ==
    ASSUME NEW l, NEW x, NEW p, SideBySide(l, x, p)
    PROVE  \A k \in 0 .. Len(l) : p[k].depth = x[k].depth /\ x[k].depth >= 0
<1> DEFINE N == Len(l)
           S == {k \in Nat : k <= N => p[k].depth = x[k].depth}
<1>1. N \in Nat /\ \A k \in 0 .. N : x[k].depth >= 0
    <2>1. l \in Seq(Token)
        BY DEF SideBySide, PlainLine
    <2> QED  BY <2>1, LexSurvives DEF SideBySide
<1>2. 0 \in S
    BY DEF SideBySide, IsLexing, IsCancelling, LexBegin, CancelBegin
<1>3. ASSUME NEW k \in Nat, k \in S
      PROVE  k + 1 \in S
    <2> SUFFICES ASSUME k + 1 <= N
                 PROVE  p[k + 1].depth = x[k + 1].depth
        OBVIOUS
    <2>1. k \in 0 .. N - 1 /\ k \in 0 .. N /\ p[k].depth = x[k].depth
        BY <1>1, <1>3
    <2>2. p[k].depth >= 0
        BY <1>1, <2>1
    <2>3. CASE Stays(l, x, p, k)
        BY <2>1, <2>3, Zenon DEF Stays
    <2>4. CASE GoesIn(l, x, p, k)
        BY <2>1, <2>2, <2>4, Zenon DEF GoesIn
    <2>5. CASE GoesOut(l, x, p, k)
        BY <2>1, <2>2, <2>5, Zenon DEF GoesOut
    <2>6. Stays(l, x, p, k) \/ GoesIn(l, x, p, k) \/ GoesOut(l, x, p, k)
        BY <2>1, SameDelimiters
    <2> QED  BY <2>3, <2>4, <2>5, <2>6
<1>4. Nat \subseteq S
    <2> HIDE DEF S
    <2> QED  BY <1>2, <1>3, SetInduction
<1> QED  BY <1>1, <1>4

----------------------------------------------------------------------------
(* A line on which no comment is nested.                                   *)

\* After k tokens: outside of comments everything but the code is blanked; in
\* a comment that began on this line at i the text before i is settled; in one
\* that began earlier and has met no delimiter nothing is.
Outside(l, x, p, k) ==
    /\ p[k].depth = 0 /\ p[k].starts = <<>>
    /\ p[k].blank = (1 .. k) \ x[k].code
    /\ depth # 0 => Delimiters(l) # {}
InsideFrom(l, x, p, k, i) ==
    /\ p[k].depth = 1 /\ p[k].starts = <<i>> /\ i \in Delimiters(l)
    /\ x[k].code \subseteq 1 .. i - 1
    /\ p[k].blank = (1 .. i - 1) \ x[k].code
Inside(l, x, p, k) ==
    /\ p[k].depth = 1 /\ p[k].starts = <<>> /\ depth = 1
    /\ x[k].code = {} /\ p[k].blank = {}
    /\ \A i \in 1 .. k : i \notin Delimiters(l)
FlatSoFar(l, x, p, k) ==
    \/ Outside(l, x, p, k)
    \/ \E i \in 1 .. k : InsideFrom(l, x, p, k, i)
    \/ Inside(l, x, p, k)

LEMMA FlatBegin ==
    ASSUME NEW l, NEW x, NEW p, SideBySide(l, x, p), p[0].depth \in {0, 1}
    PROVE  FlatSoFar(l, x, p, 0)
<1>1. p[0] = CancelBegin /\ x[0] = LexBegin
    BY DEF SideBySide, IsCancelling, IsLexing
<1>2. p[0].depth = depth /\ p[0].starts = <<>> /\ p[0].blank = {} /\ x[0].code = {}
    BY <1>1 DEF CancelBegin, LexBegin
<1>3. 1 .. 0 = {}
    OBVIOUS
<1>4. CASE p[0].depth = 0
    <2>1. Outside(l, x, p, 0)
        BY <1>2, <1>3, <1>4 DEF Outside
    <2> QED  BY <2>1 DEF FlatSoFar
<1>5. CASE p[0].depth = 1
    <2>1. Inside(l, x, p, 0)
        BY <1>2, <1>3, <1>5 DEF Inside
    <2> QED  BY <2>1 DEF FlatSoFar
<1> QED  BY <1>4, <1>5

LEMMA FlatStep ==
    ASSUME NEW l, NEW x, NEW p, SideBySide(l, x, p), NEW k \in 0 .. Len(l) - 1,
           FlatSoFar(l, x, p, k), p[k + 1].depth \in {0, 1}
    PROVE  FlatSoFar(l, x, p, k + 1)
<1> DEFINE N == Len(l)
           D == Delimiters(l)
           before == x[k].code
           after == x[k + 1].code
<1>1. k \in Nat /\ k + 1 \in Nat /\ k \in 0 .. N /\ before \subseteq 1 .. k
    <2>1. l \in Seq(Token) /\ N \in Nat
        BY DEF SideBySide, PlainLine
    <2>2. k \in Nat /\ k \in 0 .. N
        BY <2>1
    <2>3. Placed(l, x, k)
        BY <2>1, <2>2, LexPlace DEF SideBySide
    <2> QED  BY <2>2, <2>3 DEF Placed
<1>2. p[k].depth = x[k].depth /\ p[k].depth \in {0, 1}
    <2>1. p[k].depth = x[k].depth
        BY <1>1, SameDepth
    <2> QED  BY <2>1 DEF FlatSoFar, Outside, InsideFrom, Inside
<1>3. Stays(l, x, p, k) \/ GoesIn(l, x, p, k) \/ GoesOut(l, x, p, k)
    BY SameDelimiters
<1>4. CASE Outside(l, x, p, k)
    <2>0. p[k].depth = 0 /\ x[k].depth = 0 /\ p[k].starts = <<>>
          /\ p[k].blank = (1 .. k) \ before /\ (depth # 0 => D # {})
        BY <1>2, <1>4 DEF Outside
    <2>1. CASE Stays(l, x, p, k)
        <3>1. p[k + 1] = p[k] /\ after = before \cup {k + 1}
            BY <2>0, <2>1 DEF Stays
        <3>2. (1 .. k) \ before = (1 .. k + 1) \ after
            BY <1>1, <3>1
        <3>3. Outside(l, x, p, k + 1)
            BY <2>0, <3>1, <3>2, Zenon DEF Outside
        <3> QED  BY <3>3 DEF FlatSoFar
    <2>2. CASE GoesIn(l, x, p, k)
        <3>1. /\ k + 1 \in D /\ after = before /\ p[k + 1].depth = 1
              /\ p[k + 1].starts = <<k + 1>> \o p[k].starts
              /\ p[k + 1].blank = p[k].blank
            BY <2>0, <2>2 DEF GoesIn
        <3>2. p[k + 1].starts = <<k + 1>>
            BY <2>0, <3>1
        <3>3. (k + 1) - 1 = k /\ k + 1 \in 1 .. k + 1
            BY <1>1
        <3>4. InsideFrom(l, x, p, k + 1, k + 1)
            BY <1>1, <2>0, <3>1, <3>2, <3>3, Zenon DEF InsideFrom
        <3> QED  BY <3>3, <3>4 DEF FlatSoFar
    <2>3. CASE GoesOut(l, x, p, k)
        <3>1. p[k + 1].depth = -1
            BY <2>0, <2>3 DEF GoesOut
        <3> QED  BY <3>1
    <2> QED  BY <1>3, <2>1, <2>2, <2>3
<1>5. ASSUME NEW i \in 1 .. k, InsideFrom(l, x, p, k, i)
      PROVE  FlatSoFar(l, x, p, k + 1)
    <2>0. /\ p[k].depth = 1 /\ x[k].depth = 1 /\ p[k].starts = <<i>> /\ i \in D
          /\ before \subseteq 1 .. i - 1 /\ p[k].blank = (1 .. i - 1) \ before
        BY <1>2, <1>5 DEF InsideFrom
    <2>1. CASE Stays(l, x, p, k)
        <3>1. p[k + 1] = p[k] /\ after = before /\ i \in 1 .. k + 1
            BY <1>1, <2>0, <2>1 DEF Stays
        <3>2. InsideFrom(l, x, p, k + 1, i)
            BY <2>0, <3>1, Zenon DEF InsideFrom
        <3> QED  BY <3>1, <3>2 DEF FlatSoFar
    <2>2. CASE GoesIn(l, x, p, k)
        <3>1. p[k + 1].depth = 2
            BY <2>0, <2>2 DEF GoesIn
        <3> QED  BY <3>1
    <2>3. CASE GoesOut(l, x, p, k)
        <3>1. p[k].starts # <<>> /\ Tail(p[k].starts) = <<>> /\ Head(p[k].starts) = i
            BY <2>0
        <3>2. /\ p[k + 1].depth = 0 /\ after = before
              /\ p[k + 1].starts = <<>> /\ p[k + 1].blank = p[k].blank \cup (i .. k + 1)
            BY <2>0, <2>3, <3>1 DEF GoesOut
        <3>3. p[k + 1].blank = (1 .. k + 1) \ after
            BY <1>1, <2>0, <3>2
        <3>4. Outside(l, x, p, k + 1)
            BY <2>0, <3>2, <3>3 DEF Outside
        <3> QED  BY <3>4 DEF FlatSoFar
    <2> QED  BY <1>3, <2>1, <2>2, <2>3
<1>6. CASE Inside(l, x, p, k)
    <2>0. /\ p[k].depth = 1 /\ x[k].depth = 1 /\ p[k].starts = <<>> /\ depth = 1
          /\ before = {} /\ p[k].blank = {} /\ \A i \in 1 .. k : i \notin D
        BY <1>2, <1>6 DEF Inside
    <2>1. CASE Stays(l, x, p, k)
        <3>1. k + 1 \notin D /\ p[k + 1] = p[k] /\ after = before
            BY <2>0, <2>1 DEF Stays
        <3>2. \A i \in 1 .. k + 1 : i \in 1 .. k \/ i = k + 1
            BY <1>1
        <3>3. Inside(l, x, p, k + 1)
            BY <2>0, <3>1, <3>2, Zenon DEF Inside
        <3> QED  BY <3>3 DEF FlatSoFar
    <2>2. CASE GoesIn(l, x, p, k)
        <3>1. p[k + 1].depth = 2
            BY <2>0, <2>2 DEF GoesIn
        <3> QED  BY <3>1
    <2>3. CASE GoesOut(l, x, p, k)
        <3>1. /\ k + 1 \in D /\ p[k + 1].depth = 0 /\ after = before
              /\ p[k + 1].starts = <<>> /\ p[k + 1].blank = p[k].blank \cup (1 .. k + 1)
            BY <2>0, <2>3 DEF GoesOut
        <3>2. p[k + 1].blank = (1 .. k + 1) \ after
            BY <2>0, <3>1
        <3>3. Outside(l, x, p, k + 1)
            BY <3>1, <3>2 DEF Outside
        <3> QED  BY <3>3 DEF FlatSoFar
    <2> QED  BY <1>3, <2>1, <2>2, <2>3
<1> QED  BY <1>4, <1>5, <1>6 DEF FlatSoFar

\* On such a line the parser blanks everything but the code.
LEMMA FlatLine ==
    ASSUME NEW l, NEW x, NEW p, SideBySide(l, x, p), x[Len(l)].deepest <= 1
    PROVE  FlatSoFar(l, x, p, Len(l))
<1> DEFINE N == Len(l)
           S == {k \in Nat : k <= N => FlatSoFar(l, x, p, k)}
<1>1. l \in Seq(Token) /\ N \in Nat
    BY DEF SideBySide, PlainLine
<1>2. ASSUME NEW k \in 0 .. N
      PROVE  p[k].depth \in {0, 1}
    <2>1. p[k].depth = x[k].depth /\ x[k].depth >= 0
        BY SameDepth
    <2>2. x[k].deepest <= x[N].deepest
        BY <1>1, LexSurvives DEF SideBySide
    <2>3. x[k].depth <= x[k].deepest
        BY <1>1, LexPlace DEF SideBySide, Placed
    <2>4. x[k] \in LexState /\ x[N] \in LexState
        BY <1>1 DEF SideBySide, IsLexing
    <2>5. x[k].depth \in Int /\ x[k].deepest \in Int /\ x[N].deepest \in Int
        BY <2>4 DEF LexState
    <2> QED  BY <2>1, <2>2, <2>3, <2>5
<1>3. 0 \in S
    <2>1. 0 \in 0 .. N
        BY <1>1
    <2>2. p[0].depth \in {0, 1}
        BY <1>2, <2>1
    <2>3. FlatSoFar(l, x, p, 0)
        BY <2>2, FlatBegin
    <2> QED  BY <2>3
<1>4. ASSUME NEW k \in Nat, k \in S
      PROVE  k + 1 \in S
    <2> SUFFICES ASSUME k + 1 <= N
                 PROVE  FlatSoFar(l, x, p, k + 1)
        OBVIOUS
    <2>1. k \in 0 .. N - 1 /\ k + 1 \in 0 .. N /\ FlatSoFar(l, x, p, k)
        BY <1>1, <1>4
    <2>2. p[k + 1].depth \in {0, 1}
        BY <1>2, <2>1
    <2> QED  BY <2>1, <2>2, FlatStep
<1>5. Nat \subseteq S
    <2> HIDE DEF S
    <2> QED  BY <1>3, <1>4, SetInduction
<1> QED  BY <1>1, <1>5

----------------------------------------------------------------------------
(* What the parser and the lexer say of a line, in all.                    *)

LEMMA LexedOfLine ==
    ASSUME NEW l \in Seq(Token), coq.depth \in Int, coq.string = FALSE
    PROVE  LET x == Lexed(l)
           IN  /\ x.depth \in Int /\ x.deepest \in Int /\ x.string \in BOOLEAN
               /\ x.code \subseteq DOMAIN l
               /\ x.depth >= 0 /\ Quotes(l, Len(l)) % 2 = 0 => x.string = FALSE
<1>1. LexBegin \in LexState
    BY DEF LexBegin, LexState
<1>2. PICK x : IsLexing(l, x) /\ Lexed(l) = x[Len(l)]
    BY <1>1, LexedIsLexing
<1> DEFINE N == Len(l)
           r == x[N]
<1>3. N \in Nat /\ N \in 0 .. N /\ DOMAIN l = 1 .. N
    OBVIOUS
<1>4. r \in LexState
    BY <1>2, <1>3 DEF IsLexing
<1>5. Placed(l, x, N)
    BY <1>2, <1>3, LexPlace
<1> HIDE DEF N
<1>6. r.depth \in Int /\ r.deepest \in Int /\ r.string \in BOOLEAN
    BY <1>4 DEF LexState
<1>7. r.code \subseteq DOMAIN l
    BY <1>3, <1>5 DEF Placed
<1>8. r.depth >= 0 => (r.string <=> Quotes(l, N) % 2 = 1)
    BY <1>5 DEF Placed
<1>9. Quotes(l, N) % 2 = 0 => ~ (Quotes(l, N) % 2 = 1)
    OBVIOUS
<1>10. r.depth >= 0 /\ Quotes(l, N) % 2 = 0 => r.string = FALSE
    BY <1>6, <1>8, <1>9
<1> QED  BY <1>2, <1>6, <1>7, <1>10 DEF N

\* An unbalanced close ends the matter: the depth never goes below -1.
LEMMA BlankedOfLine ==
    ASSUME NEW l \in Seq(Token), depth \in Nat
    PROVE  Blanked(l).depth \in Int /\ Blanked(l).depth >= -1
<1>1. PICK p : IsCancelling(l, p) /\ Blanked(l).depth = p[Len(l)].depth
    BY BlankedIsCancelling
<1> DEFINE N == Len(l)
           S == {k \in Nat : k <= N => p[k].depth >= -1}
<1>2. N \in Nat
    OBVIOUS
<1>3. \A k \in 0 .. N : p[k] \in CancelState
    BY <1>1 DEF IsCancelling
<1>4. \A k \in 0 .. N : p[k].depth \in Int
    BY <1>3 DEF CancelState
<1>5. 0 \in S
    BY <1>1 DEF IsCancelling, CancelBegin
<1>6. ASSUME NEW k \in Nat, k \in S
      PROVE  k + 1 \in S
    <2> SUFFICES ASSUME k + 1 <= N
                 PROVE  p[k + 1].depth >= -1
        OBVIOUS
    <2>1. k \in 0 .. N /\ k + 1 \in 1 .. N /\ (k + 1) - 1 = k /\ p[k].depth >= -1
        BY <1>2, <1>6
    <2>2. p[k + 1] = IF k + 1 \in Delimiters(l) THEN Cancel(l, p[k], k + 1) ELSE p[k]
        BY <1>1, <2>1 DEF IsCancelling
    <2>3. p[k].depth < 0 => Cancel(l, p[k], k + 1) = p[k]
        BY Zenon DEF Cancel
    <2>4. ASSUME ~ (p[k].depth < 0)
          PROVE  Cancel(l, p[k], k + 1).depth \in {p[k].depth + 1, p[k].depth - 1}
        <3>1. Cancels(l, p[k], k + 1, Cancel(l, p[k], k + 1))
            BY <1>3, <2>1, <2>4, CancelParts
        <3> QED  BY <3>1, Zenon DEF Cancels
    <2>5. p[k].depth \in Int
        BY <1>4, <2>1
    <2>6. CASE p[k].depth < 0 \/ k + 1 \notin Delimiters(l)
        <3>1. p[k + 1] = p[k]
            BY <2>2, <2>3, <2>6
        <3> QED  BY <2>1, <3>1
    <2>7. CASE ~ (p[k].depth < 0) /\ k + 1 \in Delimiters(l)
        <3>1. p[k + 1].depth \in {p[k].depth + 1, p[k].depth - 1}
            BY <2>2, <2>4, <2>7
        <3> HIDE DEF S
        <3> QED  BY <2>5, <2>7, <3>1
    <2> QED  BY <2>6, <2>7
<1>7. Nat \subseteq S
    <2> HIDE DEF S
    <2> QED  BY <1>5, <1>6, SetInduction
<1> QED  BY <1>1, <1>2, <1>4, <1>7

\* A plain line that coqc accepts: the parser counts the open comments right,
\* and blanks just these unless one is nested.
LEMMA PlainLineRead ==
    ASSUME NEW l, PlainLine(l), coq.depth \in Int, coq.string = FALSE,
           depth = coq.depth, Lexed(l).depth >= 0
    PROVE  /\ Blanked(l).depth = Lexed(l).depth
           /\ Lexed(l).deepest <= 1 => DOMAIN l \ Blanked(l).blank = Lexed(l).code
<1> DEFINE N == Len(l)
<1>1. l \in Seq(Token) /\ N \in Nat /\ N \in 0 .. N /\ DOMAIN l = 1 .. N /\ depth \in Int
    BY DEF PlainLine
<1>2. LexBegin \in LexState
    BY DEF LexBegin, LexState
<1>3. PICK x : IsLexing(l, x) /\ Lexed(l) = x[N]
    BY <1>1, <1>2, LexedIsLexing
<1>4. PICK p :
          /\ IsCancelling(l, p)
          /\ Blanked(l) =
                 [depth |-> p[N].depth,
                  blank |-> IF depth # 0 /\ Delimiters(l) = {} THEN DOMAIN l
                            ELSE IF p[N].starts = <<>> THEN p[N].blank
                            ELSE p[N].blank \cup (Last(p[N].starts) .. N)]
    BY <1>1, BlankedIsCancelling
<1>5. SideBySide(l, x, p)
    BY <1>3, <1>4 DEF SideBySide
<1>6. p[N].depth = x[N].depth
    BY <1>1, <1>5, SameDepth
<1>7. ASSUME x[N].deepest <= 1
      PROVE  1 .. N \ Blanked(l).blank = x[N].code
    <2> DEFINE D == Delimiters(l)
               acc == p[N]
               code_ == x[N].code
               blank == Blanked(l).blank
    <2>1. FlatSoFar(l, x, p, N)
        BY <1>5, <1>7, FlatLine
    <2>2. code_ \subseteq 1 .. N
        BY <1>1, <1>3, LexPlace DEF Placed
    <2>3. /\ depth # 0 /\ D = {} => blank = 1 .. N
          /\ ~ (depth # 0 /\ D = {}) /\ acc.starts = <<>> => blank = acc.blank
          /\ ~ (depth # 0 /\ D = {}) /\ acc.starts # <<>> =>
                 blank = acc.blank \cup (Last(acc.starts) .. N)
        BY <1>1, <1>4
    <2> HIDE DEF N, D, acc, code_, blank
    <2>4. CASE Outside(l, x, p, N)
        <3>1. /\ acc.starts = <<>> /\ acc.blank = (1 .. N) \ code_
              /\ ~ (depth # 0 /\ D = {})
            BY <2>4 DEF Outside, acc, code_, D
        <3> QED  BY <2>2, <2>3, <3>1 DEF code_, blank
    <2>5. ASSUME NEW i \in 1 .. N, InsideFrom(l, x, p, N, i)
          PROVE  1 .. N \ Blanked(l).blank = x[N].code
        <3>1. /\ acc.starts = <<i>> /\ i \in D /\ code_ \subseteq 1 .. i - 1
              /\ acc.blank = (1 .. i - 1) \ code_
            BY <2>5 DEF InsideFrom, acc, code_, D
        <3>2. acc.starts # <<>> /\ Last(acc.starts) = i /\ D # {}
            BY <3>1 DEF Last
        <3>3. blank = ((1 .. i - 1) \ code_) \cup (i .. N)
            BY <2>3, <3>1, <3>2
        <3> QED  BY <1>1, <3>1, <3>3 DEF code_, blank
    <2>6. CASE Inside(l, x, p, N)
        <3>1. code_ = {} /\ depth # 0 /\ \A i \in 1 .. N : i \notin D
            BY <2>6 DEF Inside, code_, D
        <3>2. D \subseteq 1 .. N
            BY <1>1 DEF D, Delimiters
        <3>3. D = {}
            BY <3>1, <3>2
        <3> QED  BY <2>3, <3>1, <3>3 DEF code_, blank
    <2> QED  BY <2>1, <2>4, <2>5, <2>6 DEF FlatSoFar
<1> QED  BY <1>1, <1>3, <1>4, <1>6, <1>7

\* What a sentence that is gathered may be to one of coqc: not ended before, and
\* not open afterwards but behind a dangling bullet.
Follows(gathers, unfinished, dangling) ==
    (unfinished => gathers) /\ (gathers => unfinished \/ dangling)

\* Stripping takes nothing but selectors.
LEMMA StrippedText ==
    ASSUME NEW l \in Seq(Token), NEW positions \in SUBSET DOMAIN l,
           NEW inProof \in BOOLEAN
    PROVE  /\ Stripped(l, positions, inProof) \subseteq positions
           /\ Text(l, Stripped(l, positions, inProof)) = Text(l, positions)
<1> DEFINE dashes == WithoutFirst(l, positions, "dash")
           pluses == WithoutFirst(l, dashes, "plus")
           bare   == WithoutFirst(l, pluses, "star")
           text   == {i \in bare : l[i] # "brace"}
           left   == {i \in bare : \E j, k \in text : j <= i /\ i <= k}
<1>1. Stripped(l, positions, inProof) = IF ~ inProof THEN positions ELSE left
    BY Zenon DEF Stripped
<1>2. bare \subseteq positions /\ left \subseteq positions
    BY DEF WithoutFirst
<1>3. ASSUME NEW i \in positions, l[i] \notin Selector
      PROVE  i \in left
    <2>1. l[i] # "dash" /\ l[i] # "plus" /\ l[i] # "star" /\ l[i] # "brace"
        BY <1>3 DEF Selector, Bullet
    <2>2. i \in bare
        BY <2>1 DEF WithoutFirst
    <2>3. i \in text /\ i \in 1 .. Len(l)
        BY <2>1, <2>2
    <2>4. i <= i
        BY <2>3
    <2> QED  BY <2>2, <2>3, <2>4
<1> HIDE DEF left, bare
<1>4. Text(l, left) = Text(l, positions)
    BY <1>2, <1>3 DEF Text
<1> QED  BY <1>1, <1>2, <1>4

\* A selector that is left at the end of a line is a bullet that the line does
\* not begin with.
LEMMA LeftOver ==
    ASSUME NEW l \in Seq(Token), NEW positions \in SUBSET DOMAIN l,
           NEW last \in Stripped(l, positions, TRUE), l[last] \in Selector,
           \A i \in Stripped(l, positions, TRUE) : i <= last
    PROVE  l[last] \in Bullet /\ (Text(l, positions) = {} =>
                                    \E j \in positions : j < last)
<1> DEFINE dashes == WithoutFirst(l, positions, "dash")
           pluses == WithoutFirst(l, dashes, "plus")
           bare   == WithoutFirst(l, pluses, "star")
           text   == {i \in bare : l[i] # "brace"}
           left   == {i \in bare : \E j, k \in text : j <= i /\ i <= k}
<1>1. Stripped(l, positions, TRUE) = left
    BY Zenon DEF Stripped
<1>2. /\ dashes \subseteq positions /\ pluses \subseteq dashes
      /\ bare \subseteq pluses /\ text \subseteq bare
    BY DEF WithoutFirst
<1>3. \A i \in positions : i \in 1 .. Len(l) /\ i \in Int
    OBVIOUS
<1>4. last \in bare /\ \A i \in left : i <= last
    BY <1>1
<1>5. PICK k \in text : last <= k
    BY <1>1
<1>6. k \in left
    <2>1. k <= k
        BY <1>2, <1>3, <1>5
    <2> QED  BY <1>2, <1>5, <2>1
<1>7. k = last
    <2>1. k <= last
        BY <1>4, <1>6
    <2>2. k \in Int /\ last \in Int
        BY <1>2, <1>3, <1>4
    <2> QED  BY <1>5, <2>1, <2>2
<1>8. l[last] # "brace"
    BY <1>7
<1>9. l[last] \in Bullet
    BY <1>8 DEF Selector
<1>10. \E j \in positions : j < last
    <2>1. CASE l[last] = "dash"
        BY <1>2, <1>4, <2>1 DEF WithoutFirst
    <2>2. CASE l[last] = "plus"
        BY <1>2, <1>4, <2>2 DEF WithoutFirst
    <2>3. CASE l[last] = "star"
        BY <1>2, <1>4, <2>3 DEF WithoutFirst
    <2> QED  BY <1>9, <2>1, <2>2, <2>3 DEF Bullet
<1> QED  BY <1>9, <1>10

\* So that a sentence goes on after a stripped line where it does for coqc, or
\* where a bullet dangles.
LEMMA StrippedFollows ==
    ASSUME NEW l \in Seq(Token), NEW positions \in SUBSET DOMAIN l,
           NEW inProof \in BOOLEAN,
           ~ inProof => \A i \in DOMAIN l : l[i] \notin Selector,
           NEW gathers \in BOOLEAN, NEW unfinished \in BOOLEAN,
           NEW dangling \in BOOLEAN, Follows(gathers, unfinished, dangling)
    PROVE  Follows(Unterminated(l, Stripped(l, positions, inProof), gathers),
                   GoesOn(l, positions, unfinished),
                   Dangles(l, positions, dangling))
<1> DEFINE N == Len(l)
           text == Text(l, positions)
           left == Stripped(l, positions, inProof)
           u == Unterminated(l, left, gathers)
           g == GoesOn(l, positions, unfinished)
           d == Dangles(l, positions, dangling)
<1>1. /\ N \in Nat /\ positions \in SUBSET (1 .. N)
      /\ \A i \in 1 .. N : i \in Int /\ l[i] \in Token
    OBVIOUS
<1>2. /\ left \subseteq positions /\ text \subseteq left
      /\ \A i \in positions : i \notin text => l[i] \in Selector
    <2>1. left \subseteq positions /\ Text(l, left) = text
        BY StrippedText
    <2> QED  BY <2>1 DEF Text
<1>3. u = IF left = {} THEN gathers ELSE l[Max(left)] # "dot"
    BY Zenon DEF Unterminated
<1>4. g = IF text = {} THEN unfinished ELSE l[Max(text)] # "dot"
    BY Zenon DEF GoesOn
<1>5. /\ text = {} /\ dangling => d
      /\ \A i \in positions :
            /\ l[i] \in Bullet /\ (\E j \in positions : j < i)
            /\ \A j \in text : j < i
            => d
    BY Zenon DEF Dangles
<1>6. \A i \in left : inProof \/ l[i] \notin Selector
    BY <1>1, <1>2
<1>7. inProof \in BOOLEAN /\ (inProof => left = Stripped(l, positions, TRUE))
    <2>1. CASE inProof
        <3>1. inProof = TRUE
            BY <2>1
        <3> QED  BY <3>1
    <2> QED  BY <2>1
<1>8. left # {} => Max(left) \in left /\ \A y \in left : y <= Max(left)
    <2> HIDE DEF left
    <2>1. left \in SUBSET (1 .. N)
        BY <1>1, <1>2
    <2> HIDE DEF N
    <2> QED  BY <1>1, <2>1, MaxOfPositions
<1>9. text # {} => Max(text) \in text /\ \A y \in text : y <= Max(text)
    <2> HIDE DEF left, text
    <2>1. text \in SUBSET (1 .. N)
        BY <1>1, <1>2
    <2> HIDE DEF N
    <2> QED  BY <1>1, <2>1, MaxOfPositions
<1>10. ASSUME NEW last \in left, \A y \in left : y <= last, l[last] \in Selector
       PROVE  l[last] \in Bullet /\ (text = {} => \E j \in positions : j < last)
    <2>1. inProof /\ left = Stripped(l, positions, TRUE)
        BY <1>6, <1>7, <1>10
    <2> HIDE DEF left
    <2>2. last \in Stripped(l, positions, TRUE)
          /\ \A y \in Stripped(l, positions, TRUE) : y <= last
        BY <1>10, <2>1
    <2> QED  BY <1>10, <2>2, LeftOver
<1> HIDE DEF left, text, u, g, d, N
<1>11. CASE left = {}
    <2>1. text = {} /\ u = gathers /\ g = unfinished
        BY <1>2, <1>3, <1>4, <1>11
    <2> QED  BY <1>5, <2>1 DEF Follows, left, u, g, d
<1>12. CASE left # {}
    <2> DEFINE M == Max(left)
    <2>1. M \in left /\ (\A y \in left : y <= M) /\ u = (l[M] # "dot")
        BY <1>3, <1>8, <1>12
    <2>2. M \in positions /\ M \in Int
        BY <1>1, <1>2, <2>1
    <2> HIDE DEF M
    <2>3. CASE l[M] \in Selector
        <3>1. l[M] \in Bullet /\ u
            BY <1>10, <2>1, <2>3 DEF Bullet
        <3>2. M \notin text
            BY <2>3 DEF text, Text
        <3>3. \A j \in text : j < M
            <4> SUFFICES ASSUME NEW j \in text
                         PROVE  j < M
                OBVIOUS
            <4>1. j \in Int /\ j <= M /\ j # M
                BY <1>1, <1>2, <2>1, <3>2
            <4> QED  BY <2>2, <4>1
        <3>4. \E j \in positions : j < M
            <4>1. CASE text = {}
                BY <1>10, <2>1, <2>3, <4>1
            <4>2. CASE text # {}
                BY <1>2, <3>3, <4>2
            <4> QED  BY <4>1, <4>2
        <3>5. d
            BY <1>5, <2>2, <3>1, <3>3, <3>4
        <3> QED  BY <3>1, <3>5 DEF Follows, left, u, d
    <2>4. CASE l[M] \notin Selector
        <3>1. M \in text
            BY <1>2, <2>2, <2>4
        <3>2. Max(text) \in text /\ M <= Max(text)
            BY <1>9, <3>1
        <3>3. Max(text) \in Int /\ Max(text) <= M
            BY <1>1, <1>2, <2>1, <3>2
        <3>4. Max(text) = M
            BY <2>2, <3>2, <3>3
        <3>5. u = g /\ text # {}
            BY <1>4, <2>1, <3>1, <3>4
        <3> QED  BY <3>5 DEF Follows, left, u, g
    <2> QED  BY <2>3, <2>4
<1> QED  BY <1>11, <1>12

----------------------------------------------------------------------------
(* The inductive invariant.                                                *)

\* Between a line and its place in the sentence: in a file without nested
\* comments what was stripped leaves the sentence open if coqc has it open, and
\* otherwise behind a dangling bullet only.
GatheredRight ==
    style = "plain" /\ flat.file /\ stage = "strip" =>
        flat.line /\ Follows(Unterminated(line, kept, gathering),
                             coq.unfinished, coq.dangling)

Lexer == [depth : 0 .. MaxNest, string : BOOLEAN, unfinished : BOOLEAN,
          dangling : BOOLEAN]

IInv ==
    /\ TypeOK
    /\ coq.string = FALSE
    /\ NestingKept
    /\ FlatLinesExact
    /\ FlatFilesRead
    /\ GatheredRight

LEMMA InitIInv ==
    ASSUME Init
    PROVE  IInv
<1>1. MaxNest \in Nat /\ MaxLine \in Nat
    BY ParserAssumption
<1>2. <<>> \in Line
    <2>1. <<>> \in [1 .. 0 -> Token] /\ 0 \in 0 .. MaxLine
        BY <1>1
    <2> QED  BY <2>1 DEF Line, BoundedSeq, SeqOf
<1>3. TypeOK
    <2>1. 0 \in 0 .. MaxNest /\ 0 \in -1 .. MaxNest /\ ~ (0 = -1)
        BY <1>1
    <2>2. coq \in Lexer /\ flat \in [line : BOOLEAN, file : BOOLEAN]
        BY <2>1 DEF Init, Lexer
    <2>3. depth \in -1 .. MaxNest /\ (depth = -1 => stage = "raised")
        BY <2>1 DEF Init
    <2> QED  BY <1>2, <2>2, <2>3 DEF Init, TypeOK, Lexer
<1> QED  BY <1>3 DEF Init, IInv, NestingKept, FlatLinesExact, FlatFilesRead,
                     GatheredRight

\* A line that is read: what is known before, and of the line.
Reads(l, inProof) ==
    /\ IInv /\ l \in Line /\ inProof \in BOOLEAN /\ ReadLine(l, inProof)

LEMMA LineRead ==
    ASSUME NEW l, NEW inProof, Reads(l, inProof)
    PROVE  /\ l \in Seq(Token) /\ DOMAIN l = 1 .. Len(l) /\ Len(l) \in Nat
           /\ stage = "read" /\ depth \in Nat /\ coq.depth \in Int
           /\ coq.string = FALSE
           /\ style # "any" =>
                  /\ Lexed(l).depth \in 0 .. MaxNest
                  /\ Quotes(l, Len(l)) % 2 = 0
                  /\ ~ inProof => \A i \in DOMAIN l : l[i] \notin Selector
           /\ style = "plain" => PlainLine(l) /\ depth = coq.depth
<1>1. MaxLine \in Nat /\ MaxNest \in Nat
    BY ParserAssumption
<1>2. PICK m \in 0 .. MaxLine : l \in [1 .. m -> Token]
    BY DEF Reads, Line, BoundedSeq, SeqOf
<1>3. l \in Seq(Token) /\ DOMAIN l = 1 .. Len(l) /\ Len(l) \in Nat
    BY <1>1, <1>2
<1>4. stage = "read" /\ Legal(l, inProof)
    BY DEF Reads, ReadLine
<1>5. depth \in Nat /\ coq.depth \in Int /\ coq.string = FALSE
    BY <1>1, <1>4 DEF Reads, IInv, TypeOK
<1>6. ASSUME style # "any"
      PROVE  /\ Lexed(l).depth \in 0 .. MaxNest
             /\ Quotes(l, Len(l)) % 2 = 0
             /\ ~ inProof => \A i \in DOMAIN l : l[i] \notin Selector
    <2>1. /\ Lexed(l).depth \in 0 .. MaxNest
          /\ ~ inProof => \A i \in DOMAIN l : l[i] \notin Selector
          /\ Cardinality({i \in DOMAIN l : l[i] = "quote"}) % 2 = 0
        BY <1>4, <1>6 DEF Legal, QuotesApart
    <2> QED  BY <1>3, <2>1 DEF Quotes
<1>7. ASSUME style = "plain"
      PROVE  PlainLine(l) /\ depth = coq.depth
    <2>1. QuotesApart(l, {"quote", "open", "close"})
        BY <1>4, <1>7 DEF Legal
    <2>2. depth = coq.depth
        BY <1>4, <1>7 DEF Reads, IInv, NestingKept
    <2> QED  BY <1>3, <2>1, <2>2 DEF PlainLine
<1> QED  BY <1>3, <1>4, <1>5, <1>6, <1>7

LEMMA ReadKeepsTypes ==
    ASSUME NEW l, NEW inProof, Reads(l, inProof)
    PROVE  TypeOK' /\ coq'.string = FALSE
<1> DEFINE b == Blanked(l)
           x == Lexed(l)
<1>1. /\ MaxNest \in Nat /\ l \in Seq(Token) /\ depth \in Nat /\ coq.depth \in Int
      /\ coq.string = FALSE
      /\ style # "any" => x.depth \in 0 .. MaxNest /\ Quotes(l, Len(l)) % 2 = 0
    BY LineRead, ParserAssumption
<1>2. b.depth \in Int /\ b.depth >= -1
    BY <1>1, BlankedOfLine
<1>3. /\ x.depth \in Int /\ x.deepest \in Int /\ x.string \in BOOLEAN
      /\ x.code \subseteq DOMAIN l
      /\ x.depth >= 0 /\ Quotes(l, Len(l)) % 2 = 0 => x.string = FALSE
    BY <1>1, LexedOfLine
<1>4. /\ b.depth <= MaxNest /\ depth' = b.depth
      /\ stage' = IF b.depth < 0 THEN "raised" ELSE "strip"
      /\ kept' = Stripped(l, DOMAIN l \ b.blank, inProof)
      /\ line' = l /\ style' = style /\ gathering' = gathering
    BY DEF Reads, ReadLine
<1>5. kept' \subseteq DOMAIN l
    <2> DEFINE positions == DOMAIN l \ b.blank
    <2>1. positions \in SUBSET DOMAIN l /\ inProof \in BOOLEAN
        BY DEF Reads
    <2> HIDE DEF positions
    <2>2. Stripped(l, positions, inProof) \subseteq positions
        BY <1>1, <2>1, StrippedText
    <2> QED  BY <1>4, <2>1, <2>2 DEF positions
<1>6. style = "any" => code' = {} /\ coq' = coq /\ flat' = flat
    BY DEF Reads, ReadLine
<1>7. style # "any" =>
          /\ code' = x.code
          /\ coq' = [depth |-> x.depth, string |-> x.string,
                     unfinished |-> GoesOn(l, x.code, coq.unfinished),
                     dangling |-> Dangles(l, x.code, coq.dangling)]
          /\ flat' = [line |-> x.deepest <= 1, file |-> flat.file /\ x.deepest <= 1]
    BY Zenon DEF Reads, ReadLine
<1>8. /\ style \in Styles /\ gathering \in BOOLEAN /\ l \in Line
      /\ coq \in Lexer /\ flat \in [line : BOOLEAN, file : BOOLEAN]
    BY DEF Reads, IInv, TypeOK, Lexer
<1> HIDE DEF b, x
<1>9. /\ depth' \in -1 .. MaxNest /\ (depth' = -1 => stage' = "raised")
      /\ stage' \in {"read", "strip", "closed", "raised"}
    BY <1>1, <1>2, <1>4
<1>10. CASE style = "any"
    <2>1. /\ code' \subseteq DOMAIN line' /\ coq' \in Lexer
          /\ flat' \in [line : BOOLEAN, file : BOOLEAN]
        BY <1>6, <1>8, <1>10
    <2> QED  BY <1>1, <1>4, <1>5, <1>6, <1>8, <1>9, <1>10, <2>1 DEF TypeOK, Lexer
<1>11. CASE style # "any"
    <2> DEFINE u == GoesOn(l, x.code, coq.unfinished)
               e == Dangles(l, x.code, coq.dangling)
               d == x.deepest <= 1
    <2>1. u \in BOOLEAN
        <3>1. coq.unfinished \in BOOLEAN
            BY <1>8 DEF Lexer
        <3> DEFINE text == Text(l, x.code)
        <3>2. u = IF text = {} THEN coq.unfinished ELSE l[Max(text)] # "dot"
            BY Zenon DEF GoesOn
        <3> HIDE DEF u, text
        <3> QED  BY <3>1, <3>2
    <2>2. x.depth \in 0 .. MaxNest /\ x.depth >= 0 /\ x.string = FALSE
        BY <1>1, <1>3, <1>11
    <2>3. /\ coq' = [depth |-> x.depth, string |-> x.string, unfinished |-> u,
                     dangling |-> e]
          /\ flat' = [line |-> d, file |-> flat.file /\ d] /\ code' = x.code
        BY <1>7, <1>11, Zenon
    <2>4. d \in BOOLEAN /\ (flat.file /\ d) \in BOOLEAN
        OBVIOUS
    <2>7. e \in BOOLEAN
        BY Zenon DEF Dangles
    <2> HIDE DEF u, d, e
    <2>5. coq' \in Lexer /\ coq'.string = FALSE
        BY <2>1, <2>2, <2>3, <2>7 DEF Lexer
    <2>6. flat' \in [line : BOOLEAN, file : BOOLEAN]
        BY <2>3, <2>4
    <2> QED  BY <1>3, <1>4, <1>5, <1>8, <1>9, <2>3, <2>5, <2>6 DEF TypeOK, Lexer
<1> QED  BY <1>10, <1>11

\* A line of a plain file.
LEMMA ReadKeepsSafe ==
    ASSUME NEW l, NEW inProof, Reads(l, inProof)
    PROVE  NestingKept' /\ FlatLinesExact' /\ FlatFilesRead' /\ GatheredRight'
<1> SUFFICES ASSUME style = "plain"
             PROVE  NestingKept' /\ FlatLinesExact' /\ FlatFilesRead' /\ GatheredRight'
    BY Zenon DEF Reads, ReadLine, NestingKept, FlatLinesExact, FlatFilesRead,
                 GatheredRight
<1> DEFINE b == Blanked(l)
           x == Lexed(l)
           u == GoesOn(l, x.code, coq.unfinished)
           e == Dangles(l, x.code, coq.dangling)
           positions == DOMAIN l \ b.blank
<1>1. /\ l \in Seq(Token) /\ stage = "read" /\ inProof \in BOOLEAN
      /\ coq.depth \in Int /\ coq.string = FALSE
      /\ x.depth \in 0 .. MaxNest
      /\ ~ inProof => \A i \in DOMAIN l : l[i] \notin Selector
      /\ PlainLine(l) /\ depth = coq.depth
    BY LineRead DEF Reads
<1>2. x.depth >= 0 /\ x.depth \in Int
    BY <1>1
<1>3. b.depth = x.depth /\ (x.deepest <= 1 => positions = x.code)
    BY <1>1, <1>2, PlainLineRead
<1>4. ~ (b.depth < 0)
    BY <1>2, <1>3
<1>5. /\ depth' = b.depth /\ stage' = "strip"
      /\ kept' = Stripped(l, positions, inProof)
      /\ line' = l /\ style' = style /\ gathering' = gathering
    BY <1>4 DEF Reads, ReadLine
<1>6. /\ code' = x.code
      /\ coq' = [depth |-> x.depth, string |-> x.string, unfinished |-> u,
                 dangling |-> e]
      /\ flat' = [line |-> x.deepest <= 1, file |-> flat.file /\ x.deepest <= 1]
    BY Zenon DEF Reads, ReadLine
<1>7. positions \in SUBSET DOMAIN l /\ Text(l, kept') = Text(l, positions)
    <2>1. positions \in SUBSET DOMAIN l
        OBVIOUS
    <2> HIDE DEF positions
    <2> QED  BY <1>1, <1>5, <2>1, StrippedText
<1> HIDE DEF b, x, u, e, positions
<1>8. NestingKept'
    BY <1>3, <1>5, <1>6 DEF NestingKept
<1>9. FlatLinesExact'
    <2>1. flat'.line => x.deepest <= 1
        BY <1>6
    <2>2. flat'.line => Text(l, kept') = Text(l, code')
        BY <1>3, <1>6, <1>7, <2>1
    <2> QED  BY <1>5, <2>2 DEF FlatLinesExact
<1>10. FlatFilesRead'
    BY <1>5 DEF FlatFilesRead
<1>11. GatheredRight'
    <2> SUFFICES ASSUME flat'.file
                 PROVE  /\ flat'.line
                        /\ Follows(Unterminated(line', kept', gathering'),
                                   coq'.unfinished, coq'.dangling)
        BY Zenon DEF GatheredRight
    <2>1. flat.file /\ x.deepest <= 1 /\ flat'.line
        BY <1>6
    <2>2. /\ Follows(gathering, coq.unfinished, coq.dangling)
          /\ gathering \in BOOLEAN /\ coq.unfinished \in BOOLEAN
          /\ coq.dangling \in BOOLEAN
        BY <1>1, <2>1 DEF Reads, IInv, TypeOK, FlatFilesRead, Follows
    <2>3. positions = x.code
        BY <1>3, <2>1
    <2>4. coq'.unfinished = u /\ coq'.dangling = e
        BY <1>6
    <2>5. Follows(Unterminated(l, kept', gathering),
                  GoesOn(l, positions, coq.unfinished),
                  Dangles(l, positions, coq.dangling))
        BY <1>1, <1>5, <1>7, <2>2, StrippedFollows
    <2> QED  BY <1>5, <2>1, <2>3, <2>4, <2>5 DEF u, e
<1> QED  BY <1>8, <1>9, <1>10, <1>11

LEMMA AddLineStep ==
    ASSUME IInv, AddLine
    PROVE  IInv'
<1>1. /\ stage = "strip" /\ gathering' = Unterminated(line, kept, gathering)
      /\ stage' = "read" /\ line' = <<>> /\ kept' = {} /\ code' = {}
      /\ flat' = [flat EXCEPT !.line = TRUE]
      /\ style' = style /\ depth' = depth /\ coq' = coq
    BY DEF AddLine
<1>2. <<>> \in Line
    <2>1. <<>> \in [1 .. 0 -> Token] /\ 0 \in 0 .. MaxLine
        BY ParserAssumption
    <2> QED  BY <2>1 DEF Line, BoundedSeq, SeqOf
<1>3. gathering' \in BOOLEAN
    BY <1>1 DEF IInv, TypeOK, Unterminated
<1>4. flat' \in [line : BOOLEAN, file : BOOLEAN] /\ flat'.file = flat.file
    BY <1>1 DEF IInv, TypeOK
<1>5. TypeOK' /\ coq'.string = FALSE
    BY <1>1, <1>2, <1>3, <1>4 DEF IInv, TypeOK
<1>6. NestingKept'
    BY <1>1 DEF IInv, NestingKept
<1>7. FlatLinesExact' /\ GatheredRight'
    BY <1>1 DEF FlatLinesExact, GatheredRight
<1>8. FlatFilesRead'
    BY <1>1, <1>4 DEF IInv, GatheredRight, FlatFilesRead, Follows
<1> QED  BY <1>5, <1>6, <1>7, <1>8 DEF IInv

LEMMA EndOfFileStep ==
    ASSUME IInv, EndOfFile
    PROVE  IInv'
<1>1. /\ stage = "read"
      /\ style = "any" \/ (coq.depth = 0 /\ ~ coq.unfinished /\ ~ coq.dangling)
      /\ stage' = IF depth # 0 \/ gathering THEN "raised" ELSE "closed"
      /\ UNCHANGED <<style, depth, gathering, line, kept, coq, code, flat>>
    BY DEF EndOfFile
<1>2. TypeOK' /\ coq'.string = FALSE
    BY <1>1 DEF IInv, TypeOK
<1>3. NestingKept'
    BY <1>1 DEF IInv, NestingKept
<1>4. FlatLinesExact' /\ GatheredRight'
    BY <1>1 DEF FlatLinesExact, GatheredRight
<1>5. FlatFilesRead'
    BY <1>1 DEF IInv, NestingKept, FlatFilesRead
<1> QED  BY <1>2, <1>3, <1>4, <1>5 DEF IInv

LEMMA Invariance == Spec => []IInv
<1>1. Init => IInv
    BY InitIInv
<1>2. IInv /\ [Next]_vars => IInv'
    <2> SUFFICES ASSUME IInv, [Next]_vars
                 PROVE  IInv'
        OBVIOUS
    <2>1. ASSUME NEW l \in Line, NEW inProof \in BOOLEAN, ReadLine(l, inProof)
          PROVE  IInv'
        <3>1. Reads(l, inProof)
            BY <2>1 DEF Reads
        <3> QED  BY <3>1, ReadKeepsTypes, ReadKeepsSafe DEF IInv
    <2>2. CASE AddLine
        BY <2>2, AddLineStep
    <2>3. CASE EndOfFile
        BY <2>3, EndOfFileStep
    <2>4. CASE UNCHANGED vars
        BY <2>4 DEF vars, IInv, TypeOK, NestingKept, FlatLinesExact, FlatFilesRead,
                    GatheredRight
    <2> QED  BY <2>1, <2>2, <2>3, <2>4 DEF Next
<1> QED  BY <1>1, <1>2, PTL DEF Spec

\* Every state of the parser and of the lexer beside it has its type; the depth
\* below zero that get_next_line_and_stripped_comments raises over is -1.
THEOREM TypeCorrect == Spec => []TypeOK
<1>1. IInv => TypeOK
    BY DEF IInv
<1> QED  BY <1>1, Invariance, PTL

\* However long the lines of a plain file that coqc accepts and however deep
\* its comments, after every line _comment_depth is the number of comments that
\* coqc has open.
THEOREM NestingIsKept == Spec => []NestingKept
<1>1. IInv => NestingKept
    BY DEF IInv
<1> QED  BY <1>1, Invariance, PTL

\* On a line where no comment is nested get_next_line_and_stripped_comments
\* leaves of the text, selectors aside, exactly what is outside of comments,
\* whatever was nested on the lines before.
THEOREM FlatLinesAreExact == Spec => []FlatLinesExact
<1>1. IInv => FlatLinesExact
    BY DEF IInv
<1> QED  BY <1>1, Invariance, PTL

\* A plain file without nested comments that coqc accepts is read to its end by
\* get_next_sentence, which holds an unfinished sentence when coqc does, and
\* otherwise only behind a bullet that was not put at the beginning of a line.
THEOREM FlatFilesAreRead == Spec => []FlatFilesRead
<1>1. IInv => FlatFilesRead
    BY DEF IInv
<1> QED  BY <1>1, Invariance, PTL
============================================================================
