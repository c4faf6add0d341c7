------------------------ MODULE LintDriver_proofs ------------------------
(***************************************************************************)
(* Proofs about LintDriver.tla, for any files, directories and command     *)
(* lines and for texts of any length.                                      *)
(*                                                                         *)
(* The first part is about data: induction over the natural numbers,       *)
(* stated with sets, unfolds the fold by which a linter runs over a text   *)
(* and shows that it ends with the findings of that text.                  *)
(***************************************************************************)
EXTENDS LintDriver, FiniteSetTheorems, SequenceTheorems, WellFoundedInduction,
        TLAPS

\* A set of naturals has a least element.
LEMMA LeastNat ==
    ASSUME NEW T \in SUBSET Nat, T # {}
    PROVE  \E x \in T : \A y \in T : x <= y
<1>1. PICK x \in T : \A y \in T : ~ (<<y, x>> \in OpToRel(<, Nat))
    BY NatLessThanWellFounded, WFMin, Zenon
<1>2. \A y \in T : ~ (y < x)
    BY <1>1, Zenon DEF OpToRel
<1> QED  BY <1>2

\* Induction over the natural numbers.
LEMMA SetInduction ==
    ASSUME NEW S, 0 \in S, \A n \in Nat : n \in S => n + 1 \in S
    PROVE  Nat \subseteq S
<1> SUFFICES ASSUME Nat \ S # {}
             PROVE  FALSE
    OBVIOUS
<1>1. PICK x \in Nat \ S : \A y \in Nat \ S : x <= y
    BY LeastNat
<1>2. x # 0 /\ x - 1 \in Nat
    BY <1>1
<1>3. x - 1 \in S
    BY <1>1, <1>2
<1> QED  BY <1>1, <1>2, <1>3

\* Max picks what it says from a set of positions.
LEMMA MaxOfPositions ==
    ASSUME NEW n \in Nat, NEW s \in SUBSET (1 .. n), s # {}
    PROVE  Max(s) \in s /\ \A y \in s : y <= Max(s)
<1> DEFINE T == {n - i : i \in s}
<1>1. T \in SUBSET Nat /\ T # {}
    <2>1. \A i \in s : i \in 1 .. n /\ n - i \in Nat
        OBVIOUS
    <2> QED  BY <2>1
<1>2. PICK t \in T : \A u \in T : t <= u
    BY <1>1, LeastNat
<1>3. PICK x \in s : t = n - x
    BY <1>2
<1>4. \A y \in s : n - y \in T
    OBVIOUS
<1>5. \A y \in s : x >= y
    <2> SUFFICES ASSUME NEW y \in s
                 PROVE  x >= y
        OBVIOUS
    <2>1. n - x <= n - y
        BY <1>2, <1>3, <1>4
    <2>2. x \in 1 .. n /\ y \in 1 .. n
        OBVIOUS
    <2> HIDE DEF T
    <2> QED  BY <2>1, <2>2
<1>6. \E z \in s : \A y \in s : z >= y
    BY <1>5
<1>7. Max(s) \in s /\ \A y \in s : Max(s) >= y
    BY <1>6, Zenon DEF Max
<1> QED  BY <1>7

----------------------------------------------------------------------------
(* A fold over the first n positions, taken from the last one backwards.   *)

Iter(iter, step, base, n) ==
    iter = [s \in SUBSET (1 .. n) |->
               IF s = {} THEN base ELSE step[<<iter[s \ {Max(s)}], Max(s)>>]]

HasIter(State, step, base, n) ==
    \E iter \in [SUBSET (1 .. n) -> State] : Iter(iter, step, base, n)

\* The recursion by which a fold is defined has a solution.
LEMMA IterExists ==
    ASSUME NEW State, NEW N \in Nat, NEW base \in State,
           NEW step \in [State \X (1 .. N) -> State]
    PROVE  HasIter(State, step, base, N)
<1> DEFINE S == {n \in Nat : n <= N => HasIter(State, step, base, n)}
<1>1. 0 \in S
    <2> DEFINE none == [s \in SUBSET (1 .. 0) |-> base]
    <2>1. none \in [SUBSET (1 .. 0) -> State]
        OBVIOUS
    <2>2. \A s \in SUBSET (1 .. 0) : s = {}
        OBVIOUS
    <2>3. Iter(none, step, base, 0)
        BY <2>2 DEF Iter
    <2> QED  BY <2>1, <2>3 DEF HasIter
<1>2. ASSUME NEW n \in Nat, n \in S
      PROVE  n + 1 \in S
    <2> SUFFICES ASSUME n + 1 <= N
                 PROVE  HasIter(State, step, base, n + 1)
        OBVIOUS
    <2>1. HasIter(State, step, base, n)
        <3>1. n <= N
            OBVIOUS
        <3> QED  BY <1>2, <3>1
    <2>2. PICK h \in [SUBSET (1 .. n) -> State] : Iter(h, step, base, n)
        BY <2>1, Zenon DEF HasIter
    <2> DEFINE g == [s \in SUBSET (1 .. n + 1) |->
                        IF n + 1 \in s THEN step[<<h[s \ {n + 1}], n + 1>>]
                        ELSE h[s]]
    <2>3. \A s \in SUBSET (1 .. n + 1) : s \ {n + 1} \in SUBSET (1 .. n)
        OBVIOUS
    <2>4. g \in [SUBSET (1 .. n + 1) -> State]
        <3> SUFFICES ASSUME NEW s \in SUBSET (1 .. n + 1)
                     PROVE  g[s] \in State
            OBVIOUS
        <3>1. CASE n + 1 \in s
            <4>1. h[s \ {n + 1}] \in State /\ n + 1 \in 1 .. N
                BY <2>3
            <4> QED  BY <3>1, <4>1
        <3>2. CASE n + 1 \notin s
            <4>1. s \in SUBSET (1 .. n)
                BY <3>2
            <4> QED  BY <3>2, <4>1
        <3> QED  BY <3>1, <3>2
    <2>5. ASSUME NEW s \in SUBSET (1 .. n + 1)
          PROVE  g[s] = IF s = {} THEN base
                        ELSE step[<<g[s \ {Max(s)}], Max(s)>>]
        <3>1. CASE n + 1 \in s
            <4>1. n + 1 \in Nat /\ s # {}
                BY <3>1
            <4>2. Max(s) \in s /\ \A y \in s : y <= Max(s)
                BY <4>1, MaxOfPositions
            <4>3. Max(s) \in 1 .. n + 1 /\ n + 1 <= Max(s)
                BY <3>1, <4>2
            <4>4. Max(s) = n + 1
                BY <4>3
            <4>5. g[s \ {n + 1}] = h[s \ {n + 1}]
                OBVIOUS
            <4> QED  BY <3>1, <4>4, <4>5
        <3>2. CASE n + 1 \notin s
            <4>1. s \in SUBSET (1 .. n)
                BY <3>2
            <4>2. g[s] = h[s] /\ g[s \ {Max(s)}] = h[s \ {Max(s)}]
                BY <3>2
            <4>3. h[s] = IF s = {} THEN base
                         ELSE step[<<h[s \ {Max(s)}], Max(s)>>]
                BY <2>2, <4>1 DEF Iter
            <4> QED  BY <4>2, <4>3
        <3> QED  BY <3>1, <3>2
    <2>6. Iter(g, step, base, n + 1)
        BY <2>5 DEF Iter
    <2> QED  BY <2>4, <2>6 DEF HasIter
<1>3. N \in S
    BY <1>1, <1>2, SetInduction
<1> QED  BY <1>3
----------------------------------------------------------------------------
(* A linter that runs over a text.                                         *)

Object == [errors : SUBSET Error, open : Nat]
Exit == {"", "context", "parse", "read"}
Acc == [errors : SUBSET Error, open : Nat, at : Nat,
        stop : Exit]
Fresh == [errors |-> {}, open |-> 0, at |-> 1, stop |-> ""]

\* pass[k] is the state of a new linter after k sentences of s.
IsPass(policy, s, pass) ==
    /\ pass \in [0 .. Len(s) -> Acc]
    /\ pass[0] = Fresh
    /\ \A k \in 1 .. Len(s) : pass[k] = RunSentence(policy, pass[k - 1], s[k])

\* What RunSentence does with a sentence, component by component.
LEMMA SentenceStep ==
    ASSUME NEW policy \in Policy, NEW acc \in Acc, NEW s \in Sentence
    PROVE  LET r == RunSentence(policy, acc, s)
           IN  acc.stop = "" =>
               /\ r.at = acc.at + 1
               /\ r.open = IF s = "begin" THEN acc.open + 1
                           ELSE IF s = "end" /\ acc.open > 0 THEN acc.open - 1
                           ELSE acc.open
               /\ r.stop = IF s = "end" /\ acc.open = 0 THEN "context"
                           ELSE IF s = "cut" THEN "parse"
                           ELSE IF s = "bytes" THEN "read" ELSE ""
               /\ r.errors = IF s \in Flagged(policy)
                             THEN acc.errors \cup {acc.at} ELSE acc.errors
<1> DEFINE at == acc.at + 1
           open == CASE s = "begin" -> acc.open + 1
                     [] s = "end" /\ acc.open > 0 -> acc.open - 1
                     [] OTHER -> acc.open
           stop == CASE s = "end" /\ acc.open = 0 -> "context"
                     [] s = "cut" -> "parse"
                     [] s = "bytes" -> "read"
                     [] OTHER -> ""
           errors == IF s \in Flagged(policy) THEN acc.errors \cup {acc.at}
                     ELSE acc.errors
           r == RunSentence(policy, acc, s)
<1>1. acc.stop = "" =>
          r = [at |-> at, open |-> open, stop |-> stop, errors |-> errors]
    BY DEF RunSentence
<1>2. open = IF s = "begin" THEN acc.open + 1
             ELSE IF s = "end" /\ acc.open > 0 THEN acc.open - 1 ELSE acc.open
    OBVIOUS
<1>3. stop = IF s = "end" /\ acc.open = 0 THEN "context"
             ELSE IF s = "cut" THEN "parse"
             ELSE IF s = "bytes" THEN "read" ELSE ""
    OBVIOUS
<1> HIDE DEF r, at, open, stop, errors
<1>4. r = [at |-> at, open |-> open, stop |-> stop, errors |-> errors]
      => r.at = at /\ r.open = open /\ r.stop = stop /\ r.errors = errors
    OBVIOUS
<1> QED  BY <1>1, <1>2, <1>3, <1>4, Zenon DEF r, at, errors

LEMMA RunSentenceType ==
    ASSUME NEW policy \in Policy, NEW acc \in Acc, NEW s \in Sentence
    PROVE  RunSentence(policy, acc, s) \in Acc
<1>1. CASE acc.stop # ""
    BY <1>1 DEF RunSentence
<1>2. CASE acc.stop = ""
    <2> DEFINE r == RunSentence(policy, acc, s)
    <2>1. acc.at \in Nat /\ acc.open \in Nat /\ acc.errors \in SUBSET Error
        BY DEF Acc
    <2>2. acc.errors \cup {acc.at} \in SUBSET Error
        BY <2>1 DEF Error
    <2>3. \A n \in Nat : n + 1 \in Nat /\ (n > 0 => n - 1 \in Nat)
        OBVIOUS
    <2>4. r.at \in Nat
        BY <1>2, <2>1, <2>3, SentenceStep, Zenon
    <2>5. r.open \in Nat
        BY <1>2, <2>1, <2>3, SentenceStep, Zenon
    <2>6. r.stop \in Exit
        BY <1>2, SentenceStep DEF Exit
    <2>7. r.errors \in SUBSET Error
        BY <1>2, <2>1, <2>2, SentenceStep
    <2>8. r = [at |-> r.at, open |-> r.open, stop |-> r.stop,
               errors |-> r.errors]
        BY <1>2 DEF RunSentence
    <2> HIDE DEF r
    <2>9. r \in Acc
        BY <2>4, <2>5, <2>6, <2>7, <2>8 DEF Acc
    <2> QED  BY <2>9 DEF r
<1> QED  BY <1>1, <1>2

\* The definition of Run, with the fold unfolded.
LEMMA RunIsPass ==
    ASSUME NEW policy \in Policy, NEW f, TextOf(f) \in Seq(Sentence),
           linter[policy] \in Object
    PROVE  \E pass : /\ IsPass(policy, TextOf(f), pass)
                     /\ Run(policy, f) = pass[Len(TextOf(f))]
<1> DEFINE s == TextOf(f)
           N == Len(s)
           D == DOMAIN s
           step == [p \in Acc \X (1 .. N) |-> RunSentence(policy, p[1], s[p[2]])]
           Solves(i) == i = [d \in SUBSET D |->
                                IF d = {} THEN Fresh
                                ELSE RunSentence(policy, i[d \ {Max(d)}],
                                                 s[Max(d)])]
           it == CHOOSE i : Solves(i)
<1>1. N \in Nat /\ D = 1 .. N /\ \A i \in 1 .. N : s[i] \in Sentence
    OBVIOUS
<1>2. step \in [Acc \X (1 .. N) -> Acc] /\ Fresh \in Acc
    BY <1>1, RunSentenceType DEF Fresh, Acc, Exit
<1>3. PICK h \in [SUBSET (1 .. N) -> Acc] : Iter(h, step, Fresh, N)
    <2>1. HasIter(Acc, step, Fresh, N)
        <3> HIDE DEF step, N
        <3> QED  BY <1>1, <1>2, IterExists
    <2> QED  BY <2>1, Zenon DEF HasIter
<1>4. \A d \in SUBSET D :
          h[d] = IF d = {} THEN Fresh
                 ELSE RunSentence(policy, h[d \ {Max(d)}], s[Max(d)])
    <2> SUFFICES ASSUME NEW d \in SUBSET (1 .. N), d # {}
                 PROVE  h[d] = RunSentence(policy, h[d \ {Max(d)}], s[Max(d)])
        BY <1>1, <1>3 DEF Iter
    <2>1. Max(d) \in 1 .. N
        BY <1>1, MaxOfPositions
    <2>2. h[d] = step[<<h[d \ {Max(d)}], Max(d)>>]
        BY <1>3 DEF Iter
    <2>3. h[d \ {Max(d)}] \in Acc
        OBVIOUS
    <2> QED  BY <2>1, <2>2, <2>3
<1>5. Solves(h)
    BY <1>1, <1>4
<1>6. Solves(it)
    BY <1>5, Zenon
<1>7. LET l == Reset(linter[policy])
      IN  [errors |-> l.errors, open |-> l.open, at |-> 1, stop |-> ""] = Fresh
    BY DEF Reset, Object, Fresh
<1>8. Run(policy, f) = it[D]
    BY <1>7, Zenon DEF Run, FoldLeft, MapThenFoldSet
<1> DEFINE pass == [k \in 0 .. N |-> it[1 .. k]]
<1>9. pass[0] = Fresh /\ pass[N] = it[D]
    <2>1. 1 .. 0 = {} /\ {} \in SUBSET D
        OBVIOUS
    <2>2. it[{}] = Fresh
        BY <1>6, <2>1
    <2> QED  BY <1>1, <2>1, <2>2
<1>10. ASSUME NEW k \in 1 .. N
       PROVE  pass[k] = RunSentence(policy, pass[k - 1], s[k])
    <2>1. 1 .. k \in SUBSET D /\ k \in 1 .. k
        BY <1>1
    <2>2. Max(1 .. k) = k
        <3>1. k \in Nat /\ 1 .. k \in SUBSET (1 .. k) /\ 1 .. k # {}
            BY <2>1
        <3>2. Max(1 .. k) \in 1 .. k /\ \A y \in 1 .. k : y <= Max(1 .. k)
            BY <3>1, MaxOfPositions
        <3> QED  BY <2>1, <3>1, <3>2
    <2>3. (1 .. k) \ {k} = 1 .. k - 1
        OBVIOUS
    <2>4. it[1 .. k] = RunSentence(policy, it[1 .. k - 1], s[k])
        BY <1>6, <2>1, <2>2, <2>3
    <2> QED  BY <2>4
<1> HIDE DEF pass, it, step, Solves, D
<1>11. \A k \in 0 .. N : pass[k] \in Acc
    <2> DEFINE S == {k \in Nat : k <= N => pass[k] \in Acc}
    <2>1. 0 \in S
        BY <1>2, <1>9
    <2>2. ASSUME NEW k \in Nat, k \in S
          PROVE  k + 1 \in S
        <3> SUFFICES ASSUME k + 1 <= N
                     PROVE  pass[k + 1] \in Acc
            OBVIOUS
        <3>1. k + 1 \in 1 .. N /\ k + 1 - 1 = k /\ pass[k] \in Acc
            BY <1>1, <2>2
        <3>2. pass[k + 1] = RunSentence(policy, pass[k], s[k + 1])
            BY <1>10, <3>1
        <3>3. s[k + 1] \in Sentence
            BY <1>1, <3>1
        <3> QED  BY <3>1, <3>2, <3>3, RunSentenceType
    <2>3. Nat \subseteq S
        <3> HIDE DEF S
        <3> QED  BY <2>1, <2>2, SetInduction
    <2> QED  BY <1>1, <2>3
<1>12. pass \in [0 .. N -> Acc]
    BY <1>11 DEF pass
<1> QED  BY <1>8, <1>9, <1>10, <1>12 DEF IsPass
\* Counting the sentences of a text.
LEMMA CountStep ==
    ASSUME NEW s \in Seq(Sentence), NEW x, NEW k \in Nat, k <= Len(s)
    PROVE  /\ Count(s, k, x) \in Nat
           /\ Count(s, 0, x) = 0
           /\ k < Len(s) => Count(s, k + 1, x)
                            = IF s[k + 1] = x THEN Count(s, k, x) + 1
                              ELSE Count(s, k, x)
<1> DEFINE At(n) == {i \in 1 .. n : s[i] = x}
<1>1. IsFiniteSet(At(k))
    <2>1. IsFiniteSet(1 .. k) /\ At(k) \subseteq 1 .. k
        BY FS_Interval
    <2> QED  BY <2>1, FS_Subset
<1>2. Cardinality(At(k)) \in Nat
    BY <1>1, FS_CardinalityType
<1>3. Cardinality(At(0)) = 0
    <2>1. At(0) = {}
        OBVIOUS
    <2> QED  BY <2>1, FS_EmptySet
<1>4. ASSUME k < Len(s)
      PROVE  Cardinality(At(k + 1)) = IF s[k + 1] = x THEN Cardinality(At(k)) + 1
                                      ELSE Cardinality(At(k))
    <2>1. CASE s[k + 1] = x
        <3>1. At(k + 1) = At(k) \cup {k + 1} /\ k + 1 \notin At(k)
            BY <2>1
        <3> HIDE DEF At
        <3> QED  BY <1>1, <2>1, <3>1, FS_AddElement
    <2>2. CASE s[k + 1] # x
        <3>1. At(k + 1) = At(k)
            BY <2>2
        <3> QED  BY <2>2, <3>1
    <2> QED  BY <2>1, <2>2
<1> HIDE DEF At
<1>5. \A n : Count(s, n, x) = Cardinality(At(n))
    BY Zenon DEF Count, At
<1> QED  BY <1>2, <1>3, <1>4, <1>5

\* How far a linter has come after k sentences: it is stopped if and only if
\* an obstacle was among them, else has as many contexts open as they leave
\* open, and in any case it knows of all that is wrong before the obstacle.
HasCome(policy, s, acc, k) ==
    /\ (\A j \in Obstacles(s) : k < j) =>
           /\ acc.stop = "" /\ acc.at = k + 1
           /\ acc.open + Count(s, k, "end") = Count(s, k, "begin")
    /\ (\E j \in Obstacles(s) : j <= k) => acc.stop # ""
    /\ acc.stop = "read" => "bytes" \in ToSet(s)
    /\ acc.errors = {i \in 1 .. k : s[i] \in Flagged(policy) /\
                                    \A j \in Obstacles(s) : i < j}

LEMMA HasComeFurther ==
    ASSUME NEW policy \in Policy, NEW s \in Seq(Sentence), NEW acc \in Acc,
           NEW k \in Nat, k < Len(s), HasCome(policy, s, acc, k)
    PROVE  HasCome(policy, s, RunSentence(policy, acc, s[k + 1]), k + 1)
<1> DEFINE t == s[k + 1]
           r == RunSentence(policy, acc, t)
           begun == Count(s, k, "begin")
           ended == Count(s, k, "end")
<1>1. t \in Sentence /\ k + 1 \in 1 .. Len(s) /\ k + 1 \in DOMAIN s
    OBVIOUS
<1>2. Obstacles(s) \subseteq 1 .. Len(s)
    BY DEF Obstacles
<1>3. /\ begun \in Nat /\ ended \in Nat
      /\ Count(s, k + 1, "begin") = IF t = "begin" THEN begun + 1 ELSE begun
      /\ Count(s, k + 1, "end") = IF t = "end" THEN ended + 1 ELSE ended
    BY CountStep
<1>4. k + 1 \in Obstacles(s) <=>
          \/ t \in {"cut", "bytes"}
          \/ Count(s, k + 1, "end") > Count(s, k + 1, "begin")
    BY <1>1 DEF Obstacles
<1>5. acc.open \in Nat
    BY DEF Acc
<1>6. CASE \E j \in Obstacles(s) : j <= k
    <2>1. r = acc
        BY <1>6 DEF HasCome, RunSentence
    <2>2. \A i \in 1 .. k + 1 : (\A j \in Obstacles(s) : i < j) => i \in 1 .. k
        BY <1>2, <1>6
    <2>3. {i \in 1 .. k + 1 : s[i] \in Flagged(policy) /\
                              \A j \in Obstacles(s) : i < j}
          = {i \in 1 .. k : s[i] \in Flagged(policy) /\
                            \A j \in Obstacles(s) : i < j}
        BY <2>2
    <2>4. /\ ~ \A j \in Obstacles(s) : k + 1 < j
          /\ acc.stop # ""
          /\ acc.stop = "read" => "bytes" \in ToSet(s)
          /\ acc.errors = {i \in 1 .. k : s[i] \in Flagged(policy) /\
                                          \A j \in Obstacles(s) : i < j}
        <3>1. ~ \A j \in Obstacles(s) : k + 1 < j
            BY <1>2, <1>6
        <3> QED  BY <1>6, <3>1, Zenon DEF HasCome
    <2> QED  BY <2>1, <2>3, <2>4, Zenon DEF HasCome
<1>7. CASE \A j \in Obstacles(s) : k < j
    <2> DEFINE open == acc.open
    <2>1. acc.stop = "" /\ acc.at = k + 1 /\ open + ended = begun
        BY <1>7 DEF HasCome
    <2>2. k + 1 \in Obstacles(s) <=>
              t \in {"cut", "bytes"} \/ (t = "end" /\ open = 0)
        <3>1. open \in Nat /\ open + ended = begun
            BY <1>5, <2>1
        <3> HIDE DEF open, begun, ended, t
        <3> QED  BY <1>3, <1>4, <3>1
    <2>3. r.stop = "" <=> k + 1 \notin Obstacles(s)
        BY <1>1, <2>1, <2>2, SentenceStep, Zenon
    <2>4. r.stop = "read" => "bytes" \in ToSet(s)
        <3>1. r.stop = "read" => t = "bytes"
            BY <1>1, <2>1, SentenceStep
        <3> QED  BY <1>1, <3>1 DEF ToSet
    <2>5. ASSUME k + 1 \notin Obstacles(s)
          PROVE  /\ r.at = k + 1 + 1
                 /\ r.open + Count(s, k + 1, "end") = Count(s, k + 1, "begin")
        <3> DEFINE after == r.open
        <3>1. after = IF t = "begin" THEN open + 1
                      ELSE IF t = "end" /\ open > 0 THEN open - 1 ELSE open
            BY <1>1, <2>1, SentenceStep, Zenon
        <3>2. open \in Nat /\ open + ended = begun
            BY <1>5, <2>1
        <3>3. after + Count(s, k + 1, "end") = Count(s, k + 1, "begin")
            <4>1. t = "end" => open > 0
                BY <2>2, <2>5, <3>2
            <4> HIDE DEF after, open, begun, ended, t
            <4> QED  BY <1>3, <3>1, <3>2, <4>1
        <3>4. r.at = k + 1 + 1
            <4>1. r.at = acc.at + 1
                BY <1>1, <2>1, SentenceStep, Zenon
            <4>2. acc.at = k + 1
                BY <2>1
            <4> HIDE DEF r
            <4> QED  BY <4>1, <4>2
        <3> QED  BY <3>3, <3>4
    <2>6. r.errors = {i \in 1 .. k + 1 : s[i] \in Flagged(policy) /\
                                         \A j \in Obstacles(s) : i < j}
        <3>1. acc.errors = {i \in 1 .. k : s[i] \in Flagged(policy)}
            <4>1. \A i \in 1 .. k : \A j \in Obstacles(s) : i < j
                BY <1>2, <1>7
            <4> QED  BY <4>1 DEF HasCome
        <3>2. r.errors = IF t \in Flagged(policy) THEN acc.errors \cup {k + 1}
                         ELSE acc.errors
            <4>1. r.errors = IF t \in Flagged(policy)
                             THEN acc.errors \cup {acc.at} ELSE acc.errors
                BY <1>1, <2>1, SentenceStep, Zenon
            <4>2. acc.at = k + 1
                BY <2>1
            <4> QED  BY <4>1, <4>2, Zenon
        <3>3. t \in Flagged(policy) => k + 1 \notin Obstacles(s)
            <4>1. Flagged(policy) \subseteq {"from", "set"}
                BY DEF Flagged, Policy
            <4> QED  BY <2>2, <4>1
        <3>4. \A i \in 1 .. k + 1 :
                  (\A j \in Obstacles(s) : i < j) <=>
                      (i \in 1 .. k \/ k + 1 \notin Obstacles(s))
            BY <1>2, <1>7
        <3> HIDE DEF r
        <3>5. \A i : i \in r.errors <=>
                     /\ i \in 1 .. k + 1 /\ s[i] \in Flagged(policy)
                     /\ \A j \in Obstacles(s) : i < j
            <4>1. \A i : i \in 1 .. k + 1 <=> i \in 1 .. k \/ i = k + 1
                OBVIOUS
            <4>2. k + 1 \notin 1 .. k
                OBVIOUS
            <4> QED  BY <3>1, <3>2, <3>3, <3>4, <4>1, <4>2, Zenon
        <3> QED  BY <3>5
    <2>7. /\ (\A j \in Obstacles(s) : k + 1 < j) => k + 1 \notin Obstacles(s)
          /\ (\E j \in Obstacles(s) : j <= k + 1) => k + 1 \in Obstacles(s)
        BY <1>2, <1>7
    <2> HIDE DEF r
    <2>8. HasCome(policy, s, r, k + 1)
        BY <2>3, <2>4, <2>5, <2>6, <2>7, Zenon DEF HasCome
    <2> QED  BY <2>8, Zenon DEF r
<1> QED  BY <1>2, <1>6, <1>7

\* A run of a linter finds what there is to be found in the text, whatever
\* the linter was left with by the text before.
LEMMA RunFinds ==
    ASSUME NEW policy \in Policy, NEW f, TextOf(f) \in Seq(Sentence),
           linter[policy] \in Object
    PROVE  LET r == Run(policy, f)
           IN  /\ r \in Acc
               /\ Errors(r) = Findings(policy, f)
               /\ r.stop # "" <=> Obstacles(TextOf(f)) # {}
               /\ r.stop = "read" => Unreadable(f)
<1> DEFINE s == TextOf(f)
           r == Run(policy, f)
<1>1. PICK pass : IsPass(policy, s, pass) /\ r = pass[Len(s)]
    BY RunIsPass
<1>2. /\ Len(s) \in Nat /\ DOMAIN s = 1 .. Len(s)
      /\ Obstacles(s) \subseteq 1 .. Len(s)
    BY DEF Obstacles
<1>3. \A k \in 0 .. Len(s) : pass[k] \in Acc
    BY <1>1 DEF IsPass
<1> DEFINE S == {k \in Nat : k <= Len(s) => HasCome(policy, s, pass[k], k)}
<1>4. 0 \in S
    <2>1. /\ Count(s, 0, "end") = 0 /\ Count(s, 0, "begin") = 0
        BY <1>2, CountStep
    <2>2. /\ Fresh.stop = "" /\ Fresh.at = 0 + 1 /\ Fresh.open + 0 = 0
          /\ Fresh.errors = {}
        BY DEF Fresh
    <2>3. ~ \E j \in Obstacles(s) : j <= 0
        BY <1>2
    <2>4. {i \in 1 .. 0 : s[i] \in Flagged(policy) /\
                          \A j \in Obstacles(s) : i < j} = {}
        OBVIOUS
    <2>5. HasCome(policy, s, Fresh, 0)
        BY <2>1, <2>2, <2>3, <2>4 DEF HasCome
    <2> QED  BY <1>1, <2>5 DEF IsPass
<1>5. ASSUME NEW k \in Nat, k \in S
      PROVE  k + 1 \in S
    <2> SUFFICES ASSUME k + 1 <= Len(s)
                 PROVE  HasCome(policy, s, pass[k + 1], k + 1)
        OBVIOUS
    <2>1. k < Len(s) /\ k \in 0 .. Len(s) /\ k + 1 \in 1 .. Len(s)
          /\ k + 1 - 1 = k
        BY <1>2
    <2>2. HasCome(policy, s, pass[k], k)
        BY <1>2, <1>5, <2>1
    <2>3. pass[k + 1] = RunSentence(policy, pass[k], s[k + 1])
        BY <1>1, <2>1 DEF IsPass
    <2>4. HasCome(policy, s, RunSentence(policy, pass[k], s[k + 1]), k + 1)
        BY <1>3, <2>1, <2>2, HasComeFurther
    <2> QED  BY <2>3, <2>4
<1>6. HasCome(policy, s, r, Len(s))
    <2>1. Nat \subseteq S
        <3> HIDE DEF S
        <3> QED  BY <1>4, <1>5, SetInduction
    <2> QED  BY <1>1, <1>2, <2>1
<1>7. r \in Acc
    BY <1>1, <1>2, <1>3
<1>8. r.stop # "" <=> Obstacles(s) # {}
    <2>1. Obstacles(s) # {} => \E j \in Obstacles(s) : j <= Len(s)
        BY <1>2
    <2> QED  BY <1>6, <2>1, Zenon DEF HasCome
<1>9. r.errors = {i \in DOMAIN s : s[i] \in Flagged(policy) /\
                                   \A j \in Obstacles(s) : i < j}
    BY <1>2, <1>6, Zenon DEF HasCome
<1>10. r.stop = "read" => Unreadable(f)
    BY <1>6, Zenon DEF HasCome, Unreadable
<1> HIDE DEF r
<1>11. Errors(r) = Findings(policy, f)
    BY <1>8, <1>9 DEF Errors, Findings
<1> QED  BY <1>7, <1>8, <1>10, <1>11 DEF r

\* What stops one linter stops all.
LEMMA Stopped ==
    ASSUME NEW policy, NEW f, TextOf(f) \in Seq(Sentence)
    PROVE  -1 \in Findings(policy, f) <=> Obstacles(TextOf(f)) # {}
<1>1. -1 \notin DOMAIN TextOf(f)
    <2>1. DOMAIN TextOf(f) = 1 .. Len(TextOf(f)) /\ Len(TextOf(f)) \in Nat
        OBVIOUS
    <2> QED  BY <2>1
<1> QED  BY <1>1 DEF Findings

\* What cannot be read at all breaks no policy.
LEMMA NotReadable ==
    ASSUME NEW policy \in Policy, NEW f, f \notin Coq
    PROVE  Findings(policy, f) = {-1}
<1>1. TextOf(f) = <<"bytes">> /\ DOMAIN <<"bytes">> = {1} /\ <<"bytes">>[1] = "bytes"
    BY DEF TextOf
<1>2. Obstacles(<<"bytes">>) = {1}
    BY <1>1 DEF Obstacles
<1>3. "bytes" \notin Flagged(policy)
    BY DEF Flagged, Policy
<1> QED  BY <1>1, <1>2, <1>3 DEF Findings
----------------------------------------------------------------------------
(* Targets and queue as sets.                                              *)

LEMMA SetOfConcat ==
    ASSUME NEW Q, NEW s \in Seq(Q), NEW t \in Seq(Q)
    PROVE  ToSet(s \o t) = ToSet(s) \cup ToSet(t)
<1> DEFINE st == s \o t
<1>1. /\ st \in Seq(Q) /\ Len(st) = Len(s) + Len(t)
      /\ \A i \in 1 .. Len(st) : st[i] = IF i <= Len(s) THEN s[i]
                                         ELSE t[i - Len(s)]
    OBVIOUS
<1>2. /\ DOMAIN s = 1 .. Len(s) /\ DOMAIN t = 1 .. Len(t)
      /\ DOMAIN st = 1 .. Len(st) /\ Len(s) \in Nat /\ Len(t) \in Nat
    OBVIOUS
<1> HIDE DEF st
<1>3. ASSUME NEW i \in DOMAIN st
      PROVE  st[i] \in ToSet(s) \cup ToSet(t)
    <2>1. CASE i <= Len(s)
        BY <1>1, <1>2, <2>1 DEF ToSet
    <2>2. CASE i > Len(s)
        <3>1. st[i] = t[i - Len(s)] /\ i - Len(s) \in 1 .. Len(t)
            BY <1>1, <1>2, <2>2
        <3> QED  BY <1>2, <3>1 DEF ToSet
    <2> QED  BY <1>2, <2>1, <2>2
<1>4. ASSUME NEW i \in DOMAIN s
      PROVE  s[i] \in ToSet(st)
    <2>1. st[i] = s[i] /\ i \in DOMAIN st
        BY <1>1, <1>2
    <2> QED  BY <2>1 DEF ToSet
<1>5. ASSUME NEW i \in DOMAIN t
      PROVE  t[i] \in ToSet(st)
    <2>1. st[i + Len(s)] = t[i] /\ i + Len(s) \in DOMAIN st
        BY <1>1, <1>2
    <2> QED  BY <2>1, Zenon DEF ToSet
<1> QED  BY <1>3, <1>4, <1>5, Zenon DEF ToSet, st

LEMMA SetOfOne ==
    ASSUME NEW Q, NEW e \in Q
    PROVE  <<e>> \in Seq(Q) /\ ToSet(<<e>>) = {e}
BY DEF ToSet

LEMMA SetOfTail ==
    ASSUME NEW Q, NEW s \in Seq(Q), s # <<>>
    PROVE  /\ Head(s) \in Q /\ Tail(s) \in Seq(Q)
           /\ ToSet(s) = {Head(s)} \cup ToSet(Tail(s))
<1>1. Head(s) \in Q /\ Tail(s) \in Seq(Q) /\ <<Head(s)>> \in Seq(Q)
    OBVIOUS
<1>2. s = <<Head(s)>> \o Tail(s)
    OBVIOUS
<1>3. ToSet(<<Head(s)>> \o Tail(s)) = ToSet(<<Head(s)>>) \cup ToSet(Tail(s))
    BY <1>1, SetOfConcat
<1>4. ToSet(<<Head(s)>>) = {Head(s)}
    BY <1>1, SetOfOne
<1> QED  BY <1>1, <1>2, <1>3, <1>4, Zenon

LEMMA SetOfAppend ==
    ASSUME NEW Q, NEW s \in Seq(Q), NEW e \in Q
    PROVE  Append(s, e) \in Seq(Q) /\ ToSet(Append(s, e)) = ToSet(s) \cup {e}
<1>1. Append(s, e) = s \o <<e>> /\ Append(s, e) \in Seq(Q)
    OBVIOUS
<1>2. <<e>> \in Seq(Q) /\ ToSet(<<e>>) = {e}
    BY SetOfOne
<1>3. ToSet(s \o <<e>>) = ToSet(s) \cup ToSet(<<e>>)
    BY <1>2, SetOfConcat
<1> QED  BY <1>1, <1>2, <1>3, Zenon

\* FilesFirst adds the target to the queue, wherever it puts it.
LEMMA FilesFirstAdds ==
    ASSUME NEW Q, NEW q \in Seq(Q), NEW e \in Q
    PROVE  /\ FilesFirst(q, e) \in Seq(Q)
           /\ ToSet(FilesFirst(q, e)) = ToSet(q) \cup {e}
<1>1. CASE e[2] \in Dir
    BY <1>1, SetOfAppend DEF FilesFirst
<1>2. CASE e[2] \notin Dir
    <2> DEFINE files == {i \in DOMAIN q : q[i][2] \notin Dir}
               n == Cardinality(files)
               front == SubSeq(q, 1, n)
               back == SubSeq(q, n + 1, Len(q))
    <2>1. n \in 0 .. Len(q)
        <3>1. Len(q) \in Nat /\ files \subseteq 1 .. Len(q)
            OBVIOUS
        <3>2. IsFiniteSet(1 .. Len(q)) /\ Cardinality(1 .. Len(q)) = Len(q)
            <4> DEFINE N == Len(q)
            <4>1. 1 \in Int /\ N \in Int /\ (IF 1 > N THEN 0 ELSE N - 1 + 1) = N
                BY <3>1
            <4> HIDE DEF N
            <4>2. IsFiniteSet(1 .. N)
                  /\ Cardinality(1 .. N) = IF 1 > N THEN 0 ELSE N - 1 + 1
                BY <4>1, FS_Interval
            <4> QED  BY <4>1, <4>2 DEF N
        <3>3. IsFiniteSet(files) /\ Cardinality(files) <= Cardinality(1 .. Len(q))
            BY <3>1, <3>2, FS_Subset
        <3>4. Cardinality(files) \in Nat
            BY <3>3, FS_CardinalityType
        <3> HIDE DEF files
        <3> QED  BY <3>1, <3>2, <3>3, <3>4
    <2>2. FilesFirst(q, e) = (front \o <<e>>) \o back
        <3> DEFINE m == n + 1
        <3>1. FilesFirst(q, e) = InsertAt(q, m, e)
            BY <1>2 DEF FilesFirst
        <3>2. m - 1 = n /\ m = n + 1
            BY <2>1
        <3> HIDE DEF m
        <3>3. InsertAt(q, m, e) = (SubSeq(q, 1, m - 1) \o <<e>>) \o SubSeq(q, m, Len(q))
            BY Zenon DEF InsertAt
        <3> QED  BY <3>1, <3>2, <3>3, Zenon
    <2> HIDE DEF n
    <2>3. front \in Seq(Q) /\ back \in Seq(Q) /\ q = front \o back
        <3>1. q = SubSeq(q, 1, Len(q))
            BY SubSeqFull
        <3>2. front \o back = SubSeq(q, 1, Len(q))
            <4> DEFINE N == Len(q)
            <4>1. /\ N \in Nat /\ 1 \in 1 .. N + 1 /\ n \in 1 - 1 .. N
                  /\ N \in n .. N
                BY <2>1
            <4>2. \A m \in 1 .. N + 1 : \A k \in m - 1 .. N : \A j \in k .. N :
                      SubSeq(q, m, k) \o SubSeq(q, k + 1, j) = SubSeq(q, m, j)
                BY ConcatAdjacentSubSeq
            <4> HIDE DEF N
            <4>3. SubSeq(q, 1, n) \o SubSeq(q, n + 1, N) = SubSeq(q, 1, N)
                BY <4>1, <4>2
            <4> QED  BY <4>3 DEF N
        <3>3. \A i \in 1 .. Len(q) : q[i] \in Q
            OBVIOUS
        <3>4. front \in Seq(Q)
            BY <2>1, <3>3, SubSeqProperties
        <3>5. back \in Seq(Q)
            BY <2>1, <3>3, SubSeqProperties
        <3> QED  BY <3>1, <3>2, <3>4, <3>5
    <2> HIDE DEF front, back
    <2>4. <<e>> \in Seq(Q) /\ ToSet(<<e>>) = {e}
        BY SetOfOne
    <2>5. front \o <<e>> \in Seq(Q) /\ (front \o <<e>>) \o back \in Seq(Q)
        BY <2>3, <2>4
    <2>6. ToSet((front \o <<e>>) \o back) = ToSet(front \o <<e>>) \cup ToSet(back)
        BY <2>3, <2>5, SetOfConcat
    <2>7. ToSet(front \o <<e>>) = ToSet(front) \cup ToSet(<<e>>)
        BY <2>3, <2>4, SetOfConcat
    <2>8. ToSet(q) = ToSet(front) \cup ToSet(back)
        BY <2>3, SetOfConcat
    <2> QED  BY <2>2, <2>4, <2>5, <2>6, <2>7, <2>8
<1> QED  BY <1>1, <1>2

LEMMA SetOfTagged ==
    ASSUME NEW kind \in Kind, NEW s \in Seq(Target)
    PROVE  /\ Tagged(kind, s) \in Seq(Kind \X Target)
           /\ ToSet(Tagged(kind, s)) = {<<kind, s[i]>> : i \in DOMAIN s}
<1>1. Tagged(kind, s) \in Seq(Kind \X Target)
    BY DEF Tagged
<1> QED  BY <1>1 DEF Tagged, ToSet

\* The targets to resolve are the ones given.
LEMMA AllAreResolved ==
    ASSUME args \in Commands
    PROVE  LET all == Tagged("common", args.common) \o Tagged("dir", args.dirs)
                          \o Tagged("file", args.files)
           IN  all \in Seq(Kind \X Target) /\ ToSet(all) = Given
<1> DEFINE c == Tagged("common", args.common)
           d == Tagged("dir", args.dirs)
           e == Tagged("file", args.files)
<1>1. /\ args.common \in Seq(Target) /\ args.dirs \in Seq(Target)
      /\ args.files \in Seq(Target)
    BY DriverAssumption DEF DriverAssumption
<1>2. /\ c \in Seq(Kind \X Target) /\ d \in Seq(Kind \X Target)
      /\ e \in Seq(Kind \X Target)
      /\ ToSet(c) = {<<"common", args.common[i]>> : i \in DOMAIN args.common}
      /\ ToSet(d) = {<<"dir", args.dirs[i]>> : i \in DOMAIN args.dirs}
      /\ ToSet(e) = {<<"file", args.files[i]>> : i \in DOMAIN args.files}
    <2>1. "common" \in Kind /\ "dir" \in Kind /\ "file" \in Kind
        BY DEF Kind
    <2> QED  BY <1>1, <2>1, SetOfTagged
<1> HIDE DEF c, d, e
<1>3. c \o d \in Seq(Kind \X Target) /\ ToSet(c \o d) = ToSet(c) \cup ToSet(d)
    BY <1>2, SetOfConcat
<1>4. /\ (c \o d) \o e \in Seq(Kind \X Target)
      /\ ToSet((c \o d) \o e) = ToSet(c \o d) \cup ToSet(e)
    <2> DEFINE cd == c \o d
    <2>1. cd \in Seq(Kind \X Target)
        BY <1>3
    <2> HIDE DEF cd
    <2>2. cd \o e \in Seq(Kind \X Target) /\ ToSet(cd \o e) = ToSet(cd) \cup ToSet(e)
        BY <1>2, <2>1, SetOfConcat
    <2> QED  BY <2>2, Zenon DEF cd
<1>5. ToSet((c \o d) \o e) = Given
    BY <1>2, <1>3, <1>4, Zenon DEF Given
<1> QED  BY <1>4, <1>5 DEF c, d, e

----------------------------------------------------------------------------
(* A run of the program.                                                   *)

Finished == pc = "end" /\ outcome # "report"

\* Where the results of a file below a given target are, and what they are to
\* be.
Key(t, f) == IF Common THEN <<f, f>> ELSE <<t[2], f>>
Verdict(t, f) == Findings(PolicyOf(t[1], t[2], f), f)

\* The targets come from the command line and are of one sort, common ones or
\* inferred ones.  A path is resolved only if it was given, and is rejected
\* unless it is of the right kind.
TargetsInv ==
    /\ pc = "main" \/ outcome \in {"help", "refused"} =>
           /\ targets = <<>> /\ queue = <<>> /\ missing = {} /\ rejected = {}
           /\ todo = {} /\ owner[2] = NoPath
           /\ \A k \in DOMAIN results : results[k] = {}
    /\ pc # "main" /\ outcome \notin {"help", "refused"} =>
           (Common <=> ~ Inferred)
    /\ pc = "lint" \/ outcome = "report" => targets = <<>>
    /\ outcome = "report" => queue = <<>> /\ todo = {}
    /\ ToSet(targets) \subseteq Given
    /\ \A e \in ToSet(queue) : e \in Given /\ RightKind(e[1], e[2])
    /\ owner[2] # NoPath => owner \in Given /\ RightKind(owner[1], owner[2])
    /\ todo \subseteq (IF owner[2] = NoPath THEN {} ELSE Covered(owner))
    /\ \A kind \in {"dir", "file"} : resolved[kind] # NoPath =>
           LET t == <<kind, resolved[kind]>>
           IN  /\ t \in Given /\ t[2] \notin Missing
               /\ RightKind(t[1], t[2]) \/ t \in rejected

\* What is reported as missing or rejected deserves it.
ReportsInv ==
    /\ \A p \in missing : \E t \in Given : t[2] = p
    /\ \A t \in rejected :
           /\ t[2] \notin Missing => t \in Given /\ ~ RightKind(t[1], t[2])
           /\ t[2] \in Missing =>
                  \E u \in rejected : u[1] = t[1] /\ t[1] # "common"
                                      /\ u[2] \notin Missing

\* No target is forgotten on the way from the command line to the report.
Accounted(t) ==
    \/ t \in ToSet(targets)
    \/ t[2] \in Missing /\ t[2] \in missing
    \/ t[2] \notin Missing /\ ~ RightKind(t[1], t[2]) /\ t \in rejected
    \/ t \in ToSet(queue)
    \/ /\ RightKind(t[1], t[2])
       /\ \A f \in Covered(t) : \/ t = owner /\ f \in todo
                                \/ results[Key(t, f)] = Verdict(t, f)

AccountInv == pc # "main" /\ ~ Finished => \A t \in Given : Accounted(t)

\* All results are those of a given target.
ResultsInv ==
    \A k \in DOMAIN results : results[k] # {} =>
        \E t \in Given : \E f \in Covered(t) :
            k = Key(t, f) /\ results[k] = Verdict(t, f)

\* A strict run keeps no results of a file it did not get to the end of.
StrictInv == Strict => \A k \in DOMAIN results : -1 \notin results[k]

\* The four causes that an exception has: a file that cannot be read, one that
\* cannot be linted to the end in a strict run, a missing target before any
\* other of its kind, and any code-proof file.
RaisesInv ==
    outcome = "raised" =>
        \/ \E t \in Given : \E f \in Covered(t) :
               Unreadable(f) \/ (Stuck(f) /\ Strict)
        \/ \E t \in Given : t[1] # "common" /\ t[2] \in Missing
        \/ \E t \in Given : t[1] = "file" /\ RightKind("file", t[2])

IInv ==
    /\ TypeOK /\ TargetsInv /\ ReportsInv /\ AccountInv /\ ResultsInv
    /\ StrictInv /\ RaisesInv

\* The sorts of targets and files.
LEMMA Sorts ==
    /\ \A kind, p : RightKind(kind, p) =>
           p \in Dir \cup CoqNamed /\ p \notin Missing /\ p # NoPath
    /\ \A t : Covered(t) \subseteq CoqNamed
    /\ \A kind \in Kind : \A p, f : PolicyOf(kind, p, f) \in Policy
    /\ \A p \in Dir : p \notin Coq
<1>1. \A kind, p : RightKind(kind, p) =>
          p \in Dir \cup CoqNamed /\ p \notin Missing /\ p # NoPath
    BY DriverAssumption DEF DriverAssumption, RightKind, CoqNamed, Target
<1>2. \A t : Covered(t) \subseteq CoqNamed
    <2> SUFFICES ASSUME NEW t, RightKind(t[1], t[2])
                 PROVE  Covered(t) \subseteq CoqNamed
        BY DEF Covered
    <2>1. CASE t[1] # "file" /\ t[2] \in Dir
        BY <2>1, DriverAssumption DEF DriverAssumption, Covered
    <2>2. CASE ~ (t[1] # "file" /\ t[2] \in Dir)
        BY <2>2 DEF Covered, RightKind
    <2> QED  BY <2>1, <2>2
<1>3. \A kind \in Kind : \A p, f : PolicyOf(kind, p, f) \in Policy
    BY DEF Kind, PolicyOf, Policy
<1>4. \A p \in Dir : p \notin Coq
    BY DriverAssumption DEF DriverAssumption
<1> QED  BY <1>1, <1>2, <1>3, <1>4

LEMMA GivenType ==
    ASSUME args \in Commands
    PROVE  /\ Given \subseteq Kind \X Target
           /\ (Common <=> ~ Inferred) =>
                  \A t \in Given : t[1] = "common" <=> Common
<1>1. /\ args.common \in Seq(Target) /\ args.dirs \in Seq(Target)
      /\ args.files \in Seq(Target)
    BY DriverAssumption DEF DriverAssumption
<1>2. Given \subseteq Kind \X Target
    BY <1>1 DEF Given, Kind
<1>3. ASSUME NEW t \in Given
      PROVE  \/ t[1] = "common" /\ args.common # <<>>
             \/ t[1] \in {"dir", "file"} /\ (args.dirs # <<>> \/ args.files # <<>>)
    <2>1. CASE \E i \in DOMAIN args.common : t = <<"common", args.common[i]>>
        BY <1>1, <2>1
    <2>2. CASE \E i \in DOMAIN args.dirs : t = <<"dir", args.dirs[i]>>
        BY <1>1, <2>2
    <2>3. CASE \E i \in DOMAIN args.files : t = <<"file", args.files[i]>>
        BY <1>1, <2>3
    <2> QED  BY <2>1, <2>2, <2>3 DEF Given
<1>4. (Common <=> ~ Inferred) => \A t \in Given : t[1] = "common" <=> Common
    BY <1>3 DEF Common, Inferred
<1> QED  BY <1>2, <1>4

LEMMA TextsAreRead ==
    ASSUME text \in [Coq -> Texts], NEW f
    PROVE  TextOf(f) \in Seq(Sentence)
<1>1. CASE f \in Coq
    BY <1>1, DriverAssumption DEF DriverAssumption, TextOf
<1>2. CASE f \notin Coq
    <2>1. TextOf(f) = <<"bytes">> /\ "bytes" \in Sentence
        BY <1>2 DEF TextOf, Sentence
    <2> QED  BY <2>1
<1> QED  BY <1>1, <1>2

\* Nothing changes the command line or a file.
LEMMA InputIsKept ==
    ASSUME args' = args, text' = text
    PROVE  /\ Common' = Common /\ Inferred' = Inferred /\ Given' = Given
           /\ Strict' = Strict
           /\ \A f : Stuck(f)' = Stuck(f)
           /\ \A t, f : Key(t, f)' = Key(t, f) /\ Verdict(t, f)' = Verdict(t, f)
           /\ \A p, f : Findings(p, f)' = Findings(p, f)
           /\ \A f : Unreadable(f)' = Unreadable(f)
<1>1. Common' = Common /\ Inferred' = Inferred /\ Given' = Given
    BY DEF Common, Inferred, Given
<1>2. \A f : TextOf(f)' = TextOf(f)
    BY DEF TextOf
<1>3. \A p, f : Findings(p, f)' = Findings(p, f)
    BY <1>2, Zenon DEF Findings
<1>4. \A t, f : Key(t, f)' = Key(t, f) /\ Verdict(t, f)' = Verdict(t, f)
    BY <1>1, <1>3, Zenon DEF Key, Verdict
<1>5. \A f : Unreadable(f)' = Unreadable(f)
    BY <1>2, Zenon DEF Unreadable
<1>6. Strict' = Strict /\ \A f : Stuck(f)' = Stuck(f)
    BY <1>1, <1>3, Zenon DEF Strict, Stuck
<1> QED  BY <1>1, <1>3, <1>4, <1>5, <1>6

LEMMA NextKeepsInput ==
    ASSUME [Next]_vars
    PROVE  args' = args /\ text' = text
BY DEF Next, vars, Refuse, Begin, ResolveCommon, ResolveInferred, StartLinting,
       NextTarget, Lint, Report

\* One verdict for each place in the results.
LEMMA OneVerdict ==
    ASSUME args \in Commands, text \in [Coq -> Texts], Common <=> ~ Inferred,
           NEW t \in Given, NEW f \in Covered(t),
           NEW u \in Given, NEW g \in Covered(u), Key(t, f) = Key(u, g)
    PROVE  f = g /\ Verdict(t, f) = Verdict(u, g)
<1>1. f = g /\ (~ Common => t[2] = u[2])
    BY DEF Key
<1>2. t[1] \in Kind /\ u[1] \in Kind
    BY GivenType
<1>3. CASE t[1] = u[1]
    <2>1. PolicyOf(t[1], t[2], f) = PolicyOf(u[1], u[2], g)
        <3>1. CASE t[1] = "dir"
            BY <1>1, <1>3, <3>1, GivenType
        <3>2. CASE t[1] # "dir"
            BY <1>2, <1>3, <3>2 DEF PolicyOf, Kind
        <3> QED  BY <3>1, <3>2
    <2> QED  BY <1>1, <2>1 DEF Verdict
<1>4. CASE t[1] # u[1]
    <2>1. /\ ~ Common /\ t[2] = u[2]
          /\ (t[1] = "dir" /\ u[1] = "file") \/ (t[1] = "file" /\ u[1] = "dir")
        BY <1>1, <1>2, <1>4, GivenType DEF Kind
    <2>2. f = t[2] /\ t[2] \in Dir
        BY <1>1, <2>1 DEF Covered, RightKind
    <2>3. f \notin Coq
        BY <2>2, Sorts
    <2>4. Verdict(t, f) = {-1} /\ Verdict(u, f) = {-1}
        BY <1>2, <2>3, Sorts, NotReadable DEF Verdict
    <2> QED  BY <1>1, <2>4
<1> QED  BY <1>3, <1>4

----------------------------------------------------------------------------
(* What the actions do.                                                    *)

LEMMA InitIInv == Init => IInv
<1> SUFFICES ASSUME Init
             PROVE  IInv
    OBVIOUS
<1>1. TypeOK
    <2>1. targets \in Seq(Kind \X Target) /\ queue \in Seq(Kind \X (Dir \cup CoqNamed))
        BY DEF Init
    <2>2. owner \in Kind \X (Dir \cup CoqNamed \cup {NoPath})
        BY DEF Init, Kind
    <2>3. linter \in [Policy -> [errors : SUBSET Error, open : Nat]]
        BY DEF Init
    <2>4. results \in [(Dir \cup CoqNamed) \X CoqNamed -> SUBSET Error]
        BY DEF Init
    <2> QED  BY <2>1, <2>2, <2>3, <2>4 DEF Init, TypeOK
<1>2. ToSet(<<>>) = {}
    BY DEF ToSet
<1>3. TargetsInv
    BY <1>2 DEF Init, TargetsInv
<1>4. ReportsInv /\ AccountInv /\ ResultsInv /\ StrictInv /\ RaisesInv
    BY DEF Init, ReportsInv, AccountInv, ResultsInv, StrictInv, RaisesInv
<1> QED  BY <1>1, <1>3, <1>4 DEF IInv

\* Begin takes all targets over.
LEMMA BeginTakesAll ==
    ASSUME TypeOK, Begin
    PROVE  targets' \in Seq(Kind \X Target) /\ ToSet(targets') = Given
BY AllAreResolved DEF TypeOK, Begin

\* Resolving a target removes it from the list.
LEMMA Resolved ==
    ASSUME TypeOK, targets # <<>>, targets' = Tail(targets)
    PROVE  /\ Head(targets) \in Kind \X Target
           /\ Head(targets) = <<Head(targets)[1], Head(targets)[2]>>
           /\ targets' \in Seq(Kind \X Target)
           /\ ToSet(targets) = {Head(targets)} \cup ToSet(targets')
<1>1. targets \in Seq(Kind \X Target)
    BY DEF TypeOK
<1>2. /\ Head(targets) \in Kind \X Target
      /\ Tail(targets) \in Seq(Kind \X Target)
      /\ ToSet(targets) = {Head(targets)} \cup ToSet(Tail(targets))
    BY <1>1, SetOfTail
<1> QED  BY <1>2

\* Both ways to resolve a target come to this: a target of the right kind is
\* queued, another one is missing or rejected; the path that is resolved for
\* a missing target of the inferred kinds is the one before it.
Outcome(t, path) ==
    /\ missing' = missing \cup ({t[2]} \cap Missing)
    /\ t[2] \notin Missing => path = t[2]
    /\ \/ /\ path = NoPath /\ t[1] # "common" /\ t[2] \in Missing
          /\ resolved[t[1]] = NoPath
          /\ pc' = "end" /\ outcome' = "raised"
          /\ UNCHANGED <<queue, rejected>>
       \/ /\ RightKind(t[1], path)
          /\ queue' \in Seq(Kind \X (Dir \cup CoqNamed))
          /\ ToSet(queue') = ToSet(queue) \cup {<<t[1], path>>}
          /\ UNCHANGED <<rejected, pc, outcome>>
       \/ /\ path # NoPath /\ ~ RightKind(t[1], path) /\ t[1] # "common"
          /\ rejected' = rejected \cup {t}
          /\ UNCHANGED <<queue, pc, outcome>>
       \/ /\ t[1] = "common" /\ t[2] \in Missing
          /\ UNCHANGED <<queue, rejected, pc, outcome>>
       \/ /\ t[1] = "common" /\ t[2] \notin Missing /\ ~ RightKind(t[1], t[2])
          /\ rejected' = rejected \cup {t}
          /\ UNCHANGED <<queue, pc, outcome>>

LEMMA ResolveCommonDoes ==
    ASSUME TypeOK, ResolveCommon
    PROVE  /\ Outcome(Head(targets), Head(targets)[2])
           /\ resolved' = resolved
<1> DEFINE t == Head(targets)
           Entry == Kind \X (Dir \cup CoqNamed)
<1>1. /\ t \in Kind \X Target /\ t = <<t[1], t[2]>>
    BY Resolved DEF ResolveCommon
<1>2. queue \in Seq(Entry)
    BY DEF TypeOK
<1>3. RightKind("common", t[2]) => t \in Entry /\ t[2] \notin Missing
    <2>1. RightKind("common", t[2]) => t[2] \in Dir \cup CoqNamed /\ t[2] \notin Missing
        BY Sorts
    <2> HIDE DEF t
    <2> QED  BY <1>1, <2>1
<1>4. /\ t[1] = "common" /\ UNCHANGED <<pc, resolved, outcome>>
      /\ \/ /\ t[2] \in Missing
            /\ missing' = missing \cup {t[2]} /\ UNCHANGED <<rejected, queue>>
         \/ /\ t[2] \notin Missing /\ RightKind("common", t[2])
            /\ queue' = FilesFirst(queue, t)
            /\ UNCHANGED <<missing, rejected>>
         \/ /\ t[2] \notin Missing /\ ~ RightKind("common", t[2])
            /\ rejected' = rejected \cup {t}
            /\ UNCHANGED <<missing, queue>>
    BY DEF ResolveCommon
<1>5. RightKind("common", t[2]) =>
          /\ FilesFirst(queue, t) \in Seq(Entry)
          /\ ToSet(FilesFirst(queue, t)) = ToSet(queue) \cup {t}
    BY <1>2, <1>3, FilesFirstAdds
<1> HIDE DEF t
<1>6. Outcome(t, t[2])
    BY <1>1, <1>4, <1>5 DEF Outcome
<1> QED  BY <1>4, <1>6 DEF t

LEMMA ResolveInferredDoes ==
    ASSUME TypeOK, ResolveInferred
    PROVE  LET t == Head(targets)
               path == IF t[2] \in Missing THEN resolved[t[1]] ELSE t[2]
           IN  /\ t[1] \in {"dir", "file"}
               /\ Outcome(t, path)
               /\ resolved' = [resolved EXCEPT ![t[1]] = path]
<1> DEFINE t == Head(targets)
           path == IF t[2] \in Missing THEN resolved[t[1]] ELSE t[2]
           Entry == Kind \X (Dir \cup CoqNamed)
<1>1. t \in Kind \X Target /\ t = <<t[1], t[2]>> /\ t[1] # "common"
    BY Resolved DEF ResolveInferred
<1>2. queue \in Seq(Entry)
    BY DEF TypeOK
<1>3. RightKind(t[1], path) => <<t[1], path>> \in Entry /\ path \notin Missing
    <2>1. RightKind(t[1], path) => path \in Dir \cup CoqNamed /\ path \notin Missing
        BY Sorts
    <2> HIDE DEF t, path
    <2> QED  BY <1>1, <2>1
<1>4. /\ resolved' = [resolved EXCEPT ![t[1]] = path]
      /\ missing' = missing \cup ({t[2]} \cap Missing)
      /\ \/ path = NoPath /\ Stop("raised") /\ UNCHANGED <<rejected, queue>>
         \/ /\ RightKind(t[1], path)
            /\ queue' = Append(queue, <<t[1], path>>)
            /\ UNCHANGED <<rejected, pc, outcome>>
         \/ /\ path # NoPath /\ ~ RightKind(t[1], path)
            /\ rejected' = rejected \cup {<<t[1], t[2]>>}
            /\ UNCHANGED <<queue, pc, outcome>>
    BY DEF ResolveInferred
<1>5. RightKind(t[1], path) =>
          /\ Append(queue, <<t[1], path>>) \in Seq(Entry)
          /\ ToSet(Append(queue, <<t[1], path>>)) = ToSet(queue) \cup {<<t[1], path>>}
    <2> DEFINE e == <<t[1], path>>
    <2>1. RightKind(t[1], path) => e \in Entry
        BY <1>3
    <2> HIDE DEF e, t
    <2>2. e \in Entry => Append(queue, e) \in Seq(Entry)
                         /\ ToSet(Append(queue, e)) = ToSet(queue) \cup {e}
        BY <1>2, SetOfAppend
    <2> QED  BY <2>1, <2>2 DEF e, t
<1>6. path = NoPath => t[2] \in Missing /\ resolved[t[1]] = NoPath
    <2>1. t[2] # NoPath
        BY <1>1, DriverAssumption DEF DriverAssumption
    <2> QED  BY <2>1
<1>7. t[2] \notin Missing => path = t[2]
    OBVIOUS
<1> HIDE DEF t, path
<1>8. Outcome(t, path)
    BY <1>1, <1>4, <1>5, <1>6, <1>7 DEF Outcome, Stop
<1>9. t[1] \in {"dir", "file"}
    BY <1>1 DEF Kind
<1> QED  BY <1>4, <1>8, <1>9 DEF t, path

\* Taking the next target from the queue.
LEMMA NextTargetDoes ==
    ASSUME TypeOK, TargetsInv, NextTarget
    PROVE  /\ owner' \in Given /\ RightKind(owner'[1], owner'[2])
           /\ owner' \in Kind \X (Dir \cup CoqNamed)
           /\ queue' \in Seq(Kind \X (Dir \cup CoqNamed))
           /\ ToSet(queue) = {owner'} \cup ToSet(queue')
           /\ todo' = Covered(owner')
<1> DEFINE Entry == Kind \X (Dir \cup CoqNamed)
<1>1. queue \in Seq(Entry) /\ queue # <<>>
    BY DEF TypeOK, NextTarget
<1>2. owner' = Head(queue) /\ queue' = Tail(queue)
    BY DEF NextTarget
<1>3. /\ owner' \in Entry /\ queue' \in Seq(Entry)
      /\ ToSet(queue) = {owner'} \cup ToSet(queue')
    BY <1>1, <1>2, SetOfTail
<1>4. owner' \in Given /\ RightKind(owner'[1], owner'[2])
    BY <1>3 DEF TargetsInv
<1>5. todo' = Covered(owner')
    BY <1>4 DEF NextTarget, Covered
<1> QED  BY <1>3, <1>4, <1>5

\* Linting a file either gives up, for a reason, or puts the verdict on the
\* file in its place, if there is anything in it.
LEMMA LintDoes ==
    ASSUME TypeOK, TargetsInv, NEW f, Lint(f)
    PROVE  /\ owner \in Given /\ RightKind(owner[1], owner[2])
           /\ f \in Covered(owner) /\ f \in CoqNamed /\ pc = "lint"
           /\ linter' \in [Policy -> [errors : SUBSET Error, open : Nat]]
           /\ \/ /\ pc' = "end" /\ outcome' = "raised" /\ UNCHANGED <<todo, results>>
                 /\ Unreadable(f) \/ (Stuck(f) /\ Strict) \/ owner[1] = "file"
              \/ /\ Strict => -1 \notin Verdict(owner, f)
                 /\ todo' = todo \ {f} /\ UNCHANGED <<pc, outcome>>
                 /\ results' = IF Verdict(owner, f) = {} THEN results
                               ELSE [results EXCEPT ![Key(owner, f)]
                                        = Verdict(owner, f)]
<1> DEFINE policy == PolicyOf(owner[1], owner[2], f)
           r == Run(policy, f)
<1>1. pc = "lint" /\ f \in todo
    BY DEF Lint
<1>2. owner \in Given /\ RightKind(owner[1], owner[2]) /\ f \in Covered(owner)
    BY <1>1 DEF TargetsInv
<1>3. f \in CoqNamed
    BY <1>2, Sorts
<1>4. policy \in Policy /\ owner[1] \in Kind
    BY Sorts DEF TypeOK
<1>5. TextOf(f) \in Seq(Sentence)
    BY TextsAreRead DEF TypeOK
<1>6. linter[policy] \in Object
    BY <1>4 DEF TypeOK, Object
<1>7. /\ r \in Acc /\ Errors(r) = Verdict(owner, f)
      /\ r.stop # "" <=> Obstacles(TextOf(f)) # {}
      /\ r.stop = "read" => Unreadable(f)
    BY <1>4, <1>5, <1>6, RunFinds DEF Verdict
<1>8. /\ Stuck(f) <=> Obstacles(TextOf(f)) # {}
      /\ -1 \in Verdict(owner, f) <=> Obstacles(TextOf(f)) # {}
    BY <1>5, Stopped DEF Stuck, Verdict
<1>9. Common <=> ~ Inferred
    <2>1. pc # "main" /\ outcome \notin {"help", "refused"}
        BY <1>1 DEF TypeOK
    <2> QED  BY <2>1 DEF TargetsInv
<1>10. /\ linter' = [linter EXCEPT ![policy] = [errors |-> r.errors, open |-> r.open]]
       /\ IF Raises(r) \/ owner[1] = "file"
          THEN Stop("raised") /\ UNCHANGED <<todo, results>>
          ELSE /\ todo' = todo \ {f}
               /\ results' = IF Errors(r) = {} THEN results
                             ELSE [results EXCEPT ![KeyOf(f)] = Errors(r)]
               /\ UNCHANGED <<pc, outcome>>
    BY DEF Lint
<1> HIDE DEF r, policy
<1>11. linter' \in [Policy -> [errors : SUBSET Error, open : Nat]]
    <2>1. r.errors \in SUBSET Error /\ r.open \in Nat
        BY <1>7 DEF Acc
    <2>2. linter \in [Policy -> [errors : SUBSET Error, open : Nat]]
        BY DEF TypeOK
    <2> QED  BY <1>10, <2>1, <2>2
<1>12. /\ Raises(r) => Unreadable(f) \/ (Stuck(f) /\ Strict)
       /\ ~ Raises(r) /\ Strict => -1 \notin Verdict(owner, f)
    BY <1>7, <1>8, <1>9 DEF Raises, Strict
<1>13. KeyOf(f) = Key(owner, f)
    BY DEF KeyOf, Key
<1>14. CASE Raises(r) \/ owner[1] = "file"
    <2>1. pc' = "end" /\ outcome' = "raised" /\ UNCHANGED <<todo, results>>
        BY <1>10, <1>14 DEF Stop
    <2> QED  BY <1>1, <1>2, <1>3, <1>11, <1>12, <1>14, <2>1
<1>15. CASE ~ (Raises(r) \/ owner[1] = "file")
    <2>1. /\ todo' = todo \ {f} /\ UNCHANGED <<pc, outcome>>
          /\ results' = IF Verdict(owner, f) = {} THEN results
                        ELSE [results EXCEPT ![Key(owner, f)] = Verdict(owner, f)]
        BY <1>7, <1>10, <1>13, <1>15
    <2> QED  BY <1>1, <1>2, <1>3, <1>11, <1>12, <1>15, <2>1
<1> QED  BY <1>14, <1>15

\* A verdict is a set of errors, and its place is in the results.
LEMMA VerdictType ==
    ASSUME TypeOK, NEW t, NEW f, RightKind(t[1], t[2]), f \in CoqNamed
    PROVE  /\ Verdict(t, f) \in SUBSET Error
           /\ Key(t, f) \in (Dir \cup CoqNamed) \X CoqNamed
<1>1. Key(t, f) \in (Dir \cup CoqNamed) \X CoqNamed
    BY Sorts DEF Key
<1>2. DOMAIN TextOf(f) \subseteq Int
    <2>1. TextOf(f) \in Seq(Sentence)
        BY TextsAreRead DEF TypeOK
    <2>2. DOMAIN TextOf(f) = 1 .. Len(TextOf(f))
        BY <2>1
    <2> QED  BY <2>2
<1>3. Verdict(t, f) \in SUBSET Error
    BY <1>2 DEF Verdict, Findings, Error
<1> QED  BY <1>1, <1>3

\* A step of resolving a target, in terms of types.
LEMMA OutcomeType ==
    ASSUME TypeOK, NEW t \in Kind \X Target, NEW path, Outcome(t, path)
    PROVE  /\ missing' \subseteq Missing
           /\ rejected' \subseteq Kind \X Target
           /\ queue' \in Seq(Kind \X (Dir \cup CoqNamed))
           /\ \/ pc' = pc /\ outcome' = outcome
              \/ pc' = "end" /\ outcome' = "raised"
BY DEF TypeOK, Outcome

LEMMA NextTypeOK ==
    ASSUME TypeOK, TargetsInv, [Next]_vars
    PROVE  TypeOK'
<1>1. args' \in Commands /\ text' \in [Coq -> Texts]
    BY NextKeepsInput DEF TypeOK
<1>2. CASE Refuse
    BY <1>1, <1>2 DEF Refuse, Stop, Unresolved, Unlinted, TypeOK
<1>3. CASE Begin
    BY <1>1, <1>3, BeginTakesAll DEF Begin, Unlinted, TypeOK
<1>4. CASE ResolveCommon
    <2>1. /\ Outcome(Head(targets), Head(targets)[2]) /\ resolved' = resolved
          /\ Head(targets) \in Kind \X Target /\ targets' \in Seq(Kind \X Target)
        BY <1>4, ResolveCommonDoes, Resolved DEF ResolveCommon
    <2>2. UNCHANGED <<pc, outcome, owner, todo, linter, results>>
        BY <1>4 DEF ResolveCommon
    <2> QED  BY <1>1, <2>1, <2>2, OutcomeType DEF TypeOK
<1>5. CASE ResolveInferred
    <2> DEFINE t == Head(targets)
               path == IF t[2] \in Missing THEN resolved[t[1]] ELSE t[2]
    <2>1. /\ t[1] \in {"dir", "file"} /\ Outcome(t, path)
          /\ resolved' = [resolved EXCEPT ![t[1]] = path]
          /\ t \in Kind \X Target /\ targets' \in Seq(Kind \X Target)
        BY <1>5, ResolveInferredDoes, Resolved DEF ResolveInferred
    <2>2. UNCHANGED <<owner, todo, linter, results>> /\ pc = "resolve"
        BY <1>5 DEF ResolveInferred
    <2>3. path \in Target \cup {NoPath}
        BY <2>1 DEF TypeOK
    <2> HIDE DEF t, path
    <2>4. resolved' \in [{"dir", "file"} -> Target \cup {NoPath}]
        BY <2>1, <2>3 DEF TypeOK
    <2> QED  BY <1>1, <2>1, <2>2, <2>4, OutcomeType DEF TypeOK
<1>6. CASE StartLinting
    BY <1>1, <1>6 DEF StartLinting, Unresolved, Unlinted, TypeOK
<1>7. CASE NextTarget
    <2>1. owner' \in Kind \X (Dir \cup CoqNamed \cup {NoPath}) /\ todo' \subseteq CoqNamed
        BY <1>7, NextTargetDoes, Sorts
    <2> QED  BY <1>1, <1>7, <2>1, NextTargetDoes DEF NextTarget, Unresolved, TypeOK
<1>8. ASSUME NEW f \in CoqNamed, Lint(f)
      PROVE  TypeOK'
    <2>1. UNCHANGED <<queue, owner, targets, resolved, missing, rejected>>
        BY <1>8 DEF Lint, Unresolved
    <2>2. results' \in [(Dir \cup CoqNamed) \X CoqNamed -> SUBSET Error]
        <3>1. RightKind(owner[1], owner[2])
            BY <1>8, LintDoes
        <3>2. /\ Verdict(owner, f) \in SUBSET Error
              /\ Key(owner, f) \in (Dir \cup CoqNamed) \X CoqNamed
            BY <3>1, VerdictType
        <3>3. results \in [(Dir \cup CoqNamed) \X CoqNamed -> SUBSET Error]
            BY DEF TypeOK
        <3>4. \/ results' = results
              \/ results' = [results EXCEPT ![Key(owner, f)] = Verdict(owner, f)]
            BY <1>8, LintDoes
        <3> QED  BY <3>2, <3>3, <3>4
    <2>3. /\ linter' \in [Policy -> [errors : SUBSET Error, open : Nat]]
          /\ todo' \subseteq todo
          /\ \/ pc' = pc /\ outcome' = outcome
             \/ pc' = "end" /\ outcome' = "raised"
        BY <1>8, LintDoes
    <2> QED  BY <1>1, <2>1, <2>2, <2>3 DEF TypeOK
<1>9. CASE Report
    BY <1>1, <1>9 DEF Report, Stop, Unresolved, Unlinted, TypeOK
<1>10. CASE UNCHANGED vars
    BY <1>10 DEF vars, TypeOK
<1> QED  BY <1>2, <1>3, <1>4, <1>5, <1>6, <1>7, <1>8, <1>9, <1>10 DEF Next

\* What is not resolved or linted after a step was not before it.
LEMMA ResolvingKeepsTargets ==
    ASSUME TypeOK, TargetsInv, args' = args, text' = text, pc = "resolve",
           targets # <<>>, targets' = Tail(targets), UNCHANGED <<owner, todo, results>>,
           NEW path, Outcome(Head(targets), path),
           \/ resolved' = resolved /\ path = Head(targets)[2]
           \/ /\ Head(targets)[1] \in {"dir", "file"}
              /\ resolved' = [resolved EXCEPT ![Head(targets)[1]] = path]
              /\ Head(targets)[2] \in Missing => path = resolved[Head(targets)[1]]
    PROVE  TargetsInv'
<1> DEFINE t == Head(targets)
<1>1. /\ t \in Kind \X Target /\ t = <<t[1], t[2]>>
      /\ ToSet(targets) = {t} \cup ToSet(targets')
    BY Resolved
<1>2. /\ t \in Given /\ ToSet(targets') \subseteq Given
      /\ outcome = "none" /\ (Common <=> ~ Inferred)
    <2>1. outcome = "none"
        BY DEF TypeOK
    <2> QED  BY <1>1, <2>1 DEF TargetsInv
<1>3. Given' = Given /\ Common' = Common /\ Inferred' = Inferred
    BY InputIsKept
<1>4. \/ resolved' = resolved /\ path = t[2]
      \/ /\ t[1] \in {"dir", "file"}
         /\ resolved' = [resolved EXCEPT ![t[1]] = path]
         /\ t[2] \in Missing => path = resolved[t[1]]
    OBVIOUS
<1>5. Outcome(t, path)
    OBVIOUS
<1> HIDE DEF t
<1>6. RightKind(t[1], path) => path \notin Missing /\ path # NoPath
    BY Sorts
<1>7. \/ pc' = "resolve" /\ outcome' = "none"
      \/ pc' = "end" /\ outcome' = "raised"
    BY <1>2, <1>5 DEF Outcome
<1>8. rejected \subseteq rejected'
    BY <1>5 DEF Outcome
<1>9. path # NoPath /\ t[1] # "common" /\ resolved' # resolved =>
          LET u == <<t[1], path>>
          IN  /\ u \in Given /\ path \notin Missing
              /\ RightKind(t[1], path) \/ u \in rejected'
    <2> SUFFICES ASSUME path # NoPath, t[1] # "common", resolved' # resolved
                 PROVE  LET u == <<t[1], path>>
                        IN  /\ u \in Given /\ path \notin Missing
                            /\ RightKind(t[1], path) \/ u \in rejected'
        OBVIOUS
    <2>1. CASE t[2] \in Missing
        BY <1>4, <1>8, <2>1 DEF TargetsInv
    <2>2. CASE t[2] \notin Missing
        <3>1. path = t[2] /\ t = <<t[1], path>>
            BY <1>1, <1>5, <2>2 DEF Outcome
        <3>2. RightKind(t[1], path) \/ t \in rejected'
            BY <1>5, <2>2, <3>1 DEF Outcome
        <3> QED  BY <1>2, <2>2, <3>1, <3>2
    <2> QED  BY <2>1, <2>2
<1>10. \A kind \in {"dir", "file"} : resolved'[kind] # NoPath =>
           LET u == <<kind, resolved'[kind]>>
           IN  /\ u \in Given /\ u[2] \notin Missing
               /\ RightKind(u[1], u[2]) \/ u \in rejected'
    <2> TAKE kind \in {"dir", "file"}
    <2>1. resolved \in [{"dir", "file"} -> Target \cup {NoPath}]
        BY DEF TypeOK
    <2>2. CASE resolved'[kind] = resolved[kind]
        BY <1>8, <2>2 DEF TargetsInv
    <2>3. CASE resolved'[kind] # resolved[kind]
        <3>1. /\ kind = t[1] /\ resolved'[kind] = path /\ resolved' # resolved
              /\ t[1] # "common"
            BY <1>4, <2>1, <2>3
        <3> QED  BY <1>9, <3>1
    <2> QED  BY <2>2, <2>3
<1>11. \A e \in ToSet(queue') : e \in Given /\ RightKind(e[1], e[2])
    <2>1. \/ ToSet(queue') = ToSet(queue)
          \/ RightKind(t[1], path) /\ ToSet(queue') = ToSet(queue) \cup {<<t[1], path>>}
        BY <1>5 DEF Outcome
    <2>2. RightKind(t[1], path) => <<t[1], path>> \in Given
        <3> SUFFICES ASSUME RightKind(t[1], path)
                     PROVE  <<t[1], path>> \in Given
            OBVIOUS
        <3>1. CASE t[2] \notin Missing
            BY <1>1, <1>2, <1>5, <3>1 DEF Outcome
        <3>2. CASE t[2] \in Missing
            <4>1. path # t[2] /\ path # NoPath
                BY <1>6, <3>2
            <4>2. t[1] \in {"dir", "file"} /\ path = resolved[t[1]]
                BY <1>4, <3>2, <4>1
            <4> QED  BY <4>1, <4>2 DEF TargetsInv
        <3> QED  BY <3>1, <3>2
    <2>3. \A e \in ToSet(queue) : e \in Given /\ RightKind(e[1], e[2])
        BY DEF TargetsInv
    <2> QED  BY <2>1, <2>2, <2>3
<1>12. /\ owner' = owner /\ todo' = todo /\ results' = results
       /\ owner[2] # NoPath => owner \in Given /\ RightKind(owner[1], owner[2])
       /\ todo \subseteq (IF owner[2] = NoPath THEN {} ELSE Covered(owner))
    BY DEF TargetsInv
<1> QED  BY <1>2, <1>3, <1>7, <1>10, <1>11, <1>12 DEF TargetsInv

LEMMA NextTargetsInv ==
    ASSUME TypeOK, TargetsInv, [Next]_vars
    PROVE  TargetsInv'
<1>1. args' = args /\ text' = text
    BY NextKeepsInput
<1>2. Given' = Given /\ Common' = Common /\ Inferred' = Inferred
    BY <1>1, InputIsKept
<1>3. outcome = "none" <=> pc # "end"
    BY DEF TypeOK
<1>4. CASE Refuse
    BY <1>2, <1>3, <1>4 DEF Refuse, Stop, Unresolved, Unlinted, TargetsInv
<1>5. CASE Begin
    <2>1. ToSet(targets') = Given
        BY <1>5, BeginTakesAll
    <2>2. /\ pc' = "resolve" /\ outcome' = "none" /\ (Common <=> ~ Inferred)
          /\ queue' = <<>> /\ todo' = {} /\ owner' = owner /\ owner[2] = NoPath
          /\ resolved' = resolved /\ rejected' = rejected /\ rejected = {} /\ queue = <<>>
        BY <1>3, <1>5 DEF Begin, Unlinted, TargetsInv
    <2>3. ToSet(queue') = {}
        BY <2>2 DEF ToSet
    <2> QED  BY <1>2, <2>1, <2>2, <2>3 DEF TargetsInv
<1>6. CASE ResolveCommon
    <2>1. /\ Outcome(Head(targets), Head(targets)[2]) /\ resolved' = resolved
          /\ pc = "resolve" /\ targets # <<>> /\ targets' = Tail(targets)
          /\ UNCHANGED <<owner, todo, results>>
        BY <1>6, ResolveCommonDoes DEF ResolveCommon
    <2> QED  BY <1>1, <2>1, ResolvingKeepsTargets
<1>7. CASE ResolveInferred
    <2> DEFINE path == IF Head(targets)[2] \in Missing THEN resolved[Head(targets)[1]]
                       ELSE Head(targets)[2]
    <2>1. /\ Outcome(Head(targets), path) /\ Head(targets)[1] \in {"dir", "file"}
          /\ resolved' = [resolved EXCEPT ![Head(targets)[1]] = path]
        BY <1>7, ResolveInferredDoes
    <2>2. /\ pc = "resolve" /\ targets # <<>> /\ targets' = Tail(targets)
          /\ UNCHANGED <<owner, todo, results>>
        BY <1>7 DEF ResolveInferred
    <2>3. Head(targets)[2] \in Missing => path = resolved[Head(targets)[1]]
        OBVIOUS
    <2> HIDE DEF path
    <2> QED  BY <1>1, <2>1, <2>2, <2>3, ResolvingKeepsTargets
<1>8. CASE StartLinting
    BY <1>2, <1>3, <1>8 DEF StartLinting, Unresolved, Unlinted, TargetsInv
<1>9. CASE NextTarget
    <2>1. /\ owner' \in Given /\ RightKind(owner'[1], owner'[2])
          /\ ToSet(queue) = {owner'} \cup ToSet(queue') /\ todo' = Covered(owner')
        BY <1>9, NextTargetDoes
    <2>2. owner'[2] # NoPath
        BY <2>1, Sorts
    <2>3. /\ pc = "lint" /\ pc' = pc /\ outcome' = outcome /\ results' = results
          /\ UNCHANGED <<targets, resolved, missing, rejected>>
        BY <1>9 DEF NextTarget, Unresolved
    <2> QED  BY <1>2, <1>3, <2>1, <2>2, <2>3 DEF TargetsInv
<1>10. ASSUME NEW f \in CoqNamed, Lint(f)
       PROVE  TargetsInv'
    <2>1. UNCHANGED <<queue, owner, targets, resolved, missing, rejected>>
        BY <1>10 DEF Lint, Unresolved
    <2>2. /\ pc = "lint" /\ todo' \subseteq todo
          /\ \/ pc' = pc /\ outcome' = outcome
             \/ pc' = "end" /\ outcome' = "raised"
        BY <1>10, LintDoes
    <2>3. TargetsInv
        OBVIOUS
    <2> QED  BY <1>2, <1>3, <2>1, <2>2, <2>3 DEF TargetsInv
<1>11. CASE Report
    BY <1>2, <1>3, <1>11 DEF Report, Stop, Unresolved, Unlinted, TargetsInv
<1>12. CASE UNCHANGED vars
    BY <1>2, <1>12 DEF vars, TargetsInv
<1> QED
    BY <1>4, <1>5, <1>6, <1>7, <1>8, <1>9, <1>10, <1>11, <1>12 DEF Next

\* The target that is resolved is a given one; the path that a missing target
\* is given comes from a target of its kind that is rejected unless it is of
\* the right kind.
LEMMA SomeIsResolved ==
    ASSUME TypeOK, TargetsInv, ResolveCommon \/ ResolveInferred
    PROVE  \E t \in Given : \E path :
               /\ Outcome(t, path)
               /\ ToSet(targets) = {t} \cup ToSet(targets')
               /\ t[2] \in Missing /\ path # NoPath /\ t[1] # "common" =>
                      LET u == <<t[1], path>>
                      IN  /\ u \in Given /\ path \notin Missing
                          /\ RightKind(t[1], path) \/ u \in rejected
               /\ t[1] # "common" /\ path = NoPath => resolved'[t[1]] = NoPath
               /\ pc = "resolve" /\ UNCHANGED <<owner, todo, results>>
               /\ t[1] = "common" \/ t[1] \in {"dir", "file"}
<1> DEFINE t == Head(targets)
           path == IF t[1] # "common" /\ t[2] \in Missing THEN resolved[t[1]]
                   ELSE t[2]
<1>1. /\ pc = "resolve" /\ targets # <<>> /\ targets' = Tail(targets)
      /\ UNCHANGED <<owner, todo, results>>
    BY DEF ResolveCommon, ResolveInferred
<1>2. ToSet(targets) = {t} \cup ToSet(targets') /\ t \in Kind \X Target
    BY <1>1, Resolved
<1>3. t \in Given
    BY <1>2 DEF TargetsInv
<1>4. Outcome(t, path)
    <2>1. CASE ResolveCommon
        <3>1. t[1] = "common"
            BY <2>1 DEF ResolveCommon
        <3> QED  BY <2>1, <3>1, ResolveCommonDoes
    <2>2. CASE ResolveInferred
        BY <2>2, ResolveInferredDoes
    <2> QED  BY <2>1, <2>2
<1>5. t[1] # "common" => /\ t[1] \in {"dir", "file"}
                         /\ resolved' = [resolved EXCEPT ![t[1]] = path]
    <2>1. CASE ResolveCommon
        BY <2>1 DEF ResolveCommon
    <2>2. CASE ResolveInferred
        BY <2>2, ResolveInferredDoes
    <2> QED  BY <2>1, <2>2
<1>6. t[2] \in Missing /\ t[1] # "common" => path = resolved[t[1]]
    OBVIOUS
<1> HIDE DEF t, path
<1>7. t[2] \in Missing /\ path # NoPath /\ t[1] # "common" =>
          LET u == <<t[1], path>>
          IN  /\ u \in Given /\ path \notin Missing
              /\ RightKind(t[1], path) \/ u \in rejected
    BY <1>5, <1>6 DEF TargetsInv
<1>8. t[1] # "common" /\ path = NoPath => resolved'[t[1]] = NoPath
    BY <1>5 DEF TypeOK
<1> QED  BY <1>1, <1>2, <1>3, <1>4, <1>5, <1>7, <1>8

LEMMA NextReportsInv ==
    ASSUME TypeOK, TargetsInv, ReportsInv, [Next]_vars
    PROVE  ReportsInv'
<1>1. args' = args /\ text' = text
    BY NextKeepsInput
<1>2. Given' = Given
    BY <1>1, InputIsKept
<1>3. CASE ResolveCommon \/ ResolveInferred
    <2>0. PICK t \in Given : \E path :
              /\ Outcome(t, path)
              /\ t[2] \in Missing /\ path # NoPath /\ t[1] # "common" =>
                      LET u == <<t[1], path>>
                      IN  /\ u \in Given /\ path \notin Missing
                          /\ RightKind(t[1], path) \/ u \in rejected
        BY <1>3, SomeIsResolved
    <2>1. PICK path :
              /\ Outcome(t, path)
              /\ t[2] \in Missing /\ path # NoPath /\ t[1] # "common" =>
                      LET u == <<t[1], path>>
                      IN  /\ u \in Given /\ path \notin Missing
                          /\ RightKind(t[1], path) \/ u \in rejected
        BY <2>0
    <2>2. \A p \in missing' : \E u \in Given : u[2] = p
        BY <2>1 DEF Outcome, ReportsInv
    <2>3. \/ rejected' = rejected
          \/ /\ rejected' = rejected \cup {t}
             /\ \/ path # NoPath /\ ~ RightKind(t[1], path) /\ t[1] # "common"
                \/ t[2] \notin Missing /\ ~ RightKind(t[1], t[2])
        BY <2>1 DEF Outcome
    <2>4. t[2] \notin Missing => path = t[2]
        BY <2>1 DEF Outcome
    <2>5. t \in rejected' /\ t \notin rejected =>
              /\ t[2] \notin Missing => ~ RightKind(t[1], t[2])
              /\ t[2] \in Missing =>
                     \E u \in rejected' : u[1] = t[1] /\ t[1] # "common"
                                          /\ u[2] \notin Missing
        <3>1. t[2] \notin Missing /\ t \in rejected' /\ t \notin rejected =>
                  ~ RightKind(t[1], t[2])
            BY <2>3, <2>4
        <3>2. ASSUME t[2] \in Missing, t \in rejected', t \notin rejected
              PROVE  \E u \in rejected' : u[1] = t[1] /\ t[1] # "common"
                                          /\ u[2] \notin Missing
            <4> DEFINE u == <<t[1], path>>
            <4>1. u \in rejected /\ path \notin Missing /\ t[1] # "common"
                BY <2>1, <2>3, <3>2
            <4>2. u[1] = t[1] /\ u[2] = path
                OBVIOUS
            <4> HIDE DEF u
            <4> QED  BY <2>3, <4>1, <4>2
        <3> QED  BY <3>1, <3>2
    <2>6. \A u \in rejected' :
              /\ u[2] \notin Missing => u \in Given /\ ~ RightKind(u[1], u[2])
              /\ u[2] \in Missing =>
                     \E v \in rejected' : v[1] = u[1] /\ u[1] # "common"
                                          /\ v[2] \notin Missing
        BY <2>3, <2>5 DEF ReportsInv
    <2> QED  BY <1>2, <2>2, <2>6 DEF ReportsInv
<1>4. CASE UNCHANGED <<missing, rejected>>
    BY <1>2, <1>4 DEF ReportsInv
<1>5. \/ ResolveCommon \/ ResolveInferred \/ UNCHANGED <<missing, rejected>>
    BY DEF Next, vars, Refuse, Begin, StartLinting, NextTarget, Lint, Report,
           Unresolved
<1> QED  BY <1>3, <1>4, <1>5

LEMMA NextResultsInv ==
    ASSUME TypeOK, TargetsInv, ResultsInv, [Next]_vars
    PROVE  ResultsInv'
<1>1. args' = args /\ text' = text
    BY NextKeepsInput
<1>2. /\ Given' = Given
      /\ \A t, f : Key(t, f)' = Key(t, f) /\ Verdict(t, f)' = Verdict(t, f)
    BY <1>1, InputIsKept
<1>3. ASSUME NEW f \in CoqNamed, Lint(f)
      PROVE  \A k \in DOMAIN results' : results'[k] # {} =>
                 \E t \in Given : \E g \in Covered(t) :
                     k = Key(t, g) /\ results'[k] = Verdict(t, g)
    <2>1. /\ owner \in Given /\ f \in Covered(owner)
          /\ \/ results' = results
             \/ results' = [results EXCEPT ![Key(owner, f)] = Verdict(owner, f)]
        BY <1>3, LintDoes
    <2> TAKE k \in DOMAIN results'
    <2> HAVE results'[k] # {}
    <2>2. k \in DOMAIN results
        BY <2>1
    <2>3. CASE results'[k] = results[k]
        BY <2>2, <2>3 DEF ResultsInv
    <2>4. CASE results'[k] # results[k]
        <3>1. k = Key(owner, f) /\ results'[k] = Verdict(owner, f)
            BY <2>1, <2>2, <2>4
        <3> QED  BY <2>1, <3>1
    <2> QED  BY <2>3, <2>4
<1>4. CASE UNCHANGED results
    BY <1>2, <1>4 DEF ResultsInv
<1>5. (\E f \in CoqNamed : Lint(f)) \/ UNCHANGED results
    BY DEF Next, vars, Refuse, Begin, ResolveCommon, ResolveInferred,
           StartLinting, NextTarget, Report, Unlinted
<1> QED  BY <1>2, <1>3, <1>4, <1>5 DEF ResultsInv

LEMMA NextStrictInv ==
    ASSUME TypeOK, TargetsInv, StrictInv, [Next]_vars
    PROVE  StrictInv'
<1>1. Strict' = Strict
    BY NextKeepsInput, InputIsKept
<1>2. ASSUME NEW f \in CoqNamed, Lint(f)
      PROVE  StrictInv'
    <2>1. \/ results' = results
          \/ /\ Strict => -1 \notin Verdict(owner, f)
             /\ results' = [results EXCEPT ![Key(owner, f)] = Verdict(owner, f)]
        BY <1>2, LintDoes
    <2> QED  BY <1>1, <2>1 DEF StrictInv
<1>3. CASE UNCHANGED results
    BY <1>1, <1>3 DEF StrictInv
<1>4. (\E f \in CoqNamed : Lint(f)) \/ UNCHANGED results
    BY DEF Next, vars, Refuse, Begin, ResolveCommon, ResolveInferred,
           StartLinting, NextTarget, Report, Unlinted
<1> QED  BY <1>2, <1>3, <1>4

\* What stands in the results is nothing or the verdict.
LEMMA LocalVerdicts ==
    ASSUME TypeOK, TargetsInv, ResultsInv
    PROVE  \A t \in Given : \A f \in Covered(t) :
               /\ RightKind(t[1], t[2]) /\ f \in CoqNamed
               /\ Key(t, f) \in DOMAIN results
               /\ results[Key(t, f)] \in {{}, Verdict(t, f)}
<1> SUFFICES ASSUME NEW t \in Given, NEW f \in Covered(t)
             PROVE  /\ RightKind(t[1], t[2]) /\ f \in CoqNamed
                    /\ Key(t, f) \in DOMAIN results
                    /\ results[Key(t, f)] \in {{}, Verdict(t, f)}
    OBVIOUS
<1>1. RightKind(t[1], t[2]) /\ f \in CoqNamed
    BY Sorts DEF Covered
<1>2. Key(t, f) \in DOMAIN results
    <2>1. Key(t, f) \in (Dir \cup CoqNamed) \X CoqNamed
        BY <1>1, VerdictType
    <2> QED  BY <2>1 DEF TypeOK
<1>3. ASSUME results[Key(t, f)] # {}
      PROVE  results[Key(t, f)] = Verdict(t, f)
    <2>1. PICK u \in Given : \E g \in Covered(u) :
              Key(t, f) = Key(u, g) /\ results[Key(t, f)] = Verdict(u, g)
        BY <1>2, <1>3 DEF ResultsInv
    <2>2. PICK g \in Covered(u) :
              Key(t, f) = Key(u, g) /\ results[Key(t, f)] = Verdict(u, g)
        BY <2>1
    <2>3. Common <=> ~ Inferred
        BY <1>2, <1>3 DEF TargetsInv
    <2>4. args \in Commands /\ text \in [Coq -> Texts]
        BY DEF TypeOK
    <2>5. Verdict(t, f) = Verdict(u, g)
        BY <2>2, <2>3, <2>4, OneVerdict
    <2> QED  BY <2>2, <2>5
<1> QED  BY <1>1, <1>2, <1>3

LEMMA NextAccountInv ==
    ASSUME TypeOK, TargetsInv, ResultsInv, AccountInv, [Next]_vars
    PROVE  AccountInv'
<1>1. args' = args /\ text' = text
    BY NextKeepsInput
<1>2. /\ Given' = Given
      /\ \A t, f : Key(t, f)' = Key(t, f) /\ Verdict(t, f)' = Verdict(t, f)
    BY <1>1, InputIsKept
<1>3. outcome = "none" <=> pc # "end"
    BY DEF TypeOK
<1> SUFFICES ASSUME pc' # "main", ~ Finished', NEW t \in Given
             PROVE  Accounted(t)'
    BY <1>2 DEF AccountInv
<1>4. t \in Kind \X Target /\ t = <<t[1], t[2]>>
    BY GivenType DEF TypeOK
<1>5. CASE Begin
    BY <1>5, BeginTakesAll DEF Accounted
<1>6. CASE ResolveCommon \/ ResolveInferred
    <2>1. PICK u \in Given : \E path :
              /\ Outcome(u, path)
              /\ ToSet(targets) = {u} \cup ToSet(targets')
              /\ pc = "resolve" /\ UNCHANGED <<owner, todo, results>>
        BY <1>6, SomeIsResolved
    <2>2. PICK path : Outcome(u, path)
        BY <2>1
    <2>3. Accounted(t)
        BY <1>3, <2>1 DEF AccountInv, Finished
    <2>4. ~ (pc' = "end" /\ outcome' = "raised")
        BY DEF Finished
    <2>5. /\ ToSet(queue) \subseteq ToSet(queue') /\ missing \subseteq missing'
          /\ rejected \subseteq rejected'
        BY <2>2, <2>4 DEF Outcome
    <2>6. CASE t \in ToSet(targets) /\ t \notin ToSet(targets')
        <3>1. t = u
            BY <2>1, <2>6
        <3>2. CASE t[2] \in Missing
            BY <2>2, <3>1, <3>2 DEF Accounted, Outcome
        <3>3. CASE t[2] \notin Missing
            <4>1. path = t[2] /\ path # NoPath
                BY <1>4, <2>2, <3>1, <3>3, DriverAssumption
                DEF DriverAssumption, Outcome
            <4>2. \/ RightKind(t[1], t[2]) /\ t \in ToSet(queue')
                  \/ ~ RightKind(t[1], t[2]) /\ t \in rejected'
                BY <1>4, <2>2, <3>1, <3>3, <4>1 DEF Outcome
            <4> QED  BY <3>3, <4>2 DEF Accounted
        <3> QED  BY <3>2, <3>3
    <2>7. CASE ~ (t \in ToSet(targets) /\ t \notin ToSet(targets'))
        BY <1>2, <2>1, <2>3, <2>5, <2>7 DEF Accounted
    <2> QED  BY <2>6, <2>7
<1>7. CASE NextTarget
    <2>1. /\ ToSet(queue) = {owner'} \cup ToSet(queue')
          /\ todo' = Covered(owner') /\ RightKind(owner'[1], owner'[2])
        BY <1>7, NextTargetDoes
    <2>2. /\ pc = "lint" /\ todo = {}
          /\ UNCHANGED <<targets, missing, rejected, results>>
        BY <1>7 DEF NextTarget, Unresolved
    <2>3. Accounted(t)
        BY <1>3, <2>2 DEF AccountInv, Finished
    <2> QED  BY <1>2, <2>1, <2>2, <2>3 DEF Accounted
<1>8. ASSUME NEW f \in CoqNamed, Lint(f)
      PROVE  Accounted(t)'
    <2>1. UNCHANGED <<targets, missing, rejected, queue, owner>>
        BY <1>8 DEF Lint, Unresolved
    <2>2. /\ owner \in Given /\ RightKind(owner[1], owner[2]) /\ f \in Covered(owner)
          /\ pc = "lint" /\ todo' = todo \ {f}
          /\ results' = IF Verdict(owner, f) = {} THEN results
                        ELSE [results EXCEPT ![Key(owner, f)] = Verdict(owner, f)]
        BY <1>8, LintDoes DEF Finished
    <2>3. Accounted(t)
        BY <1>3, <2>2 DEF AccountInv, Finished
    <2>4. ASSUME NEW g \in Covered(t), \/ t = owner /\ g \in todo
                                       \/ results[Key(t, g)] = Verdict(t, g)
          PROVE  \/ t = owner' /\ g \in todo'
                 \/ results'[Key(t, g)] = Verdict(t, g)
        <3>1. /\ Key(t, g) \in DOMAIN results
              /\ results[Key(t, g)] \in {{}, Verdict(t, g)}
            BY LocalVerdicts
        <3>2. CASE Key(t, g) = Key(owner, f)
            <4>1. Common <=> ~ Inferred
                BY <1>3, <2>2 DEF TargetsInv
            <4>2. args \in Commands /\ text \in [Coq -> Texts]
                BY DEF TypeOK
            <4>3. Verdict(t, g) = Verdict(owner, f)
                BY <2>2, <3>2, <4>1, <4>2, OneVerdict
            <4> QED  BY <2>2, <3>1, <3>2, <4>3
        <3>3. CASE Key(t, g) # Key(owner, f)
            <4>1. results'[Key(t, g)] = results[Key(t, g)]
                BY <2>2, <3>1, <3>3
            <4>2. t = owner => g # f
                BY <3>3
            <4> QED  BY <2>1, <2>2, <2>4, <4>1, <4>2
        <3> QED  BY <3>2, <3>3
    <2> QED  BY <1>2, <2>1, <2>3, <2>4 DEF Accounted
<1>9. CASE StartLinting \/ Report \/ UNCHANGED vars
    <2>1. pc # "main" /\ ~ Finished
        BY <1>3, <1>9 DEF StartLinting, Report, vars, Finished
    <2>2. UNCHANGED <<targets, missing, rejected, queue, owner, todo, results>>
        BY <1>9 DEF StartLinting, Report, vars, Unresolved, Unlinted
    <2>3. Accounted(t)
        BY <2>1 DEF AccountInv
    <2> QED  BY <1>2, <2>2, <2>3 DEF Accounted
<1>10. CASE Refuse
    BY <1>10 DEF Refuse, Stop, Finished
<1> QED  BY <1>5, <1>6, <1>7, <1>8, <1>9, <1>10 DEF Next

LEMMA NextRaises ==
    ASSUME TypeOK, TargetsInv, RaisesInv, [Next]_vars
    PROVE  RaisesInv'
<1>1. args' = args /\ text' = text
    BY NextKeepsInput
<1>2. /\ Given' = Given /\ Strict' = Strict
      /\ \A f : Unreadable(f)' = Unreadable(f) /\ Stuck(f)' = Stuck(f)
    BY <1>1, InputIsKept
<1>3. outcome = "none" <=> pc # "end"
    BY DEF TypeOK
<1> SUFFICES ASSUME outcome' = "raised"
             PROVE  RaisesInv'
    BY DEF RaisesInv
<1>4. CASE ResolveCommon \/ ResolveInferred
    <2>1. PICK t \in Given : \E path :
              Outcome(t, path) /\ pc = "resolve"
        BY <1>4, SomeIsResolved
    <2>2. PICK path : Outcome(t, path)
        BY <2>1
    <2>3. outcome' # outcome
        BY <1>3, <2>1
    <2>4. t[1] # "common" /\ t[2] \in Missing
        BY <2>2, <2>3 DEF Outcome
    <2> QED  BY <1>2, <2>1, <2>4 DEF RaisesInv
<1>5. ASSUME NEW f \in CoqNamed, Lint(f)
      PROVE  RaisesInv'
    <2>1. /\ owner \in Given /\ RightKind(owner[1], owner[2]) /\ f \in Covered(owner)
          /\ pc = "lint"
        BY <1>5, LintDoes
    <2>2. Unreadable(f) \/ (Stuck(f) /\ Strict) \/ owner[1] = "file"
        BY <1>3, <1>5, <2>1, LintDoes
    <2>3. CASE Unreadable(f) \/ (Stuck(f) /\ Strict)
        BY <1>1, <1>2, <2>1, <2>3 DEF RaisesInv
    <2>4. CASE owner[1] = "file"
        BY <1>2, <2>1, <2>4 DEF RaisesInv
    <2> QED  BY <2>2, <2>3, <2>4
<1>6. CASE Refuse \/ Begin \/ StartLinting \/ NextTarget \/ Report
    BY <1>3, <1>6 DEF Refuse, Begin, StartLinting, NextTarget, Report, Stop
<1>7. CASE UNCHANGED vars
    <2>1. outcome = "raised"
        BY <1>7 DEF vars
    <2> QED  BY <1>1, <1>2, <2>1 DEF RaisesInv
<1> QED  BY <1>4, <1>5, <1>6, <1>7 DEF Next

----------------------------------------------------------------------------
(* The theorems.                                                           *)

LEMMA Invariance == Spec => []IInv
<1>1. Init => IInv
    BY InitIInv
<1>2. IInv /\ [Next]_vars => IInv'
    BY NextTypeOK, NextTargetsInv, NextReportsInv, NextAccountInv,
       NextResultsInv, NextStrictInv, NextRaises DEF IInv
<1> QED  BY <1>1, <1>2, PTL DEF Spec

\* The state of main and of the functions it calls keeps its sorts: what is
\* queued exists, what is missing does not, and the results stay within the
\* files below the directories given.
THEOREM TypeCorrect == Spec => []TypeOK
<1>1. IInv => TypeOK
    BY DEF IInv
<1> QED  BY <1>1, Invariance, PTL

\* The errors that coq_lint.py keeps for a file are none or exactly those that
\* a fresh linter finds in that file, for any text: CoqLinter.run resets what
\* the file before, or an exception in it, has left in the linter object.
THEOREM VerdictsAreLocal == Spec => []VerdictIsLocal
<1>1. IInv => VerdictIsLocal
    <2> SUFFICES ASSUME IInv, NEW t \in Given, NEW f \in Covered(t)
                 PROVE  results[Key(t, f)] \in {{}, Verdict(t, f)}
        BY Zenon DEF VerdictIsLocal, Key, Verdict
    <2> QED  BY LocalVerdicts DEF IInv
<1> QED  BY <1>1, Invariance, PTL

\* main_common_policy and main_infer_categorizations report a target as missing
\* if and only if it does not exist, and reject an existing one if and only if
\* it is of the wrong kind, however many targets there are.
THEOREM TargetsAreAccounted == Spec => []TargetsAccounted
<1>1. IInv => TargetsAccounted
    <2> SUFFICES ASSUME IInv, outcome = "report"
                 PROVE  /\ missing = {t[2] : t \in Given} \cap Missing
                        /\ \A t \in Given : t[2] \notin Missing =>
                               (t \in rejected <=> ~ RightKind(t[1], t[2]))
                        /\ \A t \in rejected : t[2] \in Missing =>
                               \E u \in rejected : u[1] = t[1] /\ t[1] # "common"
                                                   /\ u[2] \notin Missing
        BY DEF TargetsAccounted
    <2>1. ToSet(targets) = {} /\ ToSet(queue) = {} /\ todo = {}
        BY DEF IInv, TargetsInv, ToSet
    <2>2. \A t \in Given : Accounted(t)
        BY DEF IInv, AccountInv, TypeOK, Finished
    <2>3. \A t \in Given : RightKind(t[1], t[2]) => t[2] \notin Missing
        BY Sorts
    <2>4. \A t \in Given : t[2] \in Missing => t[2] \in missing
        BY <2>1, <2>2, <2>3 DEF Accounted
    <2>5. missing \subseteq Missing /\ \A p \in missing : \E t \in Given : t[2] = p
        BY DEF IInv, TypeOK, ReportsInv
    <2>6. missing = {t[2] : t \in Given} \cap Missing
        BY <2>4, <2>5
    <2>7. \A t \in Given : t[2] \notin Missing =>
              (t \in rejected <=> ~ RightKind(t[1], t[2]))
        BY <2>1, <2>2 DEF IInv, ReportsInv, Accounted
    <2>8. \A t \in rejected : t[2] \in Missing =>
              \E u \in rejected : u[1] = t[1] /\ t[1] # "common"
                                  /\ u[2] \notin Missing
        BY DEF IInv, ReportsInv
    <2> QED  BY <2>6, <2>7, <2>8
<1> QED  BY <1>1, Invariance, PTL

\* When main comes to its end the exit status is 0 if and only if every target
\* exists, is of the right kind, and every file below it is clean, in whatever
\* order the file system lists them and whatever they contain.
THEOREM StatusIsRight == Spec => []StatusIsHonest
<1>1. IInv => StatusIsHonest
    <2> SUFFICES ASSUME IInv, outcome = "report"
                 PROVE  Status = 0 <=>
                            \A t \in Given :
                                /\ RightKind(t[1], t[2])
                                /\ \A f \in Covered(t) : Verdict(t, f) = {}
        BY Zenon DEF StatusIsHonest, Verdict
    <2> DEFINE Clean == missing = {} /\ rejected = {}
                        /\ \A k \in DOMAIN results : results[k] = {}
    <2>1. Status = 0 <=> Clean
        BY DEF Status
    <2>2. ToSet(targets) = {} /\ ToSet(queue) = {} /\ todo = {}
        BY DEF IInv, TargetsInv, ToSet
    <2>3. \A t \in Given : Accounted(t)
        BY DEF IInv, AccountInv, TypeOK, Finished
    <2>4. ASSUME Clean, NEW t \in Given
          PROVE  /\ RightKind(t[1], t[2])
                 /\ \A f \in Covered(t) : Verdict(t, f) = {}
        <3>1. /\ RightKind(t[1], t[2])
              /\ \A f \in Covered(t) : results[Key(t, f)] = Verdict(t, f)
            BY <2>2, <2>3, <2>4 DEF Accounted
        <3>2. \A f \in Covered(t) : Key(t, f) \in DOMAIN results
            BY LocalVerdicts DEF IInv
        <3> QED  BY <2>4, <3>1, <3>2
    <2>5. ASSUME \A t \in Given : /\ RightKind(t[1], t[2])
                                  /\ \A f \in Covered(t) : Verdict(t, f) = {}
          PROVE  Clean
        <3>1. \A t \in Given : t[2] \notin Missing
            BY <2>5, Sorts
        <3>2. missing = {}
            BY <3>1 DEF IInv, TypeOK, ReportsInv
        <3>3. ASSUME NEW t \in rejected
              PROVE  FALSE
            <4>1. t[2] \in Missing
                BY <2>5, <3>3 DEF IInv, ReportsInv
            <4>2. PICK u \in rejected : u[2] \notin Missing
                BY <4>1 DEF IInv, ReportsInv
            <4> QED  BY <2>5, <4>2 DEF IInv, ReportsInv
        <3>4. \A k \in DOMAIN results : results[k] = {}
            BY <2>5 DEF IInv, ResultsInv
        <3> QED  BY <3>2, <3>3, <3>4
    <2> HIDE DEF Clean
    <2> QED  BY <2>1, <2>4, <2>5
<1> QED  BY <1>1, Invariance, PTL

\* With --fail-on-runtime-error, and in every run over proof directories, main
\* comes to a report only if each file below the targets was linted to its end;
\* over readable files that exist it gives up only in such a run, and over a
\* file that is not.  For any number of files and any texts.
THEOREM StrictRunsGiveUp == Spec => []GivesUpWhenStrict
<1>1. ASSUME IInv, outcome = "report", Strict,
             NEW t \in Given, NEW f \in Covered(t)
      PROVE  ~ Stuck(f)
    <2>1. /\ RightKind(t[1], t[2]) /\ Key(t, f) \in DOMAIN results
        BY <1>1, LocalVerdicts DEF IInv
    <2>2. ToSet(targets) = {} /\ ToSet(queue) = {} /\ todo = {}
        BY <1>1 DEF IInv, TargetsInv, ToSet
    <2>3. Accounted(t)
        BY <1>1 DEF IInv, AccountInv, TypeOK, Finished
    <2>4. t[2] \notin Missing
        BY <2>1, Sorts
    <2>5. results[Key(t, f)] = Verdict(t, f)
        BY <2>1, <2>2, <2>3, <2>4 DEF Accounted
    <2>6. -1 \notin Verdict(t, f)
        BY <1>1, <2>1, <2>5 DEF IInv, StrictInv
    <2>7. TextOf(f) \in Seq(Sentence)
        BY <1>1, TextsAreRead DEF IInv, TypeOK
    <2> QED  BY <2>6, <2>7, Stopped DEF Stuck, Verdict
<1>2. ASSUME IInv, outcome = "raised", Ordinary
      PROVE  Strict /\ \E t \in Given : \E f \in Covered(t) : Stuck(f)
    BY <1>2 DEF IInv, RaisesInv, Ordinary
<1>3. IInv => GivesUpWhenStrict
    BY <1>1, <1>2 DEF GivesUpWhenStrict
<1> QED  BY <1>3, Invariance, PTL
==========================================================================
