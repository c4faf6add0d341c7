---------------------- MODULE HierarchyBuilder_proofs ----------------------
(***************************************************************************)
(* Proofs about HierarchyBuilder.tla, for any number of builders, targets, *)
(* categories and edits.                                                   *)
(***************************************************************************)
EXTENDS HierarchyBuilder, SequenceTheorems, TLAPS

Part == {"proof", "target", "prelude"}
            \cup Range(TargetNames) \cup Range(Categories)
N == Len(TargetNames)
M == Len(Categories)

----------------------------------------------------------------------------
(* Paths.                                                                  *)

LEMMA NamesAreParts ==
    /\ TargetNames \in Seq(Part) /\ Categories \in Seq(Part)
    /\ N \in Nat /\ M \in Nat
    /\ \A i \in 1..N : TargetNames[i] \in Part /\ TargetNames[i] # "target"
    /\ \A i \in 1..M : Categories[i] \in Part /\ Categories[i] # "prelude"
<1>1. /\ Range(TargetNames) \ {"target"} \subseteq Part
      /\ Range(Categories) \ {"prelude"} \subseteq Part
    BY DEF Part
<1>2. TargetNames \in Seq(Range(TargetNames) \ {"target"})
    BY BuilderAssumption
<1>3. Categories \in Seq(Range(Categories) \ {"prelude"})
    BY BuilderAssumption
<1>4. N \in Nat /\ M \in Nat
    BY <1>2, <1>3, LenProperties DEF N, M
<1>5. \A i \in 1..N : TargetNames[i] \in Range(TargetNames) \ {"target"}
    BY <1>2, ElementOfSeq DEF N
<1>6. \A i \in 1..M : Categories[i] \in Range(Categories) \ {"prelude"}
    BY <1>3, ElementOfSeq DEF M
<1>7. TargetNames \in Seq(Part) /\ Categories \in Seq(Part)
    <2> DEFINE A == Range(TargetNames) \ {"target"}
               B == Range(Categories) \ {"prelude"}
    <2>1. A \subseteq Part /\ B \subseteq Part
        BY <1>1
    <2>2. TargetNames \in Seq(A) /\ Categories \in Seq(B)
        BY <1>2, <1>3
    <2> HIDE DEF A, B
    <2> QED  BY <2>1, <2>2
<1> QED  BY <1>1, <1>4, <1>5, <1>6, <1>7

\* What In makes of a directory.
LEMMA ChildOfDirectory ==
    ASSUME NEW d \in Seq(Part), NEW x \in Part
    PROVE  /\ Append(d, x) \in Seq(Part)
           /\ Len(Append(d, x)) = Len(d) + 1
           /\ Append(d, x)[Len(d) + 1] = x
           /\ Front(Append(d, x)) = d
<1>1. /\ Append(d, x) \in Seq(Part) /\ Len(Append(d, x)) = Len(d) + 1
      /\ \A i \in 1..Len(d) : Append(d, x)[i] = d[i]
      /\ Append(d, x)[Len(d) + 1] = x
    BY AppendProperties
<1>2. Len(d) \in Nat
    BY LenProperties
<1>3. Front(Append(d, x)) = SubSeq(Append(d, x), 1, Len(d))
    BY <1>1, <1>2 DEF Front
<1>4. SubSeq(Append(d, x), 1, Len(d)) = d
    BY <1>1, <1>2, SubSeqProperties, SeqEqual
<1> QED  BY <1>1, <1>3, <1>4

LEMMA DirectoriesAreSequences ==
    /\ Prf \in Seq(Part) /\ Target \in Seq(Part) /\ Prelude \in Seq(Part)
    /\ Len(Prf) = 1 /\ Len(Target) = 2 /\ Len(Prelude) = 3
    /\ Target[2] = "target" /\ Prelude[3] = "prelude"
    /\ Front(Target) = Prf /\ Front(Prelude) = Target
<1>1. "proof" \in Part /\ "target" \in Part /\ "prelude" \in Part
    BY Zenon DEF Part
<1>2. Prf \in Seq(Part) /\ Len(Prf) = 1
    BY <1>1 DEF Prf
<1>3. /\ Target \in Seq(Part) /\ Len(Target) = 2 /\ Target[2] = "target"
      /\ Front(Target) = Prf
    BY <1>1, <1>2, ChildOfDirectory DEF Target
<1>4. /\ Prelude \in Seq(Part) /\ Len(Prelude) = 3 /\ Prelude[3] = "prelude"
      /\ Front(Prelude) = Target
    <2>1. /\ Prelude \in Seq(Part) /\ Len(Prelude) = Len(Target) + 1
          /\ Prelude[Len(Target) + 1] = "prelude" /\ Front(Prelude) = Target
        BY <1>1, <1>3, ChildOfDirectory, Zenon DEF Prelude
    <2> QED  BY <1>3, <2>1
<1> QED  BY <1>2, <1>3, <1>4

\* Paths of different lengths differ.
LEMMA PathsDiffer ==
    /\ Prf # Target /\ Prf # Prelude /\ Target # Prelude
    /\ \A x \in Part :
          /\ Append(Prf, x)[2] = x /\ Append(Target, x)[3] = x
          /\ Front(Append(Prf, x)) = Prf /\ Front(Append(Target, x)) = Target
          /\ Front(Append(Prelude, x)) = Prelude
          /\ Append(Prf, x) \notin {Prf, Prelude}
          /\ Append(Target, x) \notin {Prf, Target}
          /\ Append(Prelude, x) \notin Directories
<1>1. \A s, t : Len(s) # Len(t) => s # t
    OBVIOUS
<1>2. Len(Prf) = 1 /\ Len(Target) = 2 /\ Len(Prelude) = 3
    BY DirectoriesAreSequences
<1>3. Prf # Target /\ Prf # Prelude /\ Target # Prelude
    <2>1. /\ Len(Prf) # Len(Target) /\ Len(Prf) # Len(Prelude)
          /\ Len(Target) # Len(Prelude)
        BY <1>2
    <2> QED  BY <1>1, <2>1, Zenon
<1>4. ASSUME NEW x \in Part
      PROVE  /\ Append(Prf, x)[2] = x /\ Append(Target, x)[3] = x
             /\ Front(Append(Prf, x)) = Prf
             /\ Front(Append(Target, x)) = Target
             /\ Front(Append(Prelude, x)) = Prelude
             /\ Append(Prf, x) \notin {Prf, Prelude}
             /\ Append(Target, x) \notin {Prf, Target}
             /\ Append(Prelude, x) \notin Directories
    <2> DEFINE p == Append(Prf, x)
               t == Append(Target, x)
               l == Append(Prelude, x)
    <2>1. /\ Len(p) = Len(Prf) + 1 /\ p[Len(Prf) + 1] = x
          /\ Len(t) = Len(Target) + 1 /\ t[Len(Target) + 1] = x
          /\ Len(l) = Len(Prelude) + 1
          /\ Front(p) = Prf /\ Front(t) = Target /\ Front(l) = Prelude
        BY DirectoriesAreSequences, ChildOfDirectory, Zenon
    <2> HIDE DEF p, t, l
    <2>2. /\ Len(p) = 2 /\ p[2] = x /\ Len(t) = 3 /\ t[3] = x /\ Len(l) = 4
        BY <1>2, <2>1
    <2>3. /\ Len(p) # Len(Prf) /\ Len(p) # Len(Prelude)
          /\ Len(t) # Len(Prf) /\ Len(t) # Len(Target)
          /\ Len(l) # Len(Prf) /\ Len(l) # Len(Target) /\ Len(l) # Len(Prelude)
        BY <1>2, <2>2
    <2>4. /\ p # Prf /\ p # Prelude /\ t # Prf /\ t # Target
          /\ l # Prf /\ l # Target /\ l # Prelude
        BY <1>1, <2>3, Zenon
    <2>5. /\ p \notin {Prf, Prelude} /\ t \notin {Prf, Target}
          /\ l \notin {Prf, Target, Prelude}
        BY <2>4, Zenon
    <2> QED  BY <2>1, <2>2, <2>5, Zenon DEF p, t, l, Directories
<1> QED  BY <1>3, <1>4

LEMMA NodesInADirectory ==
    ASSUME NEW d \in Seq(Part), NEW names \in Seq(Part)
    PROVE  /\ In(d, names) \in Seq(Seq(Part))
           /\ Len(In(d, names)) = Len(names)
           /\ \A i \in 1..Len(names) : In(d, names)[i] = Append(d, names[i])
<1>1. DOMAIN names = 1..Len(names) /\ Len(names) \in Nat
    BY LenProperties
<1>2. \A i \in 1..Len(names) : names[i] \in Part
    BY ElementOfSeq
<1>3. \A i \in 1..Len(names) : Append(d, names[i]) \in Seq(Part)
    BY <1>2, ChildOfDirectory
<1>4. In(d, names) = [i \in 1..Len(names) |-> Append(d, names[i])]
    BY <1>1 DEF In
<1> HIDE DEF In
<1>5. In(d, names) \in [1..Len(names) -> Seq(Part)]
    BY <1>3, <1>4
<1>6. In(d, names) \in Seq(Seq(Part)) /\ Len(In(d, names)) = Len(names)
    BY <1>1, <1>5, IsASeq, LenProperties
<1> QED  BY <1>4, <1>6

\* Where the elements of a concatenation are.
LEMMA Joined ==
    ASSUME NEW T, NEW s \in Seq(T), NEW t \in Seq(T), NEW r, r = s \o t
    PROVE  /\ r \in Seq(T) /\ Len(r) = Len(s) + Len(t)
           /\ \A i \in 1..Len(s) : r[i] = s[i]
           /\ \A i \in 1..Len(t) : r[Len(s) + i] = t[i]
<1>1. /\ r \in Seq(T) /\ Len(r) = Len(s) + Len(t)
      /\ \A i \in 1..Len(s) + Len(t) :
            r[i] = IF i <= Len(s) THEN s[i] ELSE t[i - Len(s)]
    BY ConcatProperties
<1>2. Len(s) \in Nat /\ Len(t) \in Nat
    BY LenProperties
<1>3. ASSUME NEW i \in 1..Len(s) PROVE r[i] = s[i]
    BY <1>1, <1>2
<1>4. ASSUME NEW i \in 1..Len(t) PROVE r[Len(s) + i] = t[i]
    <2>1. /\ Len(s) + i \in 1..Len(s) + Len(t) /\ ~ (Len(s) + i <= Len(s))
          /\ (Len(s) + i) - Len(s) = i
        BY <1>2
    <2> QED  BY <1>1, <2>1
<1> QED  BY <1>1, <1>3, <1>4

\* What is at each place of the hierarchy.
LEMMA Places ==
    /\ Hierarchy \in Seq(Seq(Part)) /\ Len(Hierarchy) = N + 2 * M + 3
    /\ Hierarchy[1] = Prf
    /\ \A i \in 1..N : Hierarchy[i + 1] = Append(Prf, TargetNames[i])
    /\ Hierarchy[N + 2] = Target
    /\ \A i \in 1..M : Hierarchy[N + 2 + i] = Append(Target, Categories[i])
    /\ Hierarchy[N + M + 3] = Prelude
    /\ \A i \in 1..M :
          Hierarchy[N + M + 3 + i] = Append(Prelude, Categories[i])
<1> DEFINE A == In(Prf, TargetNames)
           B == In(Target, Categories)
           C == In(Prelude, Categories)
           T == Seq(Part)
           s1 == <<Prf>>
           s2 == s1 \o A
           s3 == s2 \o <<Target>>
           s4 == s3 \o B
           s5 == s4 \o <<Prelude>>
           s6 == s5 \o C
<1>1. /\ s1 \in Seq(T) /\ <<Target>> \in Seq(T) /\ <<Prelude>> \in Seq(T)
      /\ Len(s1) = 1 /\ Len(<<Target>>) = 1 /\ Len(<<Prelude>>) = 1
      /\ s1[1] = Prf /\ <<Target>>[1] = Target /\ <<Prelude>>[1] = Prelude
    BY DirectoriesAreSequences
<1>2. /\ A \in Seq(T) /\ Len(A) = N
      /\ \A i \in 1..N : A[i] = Append(Prf, TargetNames[i])
    BY NamesAreParts, DirectoriesAreSequences, NodesInADirectory DEF N
<1>3. /\ B \in Seq(T) /\ Len(B) = M
      /\ \A i \in 1..M : B[i] = Append(Target, Categories[i])
    BY NamesAreParts, DirectoriesAreSequences, NodesInADirectory DEF M
<1>4. /\ C \in Seq(T) /\ Len(C) = M
      /\ \A i \in 1..M : C[i] = Append(Prelude, Categories[i])
    BY NamesAreParts, DirectoriesAreSequences, NodesInADirectory DEF M
<1>n. N \in Nat /\ M \in Nat
    BY NamesAreParts
<1>5. Hierarchy = s6
    BY DEF Hierarchy
<1> HIDE DEF A, B, C, T, s1, s2, s3, s4, s5, s6
<1>6. /\ s2 \in Seq(T) /\ Len(s2) = N + 1
      /\ s2[1] = Prf /\ \A i \in 1..N : s2[1 + i] = A[i]
    <2>0. s1 \in Seq(T) /\ A \in Seq(T) /\ s2 = s1 \o A
        BY <1>1, <1>2 DEF s2
    <2>1. /\ s2 \in Seq(T) /\ Len(s2) = Len(s1) + Len(A)
          /\ \A i \in 1..Len(s1) : s2[i] = s1[i]
          /\ \A i \in 1..Len(A) : s2[Len(s1) + i] = A[i]
        BY <2>0, Joined
    <2> QED  BY <1>n, <1>1, <1>2, <2>1
<1>7. /\ s3 \in Seq(T) /\ Len(s3) = N + 2
      /\ \A i \in 1..(N + 1) : s3[i] = s2[i]
      /\ s3[N + 2] = Target
    <2>0. s2 \in Seq(T) /\ <<Target>> \in Seq(T) /\ s3 = s2 \o <<Target>>
        BY <1>1, <1>6 DEF s3
    <2>1. /\ s3 \in Seq(T) /\ Len(s3) = Len(s2) + Len(<<Target>>)
          /\ \A i \in 1..Len(s2) : s3[i] = s2[i]
          /\ \A i \in 1..Len(<<Target>>) : s3[Len(s2) + i] = <<Target>>[i]
        BY <2>0, Joined
    <2>2. s3[(N + 1) + 1] = Target /\ (N + 1) + 1 = N + 2
        BY <1>n, <1>1, <1>6, <2>1
    <2> QED  BY <1>n, <1>1, <1>6, <2>1, <2>2
<1>8. /\ s4 \in Seq(T) /\ Len(s4) = N + M + 2
      /\ \A i \in 1..(N + 2) : s4[i] = s3[i]
      /\ \A i \in 1..M : s4[N + 2 + i] = B[i]
    <2>0. s3 \in Seq(T) /\ B \in Seq(T) /\ s4 = s3 \o B
        BY <1>3, <1>7 DEF s4
    <2>1. /\ s4 \in Seq(T) /\ Len(s4) = Len(s3) + Len(B)
          /\ \A i \in 1..Len(s3) : s4[i] = s3[i]
          /\ \A i \in 1..Len(B) : s4[Len(s3) + i] = B[i]
        BY <2>0, Joined
    <2>2. (N + 2) + M = N + M + 2
        BY <1>n
    <2> QED  BY <1>3, <1>7, <2>1, <2>2
<1>9. /\ s5 \in Seq(T) /\ Len(s5) = N + M + 3
      /\ \A i \in 1..(N + M + 2) : s5[i] = s4[i]
      /\ s5[N + M + 3] = Prelude
    <2>0. s4 \in Seq(T) /\ <<Prelude>> \in Seq(T) /\ s5 = s4 \o <<Prelude>>
        BY <1>1, <1>8 DEF s5
    <2>1. /\ s5 \in Seq(T) /\ Len(s5) = Len(s4) + Len(<<Prelude>>)
          /\ \A i \in 1..Len(s4) : s5[i] = s4[i]
          /\ \A i \in 1..Len(<<Prelude>>) : s5[Len(s4) + i] = <<Prelude>>[i]
        BY <2>0, Joined
    <2>2. s5[(N + M + 2) + 1] = Prelude /\ (N + M + 2) + 1 = N + M + 3
        BY <1>n, <1>1, <1>8, <2>1
    <2> QED  BY <1>n, <1>1, <1>8, <2>1, <2>2
<1>10. /\ s6 \in Seq(T) /\ Len(s6) = N + 2 * M + 3
       /\ \A i \in 1..(N + M + 3) : s6[i] = s5[i]
       /\ \A i \in 1..M : s6[N + M + 3 + i] = C[i]
    <2>0. s5 \in Seq(T) /\ C \in Seq(T) /\ s6 = s5 \o C
        BY <1>4, <1>9 DEF s6
    <2>1. /\ s6 \in Seq(T) /\ Len(s6) = Len(s5) + Len(C)
          /\ \A i \in 1..Len(s5) : s6[i] = s5[i]
          /\ \A i \in 1..Len(C) : s6[Len(s5) + i] = C[i]
        BY <2>0, Joined
    <2>2. (N + M + 3) + M = N + 2 * M + 3
        BY <1>n
    <2> QED  BY <1>4, <1>9, <2>1, <2>2
<1>11. /\ s6[1] = Prf /\ s6[N + 2] = Target /\ s6[N + M + 3] = Prelude
    <2>1. /\ 1 \in 1..(N + 1) /\ 1 \in 1..(N + 2) /\ 1 \in 1..(N + M + 2)
          /\ 1 \in 1..(N + M + 3) /\ N + 2 \in 1..(N + 2)
          /\ N + 2 \in 1..(N + M + 2) /\ N + 2 \in 1..(N + M + 3)
          /\ N + M + 3 \in 1..(N + M + 3)
        BY <1>n
    <2> QED  BY <1>6, <1>7, <1>8, <1>9, <1>10, <2>1
<1>12. \A i \in 1..N : s6[i + 1] = Append(Prf, TargetNames[i])
    <2> SUFFICES ASSUME NEW i \in 1..N PROVE s6[i + 1] = A[i]
        BY <1>2
    <2>1. /\ i + 1 = 1 + i /\ i + 1 \in 1..(N + 1) /\ i + 1 \in 1..(N + 2)
          /\ i + 1 \in 1..(N + M + 2) /\ i + 1 \in 1..(N + M + 3)
        BY <1>n
    <2> QED  BY <1>6, <1>7, <1>8, <1>9, <1>10, <2>1
<1>13. \A i \in 1..M : s6[N + 2 + i] = Append(Target, Categories[i])
    <2> SUFFICES ASSUME NEW i \in 1..M PROVE s6[N + 2 + i] = B[i]
        BY <1>3
    <2>1. N + 2 + i \in 1..(N + M + 2) /\ N + 2 + i \in 1..(N + M + 3)
        BY <1>n
    <2> QED  BY <1>8, <1>9, <1>10, <2>1
<1>14. \A i \in 1..M : s6[N + M + 3 + i] = Append(Prelude, Categories[i])
    BY <1>4, <1>10
<1> QED  BY <1>5, <1>10, <1>11, <1>12, <1>13, <1>14 DEF T
LEMMA PlaceCases ==
    ASSUME NEW j \in 1..Len(Hierarchy)
    PROVE  \/ j = 1 /\ Hierarchy[j] = Prf
           \/ \E x \in Part \ {"target"} :
                 j \in 2..(N + 1) /\ Hierarchy[j] = Append(Prf, x)
           \/ j = N + 2 /\ Hierarchy[j] = Target
           \/ \E x \in Part \ {"prelude"} :
                 j \in (N + 3)..(N + M + 2) /\ Hierarchy[j] = Append(Target, x)
           \/ j = N + M + 3 /\ Hierarchy[j] = Prelude
           \/ \E x \in Part : j > N + M + 3 /\ Hierarchy[j] = Append(Prelude, x)
<1>n. /\ N \in Nat /\ M \in Nat /\ j \in Nat /\ j >= 1
      /\ j <= N + 2 * M + 3
    BY NamesAreParts, Places
<1>1. CASE j = 1 \/ j = N + 2 \/ j = N + M + 3
    BY <1>1, Places
<1>2. CASE j \in 2..(N + 1)
    <2>1. j - 1 \in 1..N /\ (j - 1) + 1 = j
        BY <1>n, <1>2
    <2>2. Hierarchy[(j - 1) + 1] = Append(Prf, TargetNames[j - 1])
        BY <2>1, Places
    <2>3. TargetNames[j - 1] \in Part \ {"target"}
        BY <2>1, NamesAreParts
    <2> QED  BY <1>2, <2>1, <2>2, <2>3
<1>3. CASE j \in (N + 3)..(N + M + 2)
    <2>1. j - (N + 2) \in 1..M /\ N + 2 + (j - (N + 2)) = j
        BY <1>n, <1>3
    <2>2. Hierarchy[N + 2 + (j - (N + 2))] =
              Append(Target, Categories[j - (N + 2)])
        BY <2>1, Places
    <2>3. Categories[j - (N + 2)] \in Part \ {"prelude"}
        BY <2>1, NamesAreParts
    <2> QED  BY <1>3, <2>1, <2>2, <2>3
<1>4. CASE j > N + M + 3
    <2>1. j - (N + M + 3) \in 1..M /\ N + M + 3 + (j - (N + M + 3)) = j
        BY <1>n, <1>4
    <2>2. Hierarchy[N + M + 3 + (j - (N + M + 3))] =
              Append(Prelude, Categories[j - (N + M + 3)])
        BY <2>1, Places
    <2>3. Categories[j - (N + M + 3)] \in Part
        BY <2>1, NamesAreParts
    <2> QED  BY <1>4, <2>1, <2>2, <2>3
<1> QED  BY <1>n, <1>1, <1>2, <1>3, <1>4

\* Each path has a place of its own.
LEMMA PathsAreOrdered ==
    /\ Directories \subseteq Path
    /\ \A p \in Path : /\ Position[p] \in 1..Len(Hierarchy)
                       /\ Position[p] \in Nat
                       /\ Hierarchy[Position[p]] = p
    /\ \A p, q \in Path : Position[p] = Position[q] => p = q
<1>1. DOMAIN Hierarchy = 1..Len(Hierarchy) /\ Len(Hierarchy) \in Nat
    BY Places, LenProperties
<1>2. Path = {Hierarchy[i] : i \in 1..Len(Hierarchy)}
    BY <1>1 DEF Path, Range
<1>3. Directories \subseteq Path
    <2>1. N \in Nat /\ M \in Nat
        BY NamesAreParts
    <2>2. {1, N + 2, N + M + 3} \subseteq 1..Len(Hierarchy)
        BY <2>1, Places
    <2> QED  BY <1>2, <2>2, Places DEF Directories
<1>4. ASSUME NEW p \in Path
      PROVE  /\ Position[p] \in 1..Len(Hierarchy)
             /\ Hierarchy[Position[p]] = p
    <2>1. Position[p] = CHOOSE i \in 1..Len(Hierarchy) : Hierarchy[i] = p
        BY <1>1 DEF Position
    <2>2. \E i \in 1..Len(Hierarchy) : Hierarchy[i] = p
        BY <1>2
    <2> QED  BY <2>1, <2>2
<1>5. ASSUME NEW p \in Path, NEW q \in Path, Position[p] = Position[q]
      PROVE  p = q
    BY <1>4, <1>5
<1> QED  BY <1>1, <1>3, <1>4, <1>5

LEMMA FirstIsOne ==
    ASSUME NEW s \in SUBSET Path, NEW p, NEW q, IsFirst(p, s), IsFirst(q, s)
    PROVE  p = q
<1>1. p \in Path /\ q \in Path
    BY DEF IsFirst
<1>2. Position[p] <= Position[q] /\ Position[q] <= Position[p]
    BY DEF IsFirst
<1> QED  BY <1>1, <1>2, PathsAreOrdered

\* A directory comes before what is in it.
LEMMA ParentComesFirst ==
    ASSUME NEW p \in Path, p # Prf
    PROVE  Front(p) \in Directories /\ Position[Front(p)] < Position[p]
<1>n. N \in Nat /\ M \in Nat
    BY NamesAreParts
<1>d. /\ Prf \in Path /\ Target \in Path /\ Prelude \in Path
    BY PathsAreOrdered DEF Directories
<1>1. Position[Prf] = 1
    <2>1. Hierarchy[Position[Prf]] = Prf /\ Position[Prf] \in 1..Len(Hierarchy)
        BY <1>d, PathsAreOrdered
    <2>2. /\ Prf # Target /\ Prf # Prelude
          /\ \A x \in Part : /\ Append(Prf, x) # Prf /\ Append(Target, x) # Prf
                             /\ Append(Prelude, x) # Prf
        BY PathsDiffer DEF Directories
    <2> QED  BY <2>1, <2>2, PlaceCases
<1>2. Position[Target] = N + 2
    <2>1. /\ Hierarchy[Position[Target]] = Target
          /\ Position[Target] \in 1..Len(Hierarchy)
        BY <1>d, PathsAreOrdered
    <2>2. /\ Prf # Target /\ Target # Prelude
          /\ \A x \in Part : /\ Append(Target, x) # Target
                             /\ Append(Prelude, x) # Target
        BY PathsDiffer DEF Directories
    <2>3. \A x \in Part \ {"target"} : Append(Prf, x) # Target
        <3>1. \A x \in Part : Append(Prf, x)[2] = x
            BY PathsDiffer
        <3>2. Target[2] = "target"
            BY DirectoriesAreSequences
        <3> QED  BY <3>1, <3>2, Zenon
    <2> QED  BY <2>1, <2>2, <2>3, PlaceCases
<1>3. Position[Prelude] = N + M + 3
    <2>1. /\ Hierarchy[Position[Prelude]] = Prelude
          /\ Position[Prelude] \in 1..Len(Hierarchy)
        BY <1>d, PathsAreOrdered
    <2>2. /\ Prf # Prelude /\ Target # Prelude
          /\ \A x \in Part : /\ Append(Prf, x) # Prelude
                             /\ Append(Prelude, x) # Prelude
        BY PathsDiffer DEF Directories
    <2>3. \A x \in Part \ {"prelude"} : Append(Target, x) # Prelude
        <3>1. \A x \in Part : Append(Target, x)[3] = x
            BY PathsDiffer
        <3>2. Prelude[3] = "prelude"
            BY DirectoriesAreSequences
        <3> QED  BY <3>1, <3>2, Zenon
    <2> QED  BY <2>1, <2>2, <2>3, PlaceCases
<1> DEFINE j == Position[p]
<1>4. j \in 1..Len(Hierarchy) /\ j \in Nat /\ Hierarchy[j] = p
    BY PathsAreOrdered
<1> HIDE DEF j
<1>5. CASE \E x \in Part : j \in 2..(N + 1) /\ p = Append(Prf, x)
    <2>1. Front(p) = Prf /\ 1 < j
        BY <1>n, <1>5, PathsDiffer
    <2> QED  BY <1>1, <2>1 DEF j, Directories
<1>6. CASE j = N + 2 /\ p = Target
    <2>1. Front(p) = Prf /\ 1 < j
        BY <1>n, <1>6, DirectoriesAreSequences
    <2> QED  BY <1>1, <2>1 DEF j, Directories
<1>7. CASE \E x \in Part : j \in (N + 3)..(N + M + 2) /\ p = Append(Target, x)
    <2>1. Front(p) = Target /\ N + 2 < j
        BY <1>n, <1>7, PathsDiffer
    <2> QED  BY <1>2, <2>1 DEF j, Directories
<1>8. CASE j = N + M + 3 /\ p = Prelude
    <2>1. Front(p) = Target /\ N + 2 < j
        BY <1>n, <1>8, DirectoriesAreSequences
    <2> QED  BY <1>2, <2>1 DEF j, Directories
<1>9. CASE \E x \in Part : j > N + M + 3 /\ p = Append(Prelude, x)
    <2>1. Front(p) = Prelude
        BY <1>9, PathsDiffer
    <2> QED  BY <1>3, <1>9, <2>1 DEF j, Directories
<1> QED  BY <1>4, <1>5, <1>6, <1>7, <1>8, <1>9, PlaceCases

\* Directories are never left out.
LEMMA DirectoriesAreWanted ==
    ASSUME NEW b \in Builder, TypeOK
    PROVE  Directories \subseteq Wanted(b)
<1>1. ASSUME NEW d \in Directories, NEW c \in excluded[b]
      PROVE  d # Append(Target, c)
    <2>1. c \in Range(Categories)
        BY BuilderAssumption DEF TypeOK
    <2>2. PICK i \in DOMAIN Categories : c = Categories[i]
        BY <2>1 DEF Range
    <2>3. DOMAIN Categories = 1..M
        BY NamesAreParts, LenProperties DEF M
    <2>4. c \in Part /\ c # "prelude"
        BY <2>2, <2>3, NamesAreParts
    <2>5. Append(Target, c)[3] = c /\ Append(Target, c) \notin {Prf, Target}
        BY <2>4, PathsDiffer
    <2>6. Prelude[3] = "prelude"
        BY DirectoriesAreSequences
    <2> QED  BY <2>4, <2>5, <2>6, Zenon DEF Directories
<1> QED  BY <1>1, PathsAreOrdered DEF Wanted, LeftOut

----------------------------------------------------------------------------
(* Types.                                                                  *)

WriteInv ==
    \A b \in Builder :
        pc[b] = "write" => \E p \in Files : IsFirst(p, missing[b])

TypeInv ==
    /\ TypeOK
    /\ fs \in [Path -> {"none", "dir", "empty", "generated", "user"}]
    /\ WriteInv

LEMMA InitTypeInv == Init => TypeInv
<1> SUFFICES ASSUME Init PROVE TypeInv
    OBVIOUS
<1>1. /\ \A p \in Directories : fs[p] \in {"none", "dir"}
      /\ \A p \in Files : fs[p] \in {"none", "empty", "generated", "user"}
    BY PathsAreOrdered DEF Init, Exists, Files
<1>2. 0 \in 0..MaxEdit
    BY BuilderAssumption
<1> QED  BY <1>1, <1>2 DEF Init, TypeInv, TypeOK, WriteInv, Wanted

\* Only files get a text.
LEMMA WritesFiles ==
    ASSUME TypeInv, NEW b \in Builder, NEW p \in Path, Write(b, p)
    PROVE  p \in Files
<1>1. missing[b] \in SUBSET Path
    BY DEF TypeInv, TypeOK
<1>2. PICK q \in Files : IsFirst(q, missing[b])
    BY DEF TypeInv, Write, WriteInv
<1>3. IsFirst(p, missing[b])
    BY DEF Write
<1> QED  BY <1>1, <1>2, <1>3, FirstIsOne

LEMMA NextTypeInv == TypeInv /\ [Next]_vars => TypeInv'
<1> SUFFICES ASSUME TypeInv, [Next]_vars PROVE TypeInv'
    OBVIOUS
<1> USE DEF TypeInv
<1>p. /\ Directories \subseteq Path /\ Files \subseteq Path
      /\ Path = Directories \cup Files /\ Directories \cap Files = {}
    BY PathsAreOrdered DEF Files
<1>1. ASSUME NEW b \in Builder, NEW p \in Path, Look(b, p)
      PROVE  TypeInv'
    <2>1. fs[p] = "user" => p \in Files
        BY <1>p DEF TypeOK
    <2>2. TypeOK'
        BY <1>1, <2>1 DEF Look, TypeOK, arguments
    <2>3. WriteInv'
        BY <1>1 DEF Look, WriteInv, TypeOK, arguments
    <2> QED  BY <1>1, <2>2, <2>3 DEF Look
<1>2. ASSUME NEW b \in Builder, NEW p \in Path, MakeDir(b, p)
      PROVE  TypeInv'
    <2>1. p \in Directories
        BY <1>2 DEF MakeDir
    <2>2. TypeOK'
        BY <1>2, <1>p, <2>1 DEF MakeDir, Done, TypeOK, arguments
    <2>3. WriteInv'
        BY <1>2 DEF MakeDir, Executes, Done, WriteInv, TypeOK, arguments
    <2>4. (fs \in [Path -> {"none", "dir", "empty", "generated", "user"}])'
        BY <1>2 DEF MakeDir
    <2> QED  BY <2>2, <2>3, <2>4
<1>3. ASSUME NEW b \in Builder, NEW p \in Path, Open(b, p)
      PROVE  TypeInv'
    <2>1. p \in Files
        BY <1>3 DEF Open
    <2>2. TypeOK'
        BY <1>3, <1>p, <2>1 DEF Open, TypeOK, plans, arguments
    <2>3. WriteInv'
        BY <1>3, <2>1 DEF Open, Executes, WriteInv, TypeOK, plans, arguments
    <2>4. (fs \in [Path -> {"none", "dir", "empty", "generated", "user"}])'
        BY <1>3 DEF Open
    <2> QED  BY <2>2, <2>3, <2>4
<1>4. ASSUME NEW b \in Builder, NEW p \in Path, Write(b, p)
      PROVE  TypeInv'
    <2>1. p \in Files
        BY <1>4, WritesFiles
    <2>2. TypeOK'
        BY <1>4, <1>p, <2>1 DEF Write, Done, TypeOK, arguments
    <2>3. WriteInv'
        BY <1>4 DEF Write, Done, WriteInv, TypeOK, arguments
    <2>4. (fs \in [Path -> {"none", "dir", "empty", "generated", "user"}])'
        BY <1>4 DEF Write
    <2> QED  BY <2>2, <2>3, <2>4
<1>5. ASSUME NEW b \in Builder,
             PlanFails(b) \/ Planned(b) \/ Finish(b) \/ Kill(b)
      PROVE  TypeInv'
    <2>1. /\ \E v \in {"raised", "execute", "shown", "ok", "killed"} :
                 pc' = [pc EXCEPT ![b] = v]
          /\ UNCHANGED <<fs, plans, wrote, edits>>
        BY <1>5 DEF PlanFails, Planned, Finish, Kill
    <2>2. TypeOK'
        BY <2>1 DEF TypeOK, plans, arguments
    <2>3. WriteInv'
        BY <2>1 DEF WriteInv, TypeOK, plans, arguments
    <2> QED  BY <2>1, <2>2, <2>3
<1>6. ASSUME NEW p \in Files, Edit(p)
      PROVE  TypeInv'
    <2>1. edits + 1 \in 0..MaxEdit
        BY <1>6, BuilderAssumption DEF Edit, TypeOK
    <2>2. TypeOK'
        BY <1>6, <1>p, <2>1 DEF Edit, TypeOK, plans, arguments
    <2>3. WriteInv'
        BY <1>6 DEF Edit, WriteInv, plans, arguments
    <2>4. (fs \in [Path -> {"none", "dir", "empty", "generated", "user"}])'
        BY <1>6 DEF Edit
    <2> QED  BY <2>2, <2>3, <2>4
<1>7. CASE UNCHANGED vars
    BY <1>7 DEF vars, arguments, TypeOK, WriteInv
<1> QED  BY <1>1, <1>2, <1>3, <1>4, <1>5, <1>6, <1>7 DEF Next

\* What no step undoes: what exists stays, what is wanted stays, and a run
\* that is past its planning only shortens its plan.
Forward ==
    /\ \A p \in Path : Exists(p) => Exists(p)'
    /\ excluded' = excluded
    /\ \A b \in Builder :
          pc[b] # "plan" => /\ pc'[b] # "plan" /\ queue'[b] = queue[b]
                            /\ missing'[b] \subseteq missing[b]

LEMMA StepsForward ==
    ASSUME TypeInv, [Next]_vars
    PROVE  Forward
<1> USE DEF TypeInv, Exists, Forward
<1>1. ASSUME NEW b \in Builder, NEW p \in Path, Look(b, p)
      PROVE  Forward
    BY <1>1 DEF Look, arguments, TypeOK
<1>2. ASSUME NEW b \in Builder, NEW p \in Path,
             MakeDir(b, p) \/ Open(b, p) \/ Write(b, p)
      PROVE  Forward
    <2>1. /\ \A q \in Path : Exists(q) => Exists(q)'
          /\ excluded' = excluded
        BY <1>2 DEF MakeDir, Open, Write, plans, arguments
    <2>2. /\ pc[b] # "plan"
          /\ pc' = pc \/ \E v \in {"raised", "write", "execute"} :
                             pc' = [pc EXCEPT ![b] = v]
          /\ queue' = queue
          /\ missing' = missing \/ missing' = [missing EXCEPT ![b] = @ \ {p}]
        BY <1>2 DEF MakeDir, Open, Write, Executes, Done, plans, arguments
    <2> QED  BY <2>1, <2>2 DEF TypeOK
<1>3. ASSUME NEW b \in Builder,
             PlanFails(b) \/ Planned(b) \/ Finish(b) \/ Kill(b)
      PROVE  Forward
    <2>1. /\ \E v \in {"raised", "execute", "shown", "ok", "killed"} :
                 pc' = [pc EXCEPT ![b] = v]
          /\ UNCHANGED <<fs, plans, wrote, edits>>
        BY <1>3 DEF PlanFails, Planned, Finish, Kill
    <2> QED  BY <2>1 DEF TypeOK, plans, arguments
<1>4. ASSUME NEW p \in Files, Edit(p)
      PROVE  Forward
    BY <1>4 DEF Edit, plans, arguments, Files
<1>5. CASE UNCHANGED vars
    BY <1>5 DEF vars, arguments
<1> QED  BY <1>1, <1>2, <1>3, <1>4, <1>5 DEF Next

----------------------------------------------------------------------------
(* A user's work that was seen is kept: each path is waiting, planned or   *)
(* found, and only what is planned is written.                             *)

FoundInv ==
    \A b \in Builder :
        /\ queue[b] \cap missing[b] = {} /\ queue[b] \cap found[b] = {}
        /\ queue[b] \cap wrote[b] = {}
        /\ missing[b] \cap found[b] = {} /\ wrote[b] \cap found[b] = {}

LEMMA NextFoundInv == TypeInv /\ FoundInv /\ [Next]_vars => FoundInv'
<1> SUFFICES ASSUME TypeInv, FoundInv, [Next]_vars PROVE FoundInv'
    OBVIOUS
<1> USE DEF TypeInv
<1>1. ASSUME NEW b \in Builder, NEW p \in Path, Look(b, p)
      PROVE  FoundInv'
    <2>1. /\ p \in queue[b]
          /\ queue' = [queue EXCEPT ![b] = @ \ {p}]
          /\ wrote' = wrote
          /\ \/ /\ missing' = missing
                /\ \/ found' = found
                   \/ found' = [found EXCEPT ![b] = @ \cup {p}]
             \/ /\ missing' = [missing EXCEPT ![b] = @ \cup {p}]
                /\ found' = found
        BY <1>1 DEF Look, IsFirst, Exists, TypeOK
    <2> QED  BY <2>1 DEF FoundInv, TypeOK
<1>2. ASSUME NEW b \in Builder, NEW p \in Path,
             MakeDir(b, p) \/ Open(b, p) \/ Write(b, p)
      PROVE  FoundInv'
    <2>1. /\ p \in missing[b]
          /\ queue' = queue /\ found' = found
          /\ missing' = missing \/ missing' = [missing EXCEPT ![b] = @ \ {p}]
          /\ wrote' = wrote \/ wrote' = [wrote EXCEPT ![b] = @ \cup {p}]
        BY <1>2 DEF MakeDir, Open, Write, Executes, Done, IsFirst, plans, arguments
    <2> QED  BY <2>1 DEF FoundInv, TypeOK
<1>3. CASE \A b \in Builder : \A p \in Path :
                ~ (Look(b, p) \/ MakeDir(b, p) \/ Open(b, p) \/ Write(b, p))
    <2>1. UNCHANGED <<queue, missing, found, wrote>>
        BY <1>3 DEF Next, PlanFails, Planned, Finish, Kill, Edit,
                    plans, arguments, vars
    <2> QED  BY <2>1 DEF FoundInv
<1> QED  BY <1>1, <1>2, <1>3

----------------------------------------------------------------------------
(* What is wanted exists in the end: until then it is waiting or planned.  *)

CompleteInv ==
    \A b \in Builder :
        /\ \A p \in Wanted(b) :
              p \in queue[b] \/ p \in missing[b] \/ Exists(p)
        /\ pc[b] \in {"execute", "write", "ok"} => queue[b] = {} /\ Able(b)
        /\ pc[b] = "ok" => missing[b] = {}

LEMMA NextCompleteInv == TypeInv /\ CompleteInv /\ [Next]_vars => CompleteInv'
<1> SUFFICES ASSUME TypeInv, CompleteInv, [Next]_vars PROVE CompleteInv'
    OBVIOUS
<1> USE DEF TypeInv
<1>f. Forward
    BY StepsForward
<1>w. ASSUME NEW b \in Builder
      PROVE  Wanted(b)' = Wanted(b) /\ Able(b)' = Able(b) /\ Wanted(b) \subseteq Path
    BY <1>f DEF Forward, Wanted, LeftOut, Able
<1>1. ASSUME NEW b \in Builder, NEW p \in Wanted(b)
      PROVE  p \in queue'[b] \/ p \in missing'[b] \/ Exists(p)'
    <2>1. CASE Exists(p)
        BY <1>f, <1>w, <2>1 DEF Forward
    <2>2. CASE \E c \in Builder, q \in Path : Look(c, q)
        BY <1>f, <1>w, <2>2 DEF Look, CompleteInv, Forward, TypeOK
    <2>3. CASE \E c \in Builder, q \in Path :
                   MakeDir(c, q) \/ Open(c, q) \/ Write(c, q)
        <3>1. PICK c \in Builder, q \in Path :
                   MakeDir(c, q) \/ Open(c, q) \/ Write(c, q)
            BY <2>3
        <3>2. /\ queue' = queue
              /\ \/ missing' = missing
                 \/ /\ missing' = [missing EXCEPT ![c] = @ \ {q}]
                    /\ Exists(q)'
            BY <3>1 DEF MakeDir, Open, Write, Done, Exists, plans, arguments
        <3> QED  BY <1>f, <1>w, <3>2 DEF CompleteInv, Forward, TypeOK
    <2>4. CASE UNCHANGED <<queue, missing>>
        BY <1>f, <1>w, <2>4 DEF CompleteInv, Forward
    <2> QED
        BY <2>2, <2>3, <2>4 DEF Next, PlanFails, Planned, Finish, Kill, Edit,
                                plans, arguments, vars
<1>2. ASSUME NEW b \in Builder, pc'[b] \in {"execute", "write", "ok"}
      PROVE  queue'[b] = {} /\ Able(b)'
    <2>1. CASE pc[b] \in {"execute", "write", "ok"}
        BY <1>f, <1>w, <2>1 DEF CompleteInv, Forward
    <2>2. CASE pc[b] \notin {"execute", "write", "ok"}
        <3>1. Planned(b)
            BY <1>2, <2>2 DEF Next, Look, MakeDir, Open, Write, Executes, Done,
                  PlanFails, Planned, Finish, Kill, Edit,
                  plans, arguments, vars, TypeOK
        <3> QED  BY <1>w, <3>1 DEF Planned, plans
    <2> QED  BY <2>1, <2>2
<1>3. ASSUME NEW b \in Builder, pc'[b] = "ok"
      PROVE  missing'[b] = {}
    <2>1. CASE pc[b] = "ok"
        BY <1>f, <2>1 DEF CompleteInv, Forward
    <2>2. CASE pc[b] # "ok"
        <3>1. Finish(b)
            BY <1>3, <2>2 DEF Next, Look, MakeDir, Open, Write, Executes, Done,
                  PlanFails, Planned, Finish, Kill, Edit,
                  plans, arguments, vars, TypeOK
        <3> QED  BY <3>1 DEF Finish, plans
    <2> QED  BY <2>1, <2>2
<1>4. \A b \in Builder : Wanted(b)' = Wanted(b)
    BY <1>w
<1> QED  BY <1>1, <1>2, <1>3, <1>4 DEF CompleteInv
----------------------------------------------------------------------------
(* A file without its text is the next one of the run that opened it.      *)

LEMMA NextEmptyHasOwner ==
    TypeInv /\ EmptyHasOwner /\ [Next]_vars => EmptyHasOwner'
<1> SUFFICES ASSUME TypeInv, EmptyHasOwner, [Next]_vars,
                    NEW f \in Files, fs'[f] = "empty"
             PROVE  \E b \in Builder : /\ pc'[b] \in {"write", "killed"}
                                      /\ IsFirst(f, missing'[b])
    BY DEF EmptyHasOwner, IsFirst
<1> USE DEF TypeInv
<1>p. f \in Path
    BY DEF Files
<1>o. ASSUME fs[f] = "empty"
      PROVE  \E b \in Builder : /\ pc[b] \in {"write", "killed"}
                               /\ IsFirst(f, missing[b])
    BY <1>o DEF EmptyHasOwner
<1>1. ASSUME NEW b \in Builder, NEW p \in Path, Look(b, p) \/ MakeDir(b, p)
      PROVE  \E c \in Builder : /\ pc'[c] \in {"write", "killed"}
                               /\ IsFirst(f, missing'[c])
    <2>1. fs[f] = "empty"
        BY <1>1, <1>p DEF Look, MakeDir, Files
    <2>2. PICK c \in Builder : /\ pc[c] \in {"write", "killed"}
                              /\ IsFirst(f, missing[c])
        BY <1>o, <2>1
    <2>3. pc[b] \in {"plan", "execute"}
        BY <1>1 DEF Look, MakeDir, Executes
    <2>4. c # b
        BY <2>2, <2>3
    <2>5. pc'[c] = pc[c] /\ missing'[c] = missing[c]
        BY <1>1, <2>4 DEF Look, MakeDir, Done, TypeOK
    <2> QED  BY <2>2, <2>5
<1>2. ASSUME NEW b \in Builder, NEW p \in Path, Open(b, p)
      PROVE  \E c \in Builder : /\ pc'[c] \in {"write", "killed"}
                               /\ IsFirst(f, missing'[c])
    <2>m. missing' = missing
        BY <1>2 DEF Open, plans
    <2>1. CASE fs[f] = "empty"
        <3>1. PICK c \in Builder : /\ pc[c] \in {"write", "killed"}
                                  /\ IsFirst(f, missing[c])
            BY <1>o, <2>1
        <3>2. c # b
            BY <1>2, <3>1 DEF Open, Executes
        <3>3. pc'[c] = pc[c]
            BY <1>2, <3>2 DEF Open, TypeOK
        <3> QED  BY <2>m, <3>1, <3>3
    <2>2. CASE fs[f] # "empty"
        <3>1. f = p /\ HasParent(p)
            BY <1>2, <1>p, <2>2 DEF Open
        <3>2. pc'[b] = "write" /\ IsFirst(p, missing[b])
            BY <1>2, <3>1 DEF Open, Executes, TypeOK
        <3> QED  BY <2>m, <3>1, <3>2
    <2> QED  BY <2>1, <2>2
<1>3. ASSUME NEW b \in Builder, NEW p \in Path, Write(b, p)
      PROVE  \E c \in Builder : /\ pc'[c] \in {"write", "killed"}
                               /\ IsFirst(f, missing'[c])
    <2>1. fs[f] = "empty" /\ f # p
        BY <1>3, <1>p DEF Write
    <2>2. PICK c \in Builder : /\ pc[c] \in {"write", "killed"}
                              /\ IsFirst(f, missing[c])
        BY <1>o, <2>1
    <2>3. IsFirst(p, missing[b]) /\ missing[b] \in SUBSET Path
        BY <1>3 DEF Write, TypeOK
    <2>4. c # b
        BY <2>1, <2>2, <2>3, FirstIsOne
    <2>5. pc'[c] = pc[c] /\ missing'[c] = missing[c]
        BY <1>3, <2>4 DEF Write, Done, TypeOK
    <2> QED  BY <2>2, <2>5
<1>4. ASSUME NEW b \in Builder,
             PlanFails(b) \/ Planned(b) \/ Finish(b) \/ Kill(b)
      PROVE  \E c \in Builder : /\ pc'[c] \in {"write", "killed"}
                               /\ IsFirst(f, missing'[c])
    <2>1. /\ \/ /\ pc[b] \in {"plan", "execute"}
                /\ \E v \in {"raised", "execute", "shown", "ok"} :
                       pc' = [pc EXCEPT ![b] = v]
             \/ pc' = [pc EXCEPT ![b] = "killed"]
          /\ missing' = missing /\ fs' = fs
        BY <1>4 DEF PlanFails, Planned, Finish, Kill, plans
    <2>2. PICK c \in Builder : /\ pc[c] \in {"write", "killed"}
                              /\ IsFirst(f, missing[c])
        BY <1>o, <2>1
    <2>3. pc'[c] \in {"write", "killed"}
        BY <2>1, <2>2 DEF TypeOK
    <2> QED  BY <2>1, <2>2, <2>3
<1>5. ASSUME NEW p \in Files, Edit(p)
      PROVE  \E c \in Builder : /\ pc'[c] \in {"write", "killed"}
                               /\ IsFirst(f, missing'[c])
    <2>1. fs[f] = "empty"
        BY <1>5, <1>p DEF Edit
    <2> QED  BY <1>5, <1>o, <2>1 DEF Edit, plans
<1>6. CASE UNCHANGED vars
    BY <1>6, <1>o DEF vars
<1> QED  BY <1>1, <1>2, <1>3, <1>4, <1>5, <1>6 DEF Next

----------------------------------------------------------------------------
(* A run that gives up was overtaken by another one: somebody made the     *)
(* directory it is about to make, and is past it.  Who is past most        *)
(* directories was overtaken by nobody.                                    *)

Past(c, d) ==
    /\ pc[c] # "plan" /\ Able(c)
    /\ \A q \in missing[c] : Position[d] < Position[q]

BlockInv ==
    /\ \A b \in Builder : \A d \in Directories :
          d \in missing[b] /\ Exists(d) => \E c \in Builder : Past(c, d)
    /\ \A b \in Builder :
          pc[b] = "raised" /\ Able(b) =>
              \E d \in Directories : /\ IsFirst(d, missing[b])
                                    /\ \E c \in Builder : Past(c, d)

\* A directory is there before anything is made in it.
LEMMA ParentIsThere ==
    ASSUME TypeInv, CompleteInv, NEW b \in Builder, NEW p \in Path, Executes(b, p)
    PROVE  HasParent(p)
<1>1. CASE p = Prf
    BY <1>1 DEF HasParent
<1>2. CASE p # Prf
    <2> DEFINE d == Front(p)
    <2>1. d \in Directories /\ Position[d] < Position[p]
        BY <1>2, ParentComesFirst
    <2> HIDE DEF d
    <2>2. d \in Wanted(b) /\ d \in Path
        BY <2>1, DirectoriesAreWanted, PathsAreOrdered DEF TypeInv
    <2>3. Position[d] \in Nat /\ Position[p] \in Nat
        BY <2>2, PathsAreOrdered
    <2>4. d \notin missing[b]
        BY <2>1, <2>3 DEF Executes, IsFirst
    <2>5. Exists(d)
        BY <2>2, <2>4 DEF CompleteInv, Executes
    <2>6. fs[d] = "dir"
        BY <2>1, <2>5 DEF TypeInv, TypeOK, Exists
    <2> QED  BY <1>2, <2>6 DEF HasParent, d
<1> QED  BY <1>1, <1>2

\* Once past a directory, a run stays past it.
LEMMA PastStays ==
    ASSUME TypeInv, [Next]_vars, NEW c \in Builder, NEW d \in Path, Past(c, d)
    PROVE  Past(c, d)'
<1>1. Forward
    BY StepsForward
<1> QED  BY <1>1 DEF Past, Forward, Able

LEMMA NextBlockInv ==
    TypeInv /\ CompleteInv /\ BlockInv /\ [Next]_vars => BlockInv'
<1> SUFFICES ASSUME TypeInv, CompleteInv, BlockInv, [Next]_vars PROVE BlockInv'
    OBVIOUS
<1>f. Forward
    BY StepsForward
<1>p. Directories \subseteq Path
    BY PathsAreOrdered
<1>s. \A c \in Builder : \A d \in Directories : Past(c, d) => Past(c, d)'
    BY <1>p, PastStays
<1>1. ASSUME NEW b \in Builder, NEW d \in Directories,
             d \in missing'[b], Exists(d)'
      PROVE  \E c \in Builder : Past(c, d)'
    <2>1. CASE d \in missing[b] /\ Exists(d)
        BY <1>s, <2>1 DEF BlockInv
    <2>2. CASE d \notin missing[b]
        <3>1. PICK p \in Path : Look(b, p) /\ p = d /\ ~ Exists(p)
            BY <1>1, <2>2 DEF Next, Look, MakeDir, Open, Write, Done,
                  PlanFails, Planned, Finish, Kill, Edit,
                  plans, arguments, vars, TypeInv, TypeOK
        <3> QED  BY <1>1, <3>1 DEF Look, Exists
    <2>3. CASE d \in missing[b] /\ ~ Exists(d)
        <3>1. PICK c \in Builder : MakeDir(c, d) /\ fs' # fs
            <4>1. fs'[d] # fs[d]
                BY <1>1, <2>3 DEF Exists
            <4>2. PICK c \in Builder, p \in Path : MakeDir(c, p) /\ fs' # fs
                <5>1. d \in Path /\ d \notin Files
                    BY <1>p DEF Files
                <5>2. ASSUME NEW c \in Builder, NEW p \in Path,
                             Open(c, p) \/ Write(c, p)
                      PROVE  FALSE
                    <6>1. p \in Files /\ p # d
                        BY <5>1, <5>2, WritesFiles DEF Open
                    <6> QED  BY <4>1, <5>1, <5>2, <6>1 DEF Open, Write, TypeInv
                <5>3. ASSUME NEW p \in Files, Edit(p)
                      PROVE  FALSE
                    BY <4>1, <5>1, <5>3 DEF Edit, TypeInv
                <5>4. fs' # fs
                    BY <4>1
                <5> QED
                    BY <5>2, <5>3, <5>4 DEF Next, Look, PlanFails, Planned,
                                            Finish, Kill, vars
            <4>3. p = d
                BY <1>p, <4>1, <4>2 DEF MakeDir, TypeInv
            <4> QED  BY <4>2, <4>3
        <3>2. /\ pc[c] = "execute" /\ pc' = pc /\ IsFirst(d, missing[c])
              /\ missing' = [missing EXCEPT ![c] = @ \ {d}]
            BY <3>1 DEF MakeDir, Executes, Done
        <3>3. Able(c)'
            BY <1>f, <3>2 DEF CompleteInv, Forward, Able
        <3>4. ASSUME NEW q \in missing'[c]
              PROVE  Position[d] < Position[q]
            <4>1. q \in missing[c] /\ q # d /\ q \in Path /\ d \in Path
                BY <1>p, <3>2, <3>4 DEF TypeInv, TypeOK
            <4>2. Position[d] <= Position[q]
                BY <3>2, <4>1 DEF IsFirst
            <4>3. /\ Position[d] # Position[q]
                  /\ Position[d] \in Nat /\ Position[q] \in Nat
                BY <4>1, PathsAreOrdered
            <4> QED  BY <4>2, <4>3
        <3>5. pc'[c] # "plan"
            BY <3>2
        <3>6. Past(c, d)'
            BY <3>3, <3>4, <3>5 DEF Past
        <3> QED  BY <3>6
    <2> QED  BY <2>1, <2>2, <2>3
<1>2. ASSUME NEW b \in Builder, pc'[b] = "raised", Able(b)'
      PROVE  \E d \in Directories : /\ IsFirst(d, missing'[b])
                                   /\ \E c \in Builder : Past(c, d)'
    <2>a. Able(b)
        BY <1>f, <1>2 DEF Forward, Able
    <2>1. CASE pc[b] = "raised"
        <3>1. missing'[b] = missing[b]
            BY <2>1 DEF Next, Look, MakeDir, Open, Write, Executes, Done,
                  PlanFails, Planned, Finish, Kill, Edit,
                  plans, arguments, vars, TypeInv, TypeOK
        <3> QED  BY <1>s, <2>a, <2>1, <3>1 DEF BlockInv
    <2>2. CASE pc[b] # "raised"
        <3>1. PICK p \in Path : MakeDir(b, p) \/ Open(b, p)
            BY <1>2, <2>a, <2>2 DEF Next, Look, MakeDir, Open, Write, Executes,
                  Done, PlanFails, Planned, Finish, Kill, Edit,
                  plans, arguments, vars, TypeInv, TypeOK
        <3>2. Executes(b, p)
            BY <3>1 DEF MakeDir, Open
        <3>3. HasParent(p)
            BY <3>2, ParentIsThere
        <3>4. /\ p \in Directories /\ Exists(p) /\ missing' = missing
            BY <1>2, <2>2, <3>1, <3>3 DEF MakeDir, Open, TypeInv, TypeOK
        <3>5. IsFirst(p, missing[b])
            BY <3>2 DEF Executes
        <3>6. PICK c \in Builder : Past(c, p)
            BY <3>4, <3>5 DEF BlockInv, IsFirst
        <3> QED  BY <1>s, <3>4, <3>5, <3>6
    <2> QED  BY <2>1, <2>2
<1> QED  BY <1>1, <1>2 DEF BlockInv, IsFirst

\* Among runs that all gave up, one would be past a last directory.
LEMMA BlockIsPartial == TypeInv /\ BlockInv => SomeoneGoesOn
<1> SUFFICES ASSUME TypeInv, BlockInv, NEW b0 \in Builder, Able(b0),
                    \A b \in Builder : Able(b) => pc[b] = "raised"
             PROVE  FALSE
    BY DEF SomeoneGoesOn
<1> DEFINE Stuck(d) == \E b \in Builder : Able(b) /\ IsFirst(d, missing[b])
<1>1. \E d \in Directories : Stuck(d)
    BY DEF BlockInv
<1>2. ASSUME NEW d \in Directories, Stuck(d)
      PROVE  \E e \in Directories : Stuck(e) /\ Position[d] < Position[e]
    <2>1. PICK b \in Builder : Able(b) /\ IsFirst(d, missing[b])
        BY <1>2
    <2>2. PICK e \in Directories : /\ IsFirst(e, missing[b])
                                  /\ \E c \in Builder : Past(c, e)
        BY <2>1 DEF BlockInv
    <2>3. e = d
        BY <2>1, <2>2, FirstIsOne DEF TypeInv, TypeOK
    <2>4. PICK c \in Builder : Past(c, d)
        BY <2>2, <2>3
    <2>5. PICK f \in Directories : IsFirst(f, missing[c])
        BY <2>4 DEF BlockInv, Past
    <2>6. Stuck(f) /\ Position[d] < Position[f]
        BY <2>4, <2>5 DEF Past, IsFirst
    <2> QED  BY <2>6
<1> HIDE DEF Stuck
<1>3. /\ Position[Prf] \in Nat /\ Position[Target] \in Nat
      /\ Position[Prelude] \in Nat
    BY PathsAreOrdered DEF Directories
<1> QED  BY <1>1, <1>2, <1>3 DEF Directories

----------------------------------------------------------------------------
(* The theorems.                                                           *)

IInv == TypeInv /\ FoundInv /\ CompleteInv /\ EmptyHasOwner /\ BlockInv

\* Nothing is planned, found or written when the runs start.
LEMMA InitIInv == Init => IInv
<1> SUFFICES ASSUME Init PROVE IInv
    OBVIOUS
<1>1. TypeInv
    BY InitTypeInv
<1>2. FoundInv /\ CompleteInv /\ EmptyHasOwner /\ BlockInv
    BY DEF Init, FoundInv, CompleteInv, EmptyHasOwner, BlockInv, Files
<1> QED  BY <1>1, <1>2 DEF IInv

LEMMA Invariance == Spec => []IInv
<1>1. Init => IInv
    BY InitIInv
<1>2. IInv /\ [Next]_vars => IInv'
    BY NextTypeInv, NextFoundInv, NextCompleteInv, NextEmptyHasOwner,
       NextBlockInv DEF IInv
<1> QED  BY <1>1, <1>2, PTL DEF Spec

\* The state has its type: directories are made as directories and files
\* as files, whatever runs and users do to each other.
THEOREM TypeCorrect == Spec => []TypeOK
<1>1. IInv => TypeOK
    BY DEF IInv, TypeInv
<1> QED  BY <1>1, Invariance, PTL

\* compute_hierarchy_plan, execute_hierarchy_plan: a run never opens a file
\* that held a user's work when the run looked at it.
THEOREM WorkSeenIsKept == Spec => []FoundIsKept
<1>1. IInv => FoundIsKept
    BY DEF IInv, FoundInv, FoundIsKept
<1> QED  BY <1>1, Invariance, PTL

\* CoqHierarchyBuilder.run: a run that ends well leaves every path it was
\* asked for.
THEOREM FinishedIsComplete == Spec => []Complete
<1>1. IInv => Complete
    BY DEF IInv, CompleteInv, Complete
<1> QED  BY <1>1, Invariance, PTL

\* execute_hierarchy_plan_aux: of any number of runs in each other's way
\* they do not all give up at mkdir.
THEOREM NotAllGiveUp == Spec => []SomeoneGoesOn
<1>1. IInv => SomeoneGoesOn
    BY BlockIsPartial DEF IInv
<1> QED  BY <1>1, Invariance, PTL

\* populate_file: a file without text is being written, or a run was killed
\* when it was.
THEOREM EmptyIsOwned == Spec => []EmptyHasOwner
<1>1. IInv => EmptyHasOwner
    BY DEF IInv
<1> QED  BY <1>1, Invariance, PTL
=============================================================================
