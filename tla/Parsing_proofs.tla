--------------------------- MODULE Parsing_proofs ---------------------------
(***************************************************************************)
(* Proofs about the texts the program takes apart, of any length: rules of *)
(* the policy (Patterns), introspection documents (Introspection) and      *)
(* signatures (Signatures).                                                *)
(***************************************************************************)
EXTENDS Parsing, FiniteSetTheorems, SequenceTheorems, TLAPS

-----------------------------------------------------------------------------
(* Sets of naturals, induction along a rank, and recursive definitions.      *)

\* A set of naturals has a least element.
LEMMA LeastElement ==
    ASSUME NEW S \in SUBSET Nat, S # {}
    PROVE  \E m \in S : \A k \in S : m <= k
<1> DEFINE UpTo(m) == {k \in S : k <= m}
           T == {UpTo(m) : m \in S}
<1>1. \A m \in S : UpTo(m) \in FiniteSubsetsOf(S)
    <2> SUFFICES ASSUME NEW m \in S
                 PROVE  IsFiniteSet(UpTo(m)) /\ UpTo(m) \in SUBSET S
        BY DEF FiniteSubsetsOf
    <2>1. UpTo(m) \in SUBSET Nat /\ m \in Nat /\ \A s \in UpTo(m) : s <= m
        OBVIOUS
    <2> QED
        BY <2>1, FS_BoundedSetOfNaturals
<1>2. T \subseteq FiniteSubsetsOf(S) /\ T # {}
    BY <1>1
<1>3. PICK x \in T : \A y \in T : <<y, x>> \notin StrictSubsetOrdering(S)
    <2> HIDE DEF T
    <2> QED
        BY <1>2, FS_StrictSubsetOrderingWellFounded, WFMin
<1>4. PICK m \in S : x = UpTo(m)
    OBVIOUS
<1>5. ASSUME NEW k \in S, k < m PROVE FALSE
    <2>1. UpTo(k) \subseteq UpTo(m) /\ m \in UpTo(m) /\ m \notin UpTo(k)
        <3>1. k \in Nat /\ m \in Nat
            OBVIOUS
        <3>2. \A j \in S : j <= k => j <= m
            BY <1>5, <3>1
        <3>3. m <= m /\ ~(m <= k)
            BY <1>5, <3>1
        <3> QED
            BY <3>2, <3>3
    <2>2. <<UpTo(k), x>> \in StrictSubsetOrdering(S)
        BY <1>4, <2>1 DEF StrictSubsetOrdering
    <2> QED
        BY <1>3, <2>2
<1> QED
    BY <1>5

\* A bounded set of naturals has a greatest element.
LEMMA GreatestElement ==
    ASSUME NEW S \in SUBSET Nat, S # {}, NEW n \in Nat, \A k \in S : k <= n
    PROVE  Max(S) \in S /\ \A k \in S : k <= Max(S)
<1> DEFINE D == {n - k : k \in S}
<1>1. D \in SUBSET Nat /\ D # {}
    <2>1. \A k \in S : n - k \in Nat
        OBVIOUS
    <2> QED
        BY <2>1
<1>2. PICK d \in D : \A e \in D : d <= e
    BY <1>1, LeastElement
<1>3. PICK m \in S : d = n - m
    BY <1>2
<1>4. \A k \in S : m >= k
    <2> SUFFICES ASSUME NEW k \in S PROVE m >= k
        OBVIOUS
    <2>1. n - m <= n - k
        BY <1>2, <1>3
    <2>2. k \in Nat /\ m \in Nat
        OBVIOUS
    <2> QED
        BY <2>1, <2>2
<1>5. Max(S) \in S /\ \A k \in S : Max(S) >= k
    BY <1>4 DEF Max
<1> QED
    BY <1>5

\* An element of S is in Q when those of lower rank are.
IsInductive(S, rank, Q) ==
    /\ rank \in [S -> Nat] /\ Q \subseteq S
    /\ \A x \in S : (\A y \in S : rank[y] < rank[x] => y \in Q) => x \in Q

\* Induction along a rank.
LEMMA RankInduction ==
    ASSUME NEW S, NEW rank, NEW Q, IsInductive(S, rank, Q)
    PROVE  Q = S
<1> USE DEF IsInductive
<1> SUFFICES ASSUME S \ Q # {} PROVE FALSE
    OBVIOUS
<1> DEFINE R == {rank[x] : x \in S \ Q}
<1>1. R \in SUBSET Nat /\ R # {}
    OBVIOUS
<1>2. PICK m \in R : \A k \in R : m <= k
    BY <1>1, LeastElement
<1>3. PICK x \in S \ Q : m = rank[x]
    OBVIOUS
<1>4. ASSUME NEW y \in S, rank[y] < rank[x], y \notin Q
      PROVE  FALSE
    <2>1. rank[y] \in R /\ rank[y] \in Nat /\ rank[x] \in Nat
        BY <1>4
    <2>2. m <= rank[y]
        BY <1>2, <2>1
    <2> QED
        BY <1>3, <1>4, <2>1, <2>2
<1> QED
    BY <1>3, <1>4

\* Induction over the naturals.
LEMMA SetInduction ==
    ASSUME NEW Q \in SUBSET Nat, 0 \in Q, \A n \in Q : n + 1 \in Q
    PROVE  Q = Nat
<1> SUFFICES ASSUME Nat \ Q # {} PROVE FALSE
    OBVIOUS
<1>1. PICK m \in Nat \ Q : \A k \in Nat \ Q : m <= k
    BY LeastElement
<1>2. m # 0 /\ m - 1 \in Nat /\ ~(m <= m - 1)
    OBVIOUS
<1>3. m - 1 \in Q
    BY <1>1, <1>2
<1>4. m - 1 + 1 \in Q /\ m - 1 + 1 = m
    BY <1>3
<1> QED
    BY <1>1, <1>4

\* F defines a function on S from its values at smaller arguments.
IsRecursion(S, T, rank, F) ==
    /\ T # {} /\ rank \in [S -> Nat] /\ F \in [S \X [S -> T] -> T]
    /\ \A x \in S : \A g, h \in [S -> T] :
        (\A y \in S : rank[y] < rank[x] => g[y] = h[y]) => F[<<x, g>>] = F[<<x, h>>]

\* There is a function that a recursion along a rank defines.
LEMMA RecursionExists ==
    ASSUME NEW S, NEW T, NEW rank, NEW F, IsRecursion(S, T, rank, F)
    PROVE  \E f \in [S -> T] : \A x \in S : f[x] = F[<<x, f>>]
<1> USE DEF IsRecursion
<1> DEFINE Solves(n, g) == \A x \in S : rank[x] < n => g[x] = F[<<x, g>>]
<1>1. ASSUME NEW n \in Nat, NEW g \in [S -> T], NEW h \in [S -> T], Solves(n, g), Solves(n, h),
             NEW z \in S, rank[z] < n
      PROVE  g[z] = h[z]
    <2> DEFINE Q == {x \in S : rank[x] < n => g[x] = h[x]}
    <2>1. ASSUME NEW x \in S, \A y \in S : rank[y] < rank[x] => y \in Q
          PROVE  x \in Q
        <3> SUFFICES ASSUME rank[x] < n PROVE g[x] = h[x]
            OBVIOUS
        <3>1. \A y \in S : rank[y] < rank[x] => g[y] = h[y]
            BY <2>1
        <3>2. F[<<x, g>>] = F[<<x, h>>]
            BY <3>1
        <3> QED
            BY <1>1, <3>2
    <2>2. Q \subseteq S
        OBVIOUS
    <2> HIDE DEF Q
    <2>3. IsInductive(S, rank, Q)
        BY <2>1, <2>2 DEF IsInductive
    <2>4. Q = S
        BY <2>3, RankInduction
    <2> QED
        BY <1>1, <2>4 DEF Q
<1> DEFINE N == {n \in Nat : \E g \in [S -> T] : Solves(n, g)}
<1>2. N = Nat
    <2>1. 0 \in N
        <3>1. PICK t \in T : TRUE
            OBVIOUS
        <3>2. [x \in S |-> t] \in [S -> T] /\ Solves(0, [x \in S |-> t])
            OBVIOUS
        <3> QED
            BY <3>2
    <2>2. ASSUME NEW n \in N PROVE n + 1 \in N
        <3>1. PICK g \in [S -> T] : Solves(n, g)
            OBVIOUS
        <3> DEFINE h == [x \in S |-> F[<<x, g>>]]
        <3>2. h \in [S -> T]
            OBVIOUS
        <3>3. ASSUME NEW x \in S, rank[x] < n + 1 PROVE h[x] = F[<<x, h>>]
            <4>1. \A y \in S : rank[y] < rank[x] => g[y] = h[y]
                BY <3>1, <3>3
            <4>2. F[<<x, g>>] = F[<<x, h>>]
                BY <3>2, <4>1
            <4> QED
                BY <4>2
        <3>4. Solves(n + 1, h)
            BY <3>3
        <3> HIDE DEF h
        <3> QED
            BY <3>2, <3>4
    <2> HIDE DEF N
    <2>3. N \in SUBSET Nat
        BY DEF N
    <2> QED
        BY <2>1, <2>2, <2>3, SetInduction
<1>3. \A n \in Nat : \E g \in [S -> T] : Solves(n, g)
    BY <1>2
<1> HIDE DEF Solves
<1> DEFINE G(n) == CHOOSE g \in [S -> T] : Solves(n, g)
<1>4. \A n \in Nat : G(n) \in [S -> T] /\ Solves(n, G(n))
    BY <1>3
<1> HIDE DEF G
<1> DEFINE f == [x \in S |-> G(rank[x] + 1)[x]]
<1>5. \A x \in S : rank[x] + 1 \in Nat
    OBVIOUS
<1>6. f \in [S -> T]
    BY <1>4, <1>5
<1>7. \A x \in S : f[x] = G(rank[x] + 1)[x]
    OBVIOUS
<1> HIDE DEF f
<1>8. ASSUME NEW x \in S PROVE f[x] = F[<<x, f>>]
    <2> DEFINE g == G(rank[x] + 1)
    <2>1. g \in [S -> T] /\ Solves(rank[x] + 1, g)
        BY <1>4, <1>5
    <2>2. f[x] = g[x]
        BY <1>7
    <2> HIDE DEF g
    <2>3. ASSUME NEW y \in S, rank[y] < rank[x] PROVE f[y] = g[y]
        <3> DEFINE h == G(rank[y] + 1)
        <3>1. h \in [S -> T] /\ Solves(rank[y] + 1, h) /\ f[y] = h[y]
            BY <1>4, <1>5, <1>7
        <3> HIDE DEF h
        <3>2. Solves(rank[y] + 1, g)
            BY <2>1, <2>3 DEF Solves
        <3> QED
            BY <1>1, <1>5, <2>1, <3>1, <3>2
    <2>4. F[<<x, f>>] = F[<<x, g>>]
        BY <1>6, <2>1, <2>3
    <2>5. g[x] = F[<<x, g>>]
        BY <2>1 DEF Solves
    <2> QED
        BY <2>2, <2>4, <2>5
<1> QED
    BY <1>6, <1>8

-----------------------------------------------------------------------------
(* The rules of the policy.                                                   *)

\* The last place of a character in a text: 0 when it has none.
LEMMA LastIndexFacts ==
    ASSUME NEW S, NEW text \in Seq(S), NEW c
    PROVE  /\ LastIndexOf(text, c) \in 0 .. Len(text)
           /\ LastIndexOf(text, c) # 0 => text[LastIndexOf(text, c)] = c
           /\ \A k \in 1 .. Len(text) : text[k] = c => k <= LastIndexOf(text, c)
<1> DEFINE I == {0} \cup {k \in 1 .. Len(text) : text[k] = c}
<1>1. I \in SUBSET Nat /\ I # {} /\ Len(text) \in Nat /\ \A k \in I : k <= Len(text)
    OBVIOUS
<1>2. Max(I) \in I /\ \A k \in I : k <= Max(I)
    <2> HIDE DEF I
    <2> QED
        BY <1>1, GreatestElement
<1> QED
    BY <1>1, <1>2 DEF LastIndexOf

\* Where the separators of a rule stand.
LEMMA RuleFacts ==
    ASSUME NEW service \in Seq(RuleChars), NEW interface \in Seq(RuleChars),
           NEW method \in Seq(RuleChars)
    PROVE  /\ Rule(service, interface, method) \in Seq(RuleChars)
           /\ Rule(service, interface, method)[Len(service) + 1] = ":"
           /\ Rule(service, interface, method)[Len(service) + Len(interface) + 2] = "."
<1>1. <<":">> \in Seq(RuleChars) /\ <<".">> \in Seq(RuleChars)
    BY DEF RuleChars
<1> QED
    BY <1>1, Z3 DEF Rule

\* The first part of a text.
LEMMA SubSeqOne ==
    ASSUME NEW S, NEW s \in Seq(S), NEW k \in 1 .. Len(s)
    PROVE  SubSeq(s, k, k) = <<s[k]>>
<1>1. SubSeq(s, k, k) \in Seq(S) /\ Len(SubSeq(s, k, k)) = 1 /\ SubSeq(s, k, k)[1] = s[k]
    <2>1. k \in Int /\ \A i \in k .. k : s[i] \in S
        OBVIOUS
    <2>2. k - k + 1 = 1 /\ k + 1 - 1 = k /\ k <= k
        OBVIOUS
    <2> QED
        BY <2>1, <2>2, SubSeqProperties
<1>2. <<s[k]>> \in Seq(S) /\ Len(<<s[k]>>) = 1 /\ <<s[k]>>[1] = s[k]
    OBVIOUS
<1>3. \A i \in 1 .. 1 : SubSeq(s, k, k)[i] = <<s[k]>>[i]
    BY <1>1, <1>2
<1> QED
    BY <1>1, <1>2, <1>3, SeqEqual

\* A text cut at a colon and a dot, and put together again, is the text.
LEMMA CutAndJoined ==
    ASSUME NEW S, NEW text \in Seq(S), NEW c \in 1 .. Len(text), NEW d \in 1 .. Len(text),
           c < d, text[c] = ":", text[d] = "."
    PROVE  Rule(SubSeq(text, 1, c - 1), SubSeq(text, c + 1, d - 1), SubSeq(text, d + 1, Len(text)))
                = text
<1>1. SubSeq(text, 1, c - 1) \o SubSeq(text, c, c) = SubSeq(text, 1, c)
    BY ConcatAdjacentSubSeq, c - 1 + 1 = c
<1>2. SubSeq(text, 1, c) \o SubSeq(text, c + 1, d - 1) = SubSeq(text, 1, d - 1)
    BY ConcatAdjacentSubSeq
<1>3. SubSeq(text, 1, d - 1) \o SubSeq(text, d, d) = SubSeq(text, 1, d)
    BY ConcatAdjacentSubSeq, d - 1 + 1 = d
<1>4. SubSeq(text, 1, d) \o SubSeq(text, d + 1, Len(text)) = SubSeq(text, 1, Len(text))
    BY ConcatAdjacentSubSeq
<1>5. SubSeq(text, c, c) = <<":">> /\ SubSeq(text, d, d) = <<".">>
    BY SubSeqOne
<1>6. SubSeq(text, 1, Len(text)) = text
    BY SubSeqFull
<1> QED
    BY <1>1, <1>2, <1>3, <1>4, <1>5, <1>6 DEF Rule

\* The only way to read a text is to end the service at its last colon, and the
\* interface at its last dot.
LEMMA CutFacts ==
    ASSUME NEW text \in Seq(RuleChars), NEW c \in 1 .. Len(text), NEW d \in 1 .. Len(text)
    PROVE  CutAt(text, c, d) <=>
             /\ c = ColonOf(text) /\ d = LastIndexOf(text, ".")
             /\ c > 1 /\ d > c + 1 /\ d < Len(text)
<1> DEFINE service == SubSeq(text, 1, c - 1)
           interface == SubSeq(text, c + 1, d - 1)
           method == SubSeq(text, d + 1, Len(text))
<1>0. Len(text) \in Nat /\ c \in Nat /\ d \in Nat
    OBVIOUS
<1>1. /\ service \in Seq(RuleChars) /\ Len(service) = c - 1
      /\ interface \in Seq(RuleChars)
      /\ Len(interface) = IF c + 1 <= d - 1 THEN d - 1 - c ELSE 0
      /\ \A i \in 1 .. d - 1 - c : interface[i] = text[c + i]
      /\ method \in Seq(RuleChars) /\ Len(method) = Len(text) - d
      /\ \A i \in 1 .. Len(text) - d : method[i] = text[d + i]
    <2>1. /\ \A i \in 1 .. c - 1 : text[i] \in RuleChars
          /\ \A i \in c + 1 .. d - 1 : text[i] \in RuleChars
          /\ \A i \in d + 1 .. Len(text) : text[i] \in RuleChars
        OBVIOUS
    <2>2. service \in Seq(RuleChars) /\ Len(service) = c - 1
        BY <1>0, <2>1, SubSeqProperties
    <2>3. /\ interface \in Seq(RuleChars)
          /\ Len(interface) = IF c + 1 <= d - 1 THEN d - 1 - c ELSE 0
          /\ \A i \in 1 .. d - 1 - c : interface[i] = text[c + i]
        <3>1. /\ interface \in Seq(RuleChars)
              /\ Len(interface) = IF c + 1 <= d - 1 THEN d - 1 - (c + 1) + 1 ELSE 0
              /\ \A i \in 1 .. d - 1 - (c + 1) + 1 : interface[i] = text[c + 1 + i - 1]
            BY <1>0, <2>1, SubSeqProperties
        <3> QED
            BY <1>0, <3>1
    <2>4. /\ method \in Seq(RuleChars) /\ Len(method) = Len(text) - d
          /\ \A i \in 1 .. Len(text) - d : method[i] = text[d + i]
        <3>1. /\ method \in Seq(RuleChars)
              /\ Len(method) = IF d + 1 <= Len(text) THEN Len(text) - (d + 1) + 1 ELSE 0
              /\ \A i \in 1 .. Len(text) - (d + 1) + 1 : method[i] = text[d + 1 + i - 1]
            BY <1>0, <2>1, SubSeqProperties
        <3> QED
            BY <1>0, <3>1
    <2> QED
        BY <2>2, <2>3, <2>4
<1>2. /\ \A k \in 1 .. Len(text) : text[k] = ":" => k <= ColonOf(text)
      /\ ColonOf(text) \in 0 .. Len(text)
      /\ ColonOf(text) # 0 => text[ColonOf(text)] = ":"
      /\ \A k \in 1 .. Len(text) : text[k] = "." => k <= LastIndexOf(text, ".")
      /\ LastIndexOf(text, ".") \in 0 .. Len(text)
      /\ LastIndexOf(text, ".") # 0 => text[LastIndexOf(text, ".")] = "."
    BY LastIndexFacts DEF ColonOf
<1>3. ASSUME CutAt(text, c, d)
      PROVE  /\ c = ColonOf(text) /\ d = LastIndexOf(text, ".")
             /\ c > 1 /\ d > c + 1 /\ d < Len(text)
    <2>1. /\ text = Rule(service, interface, method)
          /\ service # <<>> /\ interface # <<>> /\ method # <<>>
          /\ ":" \notin ToSet(interface) /\ ":" \notin ToSet(method) /\ "." \notin ToSet(method)
        BY <1>3 DEF CutAt
    <2> HIDE DEF service, interface, method
    <2>2. c > 1 /\ d > c + 1 /\ d < Len(text)
        <3>1. Len(service) # 0 /\ Len(interface) # 0 /\ Len(method) # 0
            BY <1>1, <2>1, EmptySeq
        <3>2. c - 1 # 0 /\ c + 1 <= d - 1 /\ Len(text) - d # 0
            BY <1>1, <3>1
        <3> QED
            BY <1>0, <3>2
    <2>3. Len(service) + 1 = c /\ Len(service) + Len(interface) + 2 = d
        BY <1>0, <1>1, <2>2
    <2>4. text[c] = ":" /\ text[d] = "."
        <3>1. service \in Seq(RuleChars) /\ interface \in Seq(RuleChars) /\ method \in Seq(RuleChars)
            BY <1>1
        <3>2. /\ Rule(service, interface, method)[Len(service) + 1] = ":"
              /\ Rule(service, interface, method)[Len(service) + Len(interface) + 2] = "."
            BY <3>1, RuleFacts
        <3> QED
            BY <2>1, <2>3, <3>2
    <2>5. \A i \in 1 .. Len(interface) : interface[i] # ":"
        BY <1>1, <2>1 DEF ToSet
    <2>6. \A i \in 1 .. Len(method) : method[i] # ":" /\ method[i] # "."
        BY <1>1, <2>1 DEF ToSet
    <2>7. \A k \in d + 1 .. Len(text) : text[k] # ":" /\ text[k] # "."
        <3> SUFFICES ASSUME NEW k \in d + 1 .. Len(text)
                     PROVE  text[k] # ":" /\ text[k] # "."
            OBVIOUS
        <3>1. k - d \in 1 .. Len(text) - d /\ d + (k - d) = k
            BY <1>0
        <3> QED
            BY <1>1, <2>6, <3>1
    <2>8. \A k \in c + 1 .. d - 1 : text[k] # ":"
        <3> SUFFICES ASSUME NEW k \in c + 1 .. d - 1
                     PROVE  text[k] # ":"
            OBVIOUS
        <3>1. k - c \in 1 .. d - 1 - c /\ c + (k - c) = k
            BY <1>0
        <3>2. k - c \in 1 .. Len(interface)
            BY <1>0, <1>1, <3>1
        <3> QED
            BY <1>1, <2>5, <3>1, <3>2
    <2>9. c = ColonOf(text)
        <3>1. c <= ColonOf(text)
            BY <1>2, <2>4
        <3>2. text[ColonOf(text)] = ":"
            BY <1>0, <1>2, <3>1
        <3>3. ColonOf(text) \notin c + 1 .. d - 1 /\ ColonOf(text) # d
                /\ ColonOf(text) \notin d + 1 .. Len(text)
            BY <2>4, <2>7, <2>8, <3>2
        <3> QED
            BY <1>0, <1>2, <3>1, <3>3
    <2>10. d = LastIndexOf(text, ".")
        <3>1. d <= LastIndexOf(text, ".")
            BY <1>2, <2>4
        <3>2. text[LastIndexOf(text, ".")] = "."
            BY <1>0, <1>2, <3>1
        <3>3. LastIndexOf(text, ".") \notin d + 1 .. Len(text)
            BY <2>7, <3>2
        <3> QED
            BY <1>0, <1>2, <3>1, <3>3
    <2> QED
        BY <2>2, <2>9, <2>10
<1>4. ASSUME c = ColonOf(text), d = LastIndexOf(text, "."), c > 1, d > c + 1, d < Len(text)
      PROVE  CutAt(text, c, d)
    <2>1. text[c] = ":" /\ text[d] = "." /\ c < d
        BY <1>0, <1>2, <1>4
    <2>2. text = Rule(service, interface, method)
        BY <2>1, CutAndJoined
    <2>3. \A k \in 1 .. Len(text) : text[k] = ":" => k <= c
        BY <1>2, <1>4
    <2>4. \A k \in 1 .. Len(text) : text[k] = "." => k <= d
        BY <1>2, <1>4
    <2> HIDE DEF service, interface, method
    <2>5. service # <<>> /\ interface # <<>> /\ method # <<>>
        <3>1. Len(service) # 0 /\ Len(interface) # 0 /\ Len(method) # 0
            BY <1>0, <1>1, <1>4
        <3> QED
            BY <3>1, EmptySeq
    <2>6. \A i \in 1 .. Len(method) : method[i] # ":" /\ method[i] # "."
        <3> SUFFICES ASSUME NEW i \in 1 .. Len(text) - d
                     PROVE  text[d + i] # ":" /\ text[d + i] # "."
            BY <1>1
        <3>1. d + i \in 1 .. Len(text) /\ ~(d + i <= c) /\ ~(d + i <= d)
            BY <1>0, <2>1
        <3> QED
            BY <2>3, <2>4, <3>1
    <2>7. \A i \in 1 .. Len(interface) : interface[i] # ":"
        <3> SUFFICES ASSUME NEW i \in 1 .. Len(interface)
                     PROVE  interface[i] # ":"
            OBVIOUS
        <3>1. i \in 1 .. d - 1 - c
            BY <1>0, <1>1, <1>4
        <3>2. c + i \in 1 .. Len(text) /\ ~(c + i <= c)
            BY <1>0, <3>1
        <3> QED
            BY <1>1, <2>3, <3>1, <3>2
    <2>8. ":" \notin ToSet(interface) \cup ToSet(method) /\ "." \notin ToSet(method)
        BY <1>1, <2>6, <2>7 DEF ToSet
    <2> QED
        BY <2>2, <2>5, <2>8 DEF CutAt, service, interface, method
<1> QED
    BY <1>3, <1>4

\* A text that can be read is parsed, and to what it says.
LEMMA ParseFacts ==
    ASSUME NEW text \in Seq(RuleChars)
    PROVE  /\ ParsePattern(text) # NoPattern <=> Readable(text)
           /\ \A c, d \in 1 .. Len(text) : CutAt(text, c, d) =>
                ParsePattern(text) = [service   |-> SubSeq(text, 1, c - 1),
                                      interface |-> SubSeq(text, c + 1, d - 1),
                                      method    |-> SubSeq(text, d + 1, Len(text))]
<1> DEFINE colon == ColonOf(text)
           dot == LastIndexOf(text, ".")
           taken == [service   |-> SubSeq(text, 1, colon - 1),
                     interface |-> SubSeq(text, colon + 1, dot - 1),
                     method    |-> SubSeq(text, dot + 1, Len(text))]
<1>1. colon \in 0 .. Len(text) /\ dot \in 0 .. Len(text) /\ Len(text) \in Nat
    BY LastIndexFacts DEF ColonOf
<1>2. ParsePattern(text) = IF colon <= 1 \/ dot <= colon + 1 \/ dot = Len(text)
                           THEN NoPattern ELSE taken
    BY DEF ParsePattern
<1>3. ASSUME NEW c \in 1 .. Len(text), NEW d \in 1 .. Len(text), CutAt(text, c, d)
      PROVE  c = colon /\ d = dot /\ ParsePattern(text) = taken /\ ParsePattern(text) # NoPattern
    <2>1. c = colon /\ d = dot /\ c > 1 /\ d > c + 1 /\ d < Len(text)
        BY <1>3, CutFacts
    <2>2. ParsePattern(text) = taken
        BY <1>1, <1>2, <2>1
    <2>3. SubSeq(text, 1, colon - 1) # <<>>
        <3>1. \A i \in 1 .. colon - 1 : text[i] \in RuleChars
            BY <1>1
        <3>2. Len(SubSeq(text, 1, colon - 1)) = colon - 1 /\ colon - 1 # 0
            BY <1>1, <2>1, <3>1, SubSeqProperties
        <3> QED
            BY <3>2, EmptySeq
    <2>4. taken.service # NoPattern.service
        BY <2>3 DEF NoPattern
    <2> QED
        BY <2>1, <2>2, <2>4
<1>4. ASSUME ParsePattern(text) # NoPattern
      PROVE  Readable(text)
    <2>1. colon > 1 /\ dot > colon + 1 /\ dot < Len(text)
        BY <1>1, <1>2, <1>4
    <2>2. colon \in 1 .. Len(text) /\ dot \in 1 .. Len(text)
        BY <1>1, <2>1
    <2>3. CutAt(text, colon, dot)
        BY <2>1, <2>2, CutFacts
    <2> QED
        BY <2>2, <2>3 DEF Readable
<1> HIDE DEF colon, dot
<1> QED
    BY <1>3, <1>4 DEF Readable

\* The sound rule of the property is one.
LEMMA SoundIsReadable ==
    Sound \in Seq(RuleChars) /\ ParsePattern(Sound) # NoPattern
<1>1. /\ <<"x">> \in Seq(RuleChars) /\ Len(<<"x">>) = 1 /\ <<"x">>[1] = "x"
      /\ <<":">> \in Seq(RuleChars) /\ Len(<<":">>) = 1 /\ <<":">>[1] = ":"
      /\ <<".">> \in Seq(RuleChars) /\ Len(<<".">>) = 1 /\ <<".">>[1] = "."
    BY DEF RuleChars
<1>2. Sound \in Seq(RuleChars) /\ Len(Sound) = 5
    BY <1>1, Z3 DEF Sound, Rule
<1>3. Sound[1] = "x" /\ Sound[2] = ":" /\ Sound[3] = "x" /\ Sound[4] = "." /\ Sound[5] = "x"
    BY <1>1, Z3 DEF Sound, Rule
<1>4. \A k \in 1 .. Len(Sound) : (Sound[k] = ":" => k = 2) /\ (Sound[k] = "." => k = 4)
    BY <1>2, <1>3
<1>5. ColonOf(Sound) = 2 /\ LastIndexOf(Sound, ".") = 4
    <2>1. /\ \A k \in 1 .. Len(Sound) : Sound[k] = ":" => k <= ColonOf(Sound)
          /\ ColonOf(Sound) \in 0 .. Len(Sound)
          /\ ColonOf(Sound) # 0 => Sound[ColonOf(Sound)] = ":"
          /\ \A k \in 1 .. Len(Sound) : Sound[k] = "." => k <= LastIndexOf(Sound, ".")
          /\ LastIndexOf(Sound, ".") \in 0 .. Len(Sound)
          /\ LastIndexOf(Sound, ".") # 0 => Sound[LastIndexOf(Sound, ".")] = "."
        BY <1>2, LastIndexFacts DEF ColonOf
    <2> QED
        BY <1>2, <1>3, <1>4, <2>1
<1>6. CutAt(Sound, 2, 4)
    <2>1. 2 \in 1 .. Len(Sound) /\ 4 \in 1 .. Len(Sound) /\ 2 > 1 /\ 4 > 2 + 1 /\ 4 < Len(Sound)
        BY <1>2
    <2> QED
        BY <1>2, <1>5, <2>1, CutFacts
<1>7. Readable(Sound)
    BY <1>2, <1>6 DEF Readable
<1> QED
    BY <1>2, <1>7, ParseFacts

\* Where one rule of a list that is otherwise sound decides whether it is taken.
LEMMA ConfigureFacts ==
    ASSUME NEW text \in Seq(RuleChars), NEW policy, NEW options,
           policy = [deny |-> <<>>, allow |-> <<>>, defaultDeny |-> FALSE],
           \/ options = [deny |-> <<Sound, text>>, allow |-> <<Sound>>, defaultDeny |-> TRUE]
           \/ options = [deny |-> <<Sound>>, allow |-> <<text, Sound>>, defaultDeny |-> TRUE]
    PROVE  Configure(policy, options) # policy <=> Readable(text)
<1>1. /\ IsValid(<<Sound, text>>) <=> ParsePattern(text) # NoPattern
      /\ IsValid(<<text, Sound>>) <=> ParsePattern(text) # NoPattern
      /\ IsValid(<<Sound>>)
    BY SoundIsReadable DEF IsValid, ParseAll, ToSet
<1>2. IsValid(options.deny) /\ IsValid(options.allow) <=> Readable(text)
    <2>1. ParsePattern(text) # NoPattern <=> Readable(text)
        BY ParseFacts
    <2> QED
        BY <1>1, <2>1
<1>3. [options EXCEPT !.deny = ParseAll(@), !.allow = ParseAll(@)].defaultDeny = TRUE
    OBVIOUS
<1>4. [options EXCEPT !.deny = ParseAll(@), !.allow = ParseAll(@)] # policy
    BY <1>3
<1> QED
    BY <1>2, <1>4 DEF Configure

\* A rule is written with the characters of RuleChars.
LEMMA RuleTyped == Spec => [](rule \in Seq(RuleChars))
<1> DEFINE Typed == rule \in Seq(RuleChars)
<1>1. Init => Typed
    BY DEF Init
<1>2. Typed /\ [Next]_vars => Typed'
    BY DEF Next, WriteRule, WriteSignature, WriteDocument, vars
<1> QED
    BY <1>1, <1>2, PTL DEF Spec

\* The patterns of the policy are the rules as they were written, for rules of any
\* length: parsePattern() takes a text exactly when it reads as
\* SERVICE:INTERFACE.METHOD, cuts it where the two separators are, and configure()
\* puts no rule in force when one of them does not parse.
THEOREM RulesAreReadAsWritten == Spec => []RulesAsWritten
<1>1. ASSUME rule \in Seq(RuleChars), rule # <<>>
      PROVE  RulesAsWritten
    <2> DEFINE before == [deny |-> <<>>, allow |-> <<>>, defaultDeny |-> FALSE]
               first == [deny |-> <<Sound, rule>>, allow |-> <<Sound>>, defaultDeny |-> TRUE]
               second == [deny |-> <<Sound>>, allow |-> <<rule, Sound>>, defaultDeny |-> TRUE]
    <2>1. ParsePattern(rule) # NoPattern <=> Readable(rule)
        BY <1>1, ParseFacts
    <2>2. ASSUME NEW c \in 1 .. Len(rule), NEW d \in 1 .. Len(rule), CutAt(rule, c, d)
          PROVE  /\ Len(ParsePattern(rule).service) = c - 1
                 /\ Rule(ParsePattern(rule).service, ParsePattern(rule).interface,
                         ParsePattern(rule).method) = rule
                 /\ Len(ParsePattern(rule).method) = Len(rule) - d
        <3>1. ParsePattern(rule) = [service   |-> SubSeq(rule, 1, c - 1),
                                    interface |-> SubSeq(rule, c + 1, d - 1),
                                    method    |-> SubSeq(rule, d + 1, Len(rule))]
            BY <1>1, <2>2, ParseFacts
        <3>2. Rule(SubSeq(rule, 1, c - 1), SubSeq(rule, c + 1, d - 1),
                   SubSeq(rule, d + 1, Len(rule))) = rule
            BY <2>2 DEF CutAt
        <3>3. d < Len(rule)
            BY <1>1, <2>2, CutFacts
        <3>4. Len(SubSeq(rule, 1, c - 1)) = c - 1
                /\ Len(SubSeq(rule, d + 1, Len(rule))) = Len(rule) - d
            <4>1. /\ \A i \in 1 .. c - 1 : rule[i] \in RuleChars
                  /\ \A i \in d + 1 .. Len(rule) : rule[i] \in RuleChars
                BY <1>1
            <4> QED
                BY <1>1, <3>3, <4>1, SubSeqProperties
        <3> QED
            BY <3>1, <3>2, <3>4
    <2>3. /\ Configure(before, first) # before <=> Readable(rule)
          /\ Configure(before, second) # before <=> Readable(rule)
        BY <1>1, ConfigureFacts
    <2> HIDE DEF first, second
    <2>4. \A options \in {first, second} : Configure(before, options) # before <=> Readable(rule)
        BY <2>3
    <2> QED
        BY <2>1, <2>2, <2>4 DEF RulesAsWritten, first, second
<1>2. rule \in Seq(RuleChars) => RulesAsWritten
    BY <1>1 DEF RulesAsWritten
<1> QED
    BY <1>2, RuleTyped, PTL

-----------------------------------------------------------------------------
(* Introspection documents.                                                   *)

Labels ==
    {NoName} \cup InterfaceNames \cup MethodNames
        \cup {a.direction : a \in Args} \cup {a.type : a \in Args}
        \cup {p.name : p \in Properties} \cup {p.type : p \in Properties}

Tokens ==
    [edge : {"start", "end", "whole"},
     tag : {"node", "interface", "method", "signal", "arg", "property"},
     name : Labels, direction : Labels, type : Labels, in : Nat]

\* A token stands in one that came before it; only the outermost node does not.
DocumentOK ==
    /\ doc \in Seq(Tokens)
    /\ doc # <<>> => doc[1] = Root
    /\ \A n \in 2 .. Len(doc) : doc[n].in \in 1 .. n - 1

\* The nesting that is legal around a token, and which the depth counts.
OpenOK ==
    /\ open \in Seq(Nat)
    /\ \A j \in 1 .. Len(open) : open[j] \in 1 .. Len(doc) /\ doc[open[j]].edge = "start"
    /\ \A j, k \in 1 .. Len(open) : j < k => open[j] < open[k]
    /\ open # <<>> => open[1] = 1
    /\ \A j \in 2 .. Len(open) : doc[open[j]].in = open[j - 1]
    /\ scan.nodeDepth \in 0 .. Len(open)
    /\ Len(open) <= scan.nodeDepth + 2
    /\ open # <<>> => scan.nodeDepth > 0
    /\ \A j \in 1 .. Len(open) :
        /\ j <= scan.nodeDepth => doc[open[j]].tag = "node"
        /\ j = scan.nodeDepth + 1 => doc[open[j]].tag = "interface"
        /\ j = scan.nodeDepth + 2 => doc[open[j]].tag \in {"method", "signal"}

InnerInterface ==
    IF scan.nodeDepth = 1 /\ Len(open) >= 2 THEN doc[open[2]].name ELSE NoName

\* The declaration whose element is open.
InDeclaration == Len(open) = 3 /\ open[3] \in Declarations

Completed == IF InDeclaration THEN Declarations \ {open[3]} ELSE Declarations

Describes(candidate, n) ==
    /\ candidate.interface = InterfaceOf(n)
    /\ ListsTypes(candidate.inSignature, Inputs(n))

Candidates == [interface : Labels, inSignature : Seq(Labels)]

Scans ==
    [nodeDepth : Int, currentInterface : Labels, inMethod : BOOLEAN, current : Candidates,
     candidates : Seq(Candidates)]

\* The candidates are the declarations that were read completely.
CandidatesOK ==
    \E f \in [1 .. Len(scan.candidates) -> Completed] :
        /\ \A j, k \in 1 .. Len(scan.candidates) : f[j] = f[k] => j = k
        /\ \A n \in Completed : \E j \in 1 .. Len(scan.candidates) : f[j] = n
        /\ \A j \in 1 .. Len(scan.candidates) : Describes(scan.candidates[j], f[j])

MethodScanOK ==
    /\ scan \in Scans
    /\ scan.currentInterface = InnerInterface
    /\ scan.inMethod <=> InDeclaration
    /\ scan.inMethod => Describes(scan.current, open[3])
    /\ CandidatesOK

Lookups == [nodeDepth : Int, currentInterface : Labels, found : BOOLEAN, type : Labels]

PropertyScanOK ==
    /\ lookup \in Lookups
    /\ ~lookup.found =>
        /\ lookup.nodeDepth = scan.nodeDepth
        /\ lookup.currentInterface = scan.currentInterface
        /\ PropertyDeclarations = {}
        /\ lookup.type = NoName
    /\ lookup.found =>
        \E n \in PropertyDeclarations :
            /\ \A k \in PropertyDeclarations : n <= k
            /\ lookup.type = doc[n].type

DocInv == DocumentOK /\ OpenOK /\ MethodScanOK /\ PropertyScanOK

\* What may stand in an element.
LEMMA ContentFacts ==
    ASSUME NEW tag, tag # "node", tag # "interface"
    PROVE  Content(tag) =
                {[Token("whole", "arg", NoName) EXCEPT !.direction = a.direction, !.type = a.type] :
                    a \in Args}
    BY DEF Content

\* What the reader may hand out inside an element.
LEMMA FollowingFacts ==
    ASSUME DocumentOK, OpenOK, open # <<>>, NEW t \in Following
    PROVE  /\ Innermost \in 1 .. Len(doc) /\ doc[Innermost].edge = "start"
           /\ doc[Innermost].tag \in {"node", "interface", "method", "signal"}
           /\ t \in Tokens /\ t.in = Innermost
           /\ \/ /\ doc[Innermost].tag = "node" /\ t.edge = "start"
                 /\ t.tag \in {"node", "interface"}
              \/ /\ doc[Innermost].tag = "interface" /\ t.edge = "start"
                 /\ t.tag \in {"method", "signal"}
              \/ doc[Innermost].tag = "interface" /\ t.edge = "whole" /\ t.tag = "property"
              \/ /\ doc[Innermost].tag \in {"method", "signal"} /\ t.edge = "whole"
                 /\ t.tag = "arg" /\ t.direction \in {NoName, "in", "out"}
              \/ t.edge = "end" /\ t.tag = doc[Innermost].tag
<1>1. Innermost \in 1 .. Len(doc) /\ Len(open) \in 1 .. Len(open)
    BY EmptySeq DEF OpenOK, Innermost
<1>2. doc[Innermost].edge = "start" /\ doc[Innermost].tag \in {"node", "interface", "method", "signal"}
    <2>1. Len(open) <= scan.nodeDepth \/ Len(open) = scan.nodeDepth + 1 \/ Len(open) = scan.nodeDepth + 2
        <3>1. Len(open) \in Nat /\ scan.nodeDepth \in Nat /\ Len(open) <= scan.nodeDepth + 2
            BY DEF OpenOK
        <3> QED
            BY <3>1
    <2> QED
        BY <1>1, <2>1 DEF OpenOK, Innermost
<1>3. PICK u \in Content(doc[Innermost].tag) \cup {Token("end", doc[Innermost].tag, NoName)} :
            t = [u EXCEPT !.in = Innermost]
    BY DEF Following
<1>4. CASE u = Token("end", doc[Innermost].tag, NoName)
    <2>1. t = [edge |-> "end", tag |-> doc[Innermost].tag, name |-> NoName, direction |-> NoName,
               type |-> NoName, in |-> Innermost]
        BY <1>3, <1>4 DEF Token
    <2> QED
        BY <1>1, <1>2, <2>1 DEF Tokens, Labels
<1>5. CASE u \in Content(doc[Innermost].tag) /\ doc[Innermost].tag = "node"
    <2>1. u = Root \/ \E i \in InterfaceNames : u = Token("start", "interface", i)
        BY <1>5 DEF Content
    <2>2. \E name \in InterfaceNames \cup {NoName} : \E tag \in {"node", "interface"} :
            t = [edge |-> "start", tag |-> tag, name |-> name, direction |-> NoName,
                 type |-> NoName, in |-> Innermost]
        <3>1. CASE u = Root
            <4>1. t = [edge |-> "start", tag |-> "node", name |-> NoName, direction |-> NoName,
                       type |-> NoName, in |-> Innermost]
                BY <1>3, <3>1 DEF Token, Root
            <4> QED
                BY <4>1
        <3>2. CASE \E i \in InterfaceNames : u = Token("start", "interface", i)
            <4>1. \E i \in InterfaceNames :
                    t = [edge |-> "start", tag |-> "interface", name |-> i, direction |-> NoName,
                         type |-> NoName, in |-> Innermost]
                BY <1>3, <3>2 DEF Token
            <4> QED
                BY <4>1
        <3> QED
            BY <2>1, <3>1, <3>2
    <2> QED
        BY <1>1, <1>2, <1>5, <2>2 DEF Tokens, Labels
<1>6. CASE u \in Content(doc[Innermost].tag) /\ doc[Innermost].tag = "interface"
    <2>1. \/ \E m \in MethodNames : \E kind \in {"method", "signal"} : u = Token("start", kind, m)
          \/ \E p \in Properties : u = [Token("whole", "property", p.name) EXCEPT !.type = p.type]
        BY <1>6 DEF Content
    <2>2. CASE \E m \in MethodNames : \E kind \in {"method", "signal"} : u = Token("start", kind, m)
        <3>1. \E m \in MethodNames : \E kind \in {"method", "signal"} :
                t = [edge |-> "start", tag |-> kind, name |-> m, direction |-> NoName,
                     type |-> NoName, in |-> Innermost]
            BY <1>3, <2>2 DEF Token
        <3> QED
            BY <1>1, <1>2, <1>6, <3>1 DEF Tokens, Labels
    <2>3. CASE \E p \in Properties : u = [Token("whole", "property", p.name) EXCEPT !.type = p.type]
        <3>1. \E p \in Properties :
                t = [edge |-> "whole", tag |-> "property", name |-> p.name, direction |-> NoName,
                     type |-> p.type, in |-> Innermost]
            BY <1>3, <2>3 DEF Token
        <3> QED
            BY <1>1, <1>2, <1>6, <3>1 DEF Tokens, Labels
    <2> QED
        BY <2>1, <2>2, <2>3
<1>7. CASE u \in Content(doc[Innermost].tag) /\ doc[Innermost].tag \in {"method", "signal"}
    <2>1. \E a \in Args : u = [Token("whole", "arg", NoName)
                                EXCEPT !.direction = a.direction, !.type = a.type]
        <3>1. Content(doc[Innermost].tag) =
                {[Token("whole", "arg", NoName) EXCEPT !.direction = a.direction, !.type = a.type] :
                    a \in Args}
            BY <1>7, ContentFacts
        <3> QED
            BY <1>7, <3>1
    <2>2. \E a \in Args :
            t = [edge |-> "whole", tag |-> "arg", name |-> NoName, direction |-> a.direction,
                 type |-> a.type, in |-> Innermost]
        BY <1>3, <2>1 DEF Token
    <2>3. \A a \in Args : a.direction \in {NoName, "in", "out"}
        BY IntrospectionAssumption
    <2> QED
        BY <1>1, <1>2, <1>7, <2>2, <2>3 DEF Tokens, Labels
<1> QED
    BY <1>2, <1>3, <1>4, <1>5, <1>6, <1>7

\* One more token of a document.
LEMMA ReadFacts ==
    ASSUME DocumentOK, NEW t \in Tokens, Read(t), t.in \in 1 .. Len(doc)
    PROVE  /\ DocumentOK'
           /\ Len(doc') = Len(doc) + 1 /\ doc'[Len(doc) + 1] = t
           /\ \A n \in 1 .. Len(doc) : doc'[n] = doc[n]
           /\ Len(doc) \in Nat /\ Len(doc) > 0
<1>1. /\ doc' = Append(doc, t) /\ doc' \in Seq(Tokens) /\ Len(doc) \in Nat /\ Len(doc) > 0
      /\ Len(doc') = Len(doc) + 1 /\ doc'[Len(doc) + 1] = t
      /\ \A n \in 1 .. Len(doc) : doc'[n] = doc[n]
    BY AppendProperties DEF DocumentOK, Read
<1>2. doc # <<>> /\ doc'[1] = Root
    BY <1>1, EmptySeq DEF DocumentOK
<1>3. \A n \in 2 .. Len(doc') : doc'[n].in \in 1 .. n - 1
    <2> SUFFICES ASSUME NEW n \in 2 .. Len(doc') PROVE doc'[n].in \in 1 .. n - 1
        OBVIOUS
    <2>1. CASE n = Len(doc) + 1
        BY <1>1, <2>1
    <2>2. CASE n # Len(doc) + 1
        <3>1. n \in 2 .. Len(doc) /\ n \in 1 .. Len(doc)
            BY <1>1, <2>2
        <3> QED
            BY <1>1, <3>1 DEF DocumentOK
    <2> QED
        BY <2>1, <2>2
<1> QED
    BY <1>1, <1>2, <1>3 DEF DocumentOK

\* A declaration that starts with t.
Declares(t) ==
    /\ t.tag = "method" /\ t.edge = "start" /\ t.name = asked.method
    /\ doc[t.in].tag = "interface" /\ doc[t.in].in = 1
    /\ asked.interface \in {NoName, doc[t.in].name}

DeclaresProperty(t) ==
    /\ t.tag = "property" /\ t.name = asked.property
    /\ doc[t.in].tag = "interface" /\ doc[t.in].in = 1
    /\ doc[t.in].name = asked.interface

\* What one more token adds to what is declared; nothing that was is changed.
LEMMA GrowthFacts ==
    ASSUME DocumentOK, NEW t \in Tokens, Read(t), t.in \in 1 .. Len(doc), asked' = asked,
           NEW m, m = Len(doc) + 1
    PROVE  /\ Declarations \subseteq 2 .. Len(doc)
           /\ PropertyDeclarations \subseteq 2 .. Len(doc)
           /\ Declarations' = Declarations \cup (IF Declares(t) THEN {m} ELSE {})
           /\ PropertyDeclarations' =
                PropertyDeclarations \cup (IF DeclaresProperty(t) THEN {m} ELSE {})
           /\ \A n \in 2 .. Len(doc) : InterfaceOf(n)' = InterfaceOf(n)
           /\ InterfaceOf(m)' = doc[t.in].name
           /\ \A n \in 1 .. m :
                Inputs(n)' = Inputs(n) \cup
                    (IF t.tag = "arg" /\ t.in = n /\ t.direction # "out"
                     THEN {m} ELSE {})
<1>1. /\ DocumentOK'
      /\ Len(doc') = Len(doc) + 1 /\ doc'[m] = t
      /\ \A n \in 1 .. Len(doc) : doc'[n] = doc[n]
      /\ Len(doc) \in Nat /\ Len(doc) > 0
    BY ReadFacts
<1>2. doc[1].tag = "node"
    BY <1>1, EmptySeq DEF DocumentOK, Root, Token
<1>3. \A n \in 2 .. Len(doc) : doc[n].in \in 1 .. Len(doc) /\ n \in 1 .. Len(doc)
    BY <1>1 DEF DocumentOK
<1>4. \A n \in 2 .. Len(doc) : doc'[n] = doc[n] /\ doc'[doc'[n].in] = doc[doc[n].in]
    BY <1>1, <1>3
<1>5. doc'[doc'[m].in] = doc[t.in]
    BY <1>1
<1>6. 1 .. Len(doc') = {1} \cup 2 .. Len(doc) \cup {m} /\ doc'[1].tag = "node"
        /\ 1 .. Len(doc) = {1} \cup 2 .. Len(doc)
    BY <1>1, <1>2
<1>7. /\ \A n \in 2 .. Len(doc) : InOwnInterface(n)' = InOwnInterface(n)
                                    /\ InterfaceOf(n)' = InterfaceOf(n)
      /\ InOwnInterface(m)' = (doc[t.in].tag = "interface" /\ doc[t.in].in = 1)
      /\ InterfaceOf(m)' = doc[t.in].name
    BY <1>4, <1>5 DEF InOwnInterface, InterfaceOf
<1>8. Declarations \subseteq 2 .. Len(doc) /\ PropertyDeclarations \subseteq 2 .. Len(doc)
    BY <1>2, <1>6 DEF Declarations, PropertyDeclarations
<1>9. Declarations' = Declarations \cup (IF Declares(t) THEN {m} ELSE {})
    <2>1. \A n \in 2 .. Len(doc) : n \in Declarations' <=> n \in Declarations
        BY <1>1, <1>4, <1>6, <1>7 DEF Declarations
    <2>2. m \in Declarations' <=> Declares(t)
        <3>1. m \in 1 .. Len(doc')
            BY <1>1
        <3>2. doc'[m] = t /\ InOwnInterface(m)' = (doc[t.in].tag = "interface" /\ doc[t.in].in = 1)
                /\ InterfaceOf(m)' = doc[t.in].name
            BY <1>1, <1>7
        <3> QED
            BY <3>1, <3>2 DEF Declarations, Declares
    <2>3. 1 \notin Declarations' /\ Declarations' \subseteq 1 .. Len(doc')
        BY <1>6 DEF Declarations
    <2>4. m \notin 2 .. Len(doc)
        BY <1>1
    <2> QED
        BY <1>6, <1>8, <2>1, <2>2, <2>3, <2>4
<1>10. PropertyDeclarations' =
            PropertyDeclarations \cup (IF DeclaresProperty(t) THEN {m} ELSE {})
    <2>1. \A n \in 2 .. Len(doc) : n \in PropertyDeclarations' <=> n \in PropertyDeclarations
        BY <1>1, <1>4, <1>6, <1>7 DEF PropertyDeclarations
    <2>2. m \in PropertyDeclarations' <=> DeclaresProperty(t)
        <3>1. m \in 1 .. Len(doc')
            BY <1>1
        <3>2. doc'[m] = t /\ InOwnInterface(m)' = (doc[t.in].tag = "interface" /\ doc[t.in].in = 1)
                /\ InterfaceOf(m)' = doc[t.in].name
            BY <1>1, <1>7
        <3> QED
            BY <3>1, <3>2 DEF PropertyDeclarations, DeclaresProperty
    <2>3. 1 \notin PropertyDeclarations' /\ PropertyDeclarations' \subseteq 1 .. Len(doc')
        BY <1>6 DEF PropertyDeclarations
    <2>4. m \notin 2 .. Len(doc)
        BY <1>1
    <2> QED
        BY <1>6, <1>8, <2>1, <2>2, <2>3, <2>4
<1>11. \A n \in 1 .. m :
            Inputs(n)' = Inputs(n) \cup
                (IF t.tag = "arg" /\ t.in = n /\ t.direction # "out" THEN {m} ELSE {})
    BY <1>1, <1>6 DEF Inputs
<1> QED
    BY <1>7, <1>8, <1>9, <1>10, <1>11

\* How many elements are open says what the innermost one is.
LEMMA LevelFacts ==
    ASSUME DocumentOK, OpenOK, open # <<>>
    PROVE  /\ scan.nodeDepth \in Nat /\ scan.nodeDepth > 0 /\ Len(open) \in Nat /\ Len(open) > 0
           /\ Len(open) \in scan.nodeDepth .. scan.nodeDepth + 2
           /\ doc[Innermost].tag = "node" => Len(open) = scan.nodeDepth
           /\ doc[Innermost].tag = "interface" => Len(open) = scan.nodeDepth + 1
           /\ doc[Innermost].tag \in {"method", "signal"} => Len(open) = scan.nodeDepth + 2
           /\ Innermost \in 1 .. Len(doc) /\ open[1] = 1
           /\ scan.nodeDepth > 1 => open[scan.nodeDepth] # 1
           /\ Innermost = open[Len(open)]
           /\ Len(open) = scan.nodeDepth + 1 => doc[Innermost].in = open[scan.nodeDepth]
<1>1. Len(open) \in Nat /\ Len(open) > 0 /\ scan.nodeDepth \in Nat /\ scan.nodeDepth > 0
        /\ scan.nodeDepth <= Len(open) /\ Len(open) <= scan.nodeDepth + 2
    BY EmptySeq DEF OpenOK
<1>2. Len(open) = scan.nodeDepth \/ Len(open) = scan.nodeDepth + 1 \/ Len(open) = scan.nodeDepth + 2
    BY <1>1
<1>3. /\ Len(open) = scan.nodeDepth => doc[Innermost].tag = "node"
      /\ Len(open) = scan.nodeDepth + 1 => doc[Innermost].tag = "interface"
      /\ Len(open) = scan.nodeDepth + 2 => doc[Innermost].tag \in {"method", "signal"}
    BY <1>1 DEF OpenOK, Innermost
<1>4. open[1] = 1 /\ Innermost \in 1 .. Len(doc) /\ Innermost = open[Len(open)]
    BY <1>1 DEF OpenOK, Innermost
<1>5. scan.nodeDepth > 1 => open[scan.nodeDepth] # 1
    <2> SUFFICES ASSUME scan.nodeDepth > 1 PROVE open[scan.nodeDepth] # 1
        OBVIOUS
    <2>1. 1 \in 1 .. Len(open) /\ scan.nodeDepth \in 1 .. Len(open)
        BY <1>1
    <2>2. open[1] < open[scan.nodeDepth] /\ open[scan.nodeDepth] \in Nat
        BY <2>1 DEF OpenOK
    <2> QED
        BY <1>4, <2>2
<1>6. Len(open) = scan.nodeDepth + 1 => doc[Innermost].in = open[scan.nodeDepth]
    <2> SUFFICES ASSUME Len(open) = scan.nodeDepth + 1
                 PROVE  doc[Innermost].in = open[scan.nodeDepth]
        OBVIOUS
    <2>1. Len(open) \in 2 .. Len(open) /\ Len(open) - 1 = scan.nodeDepth
        BY <1>1
    <2>2. doc[open[Len(open)]].in = open[Len(open) - 1]
        BY <2>1 DEF OpenOK
    <2> QED
        BY <2>1, <2>2 DEF Innermost
<1> QED
    BY <1>1, <1>2, <1>3, <1>4, <1>5, <1>6

\* A declaration can only be open as the third element.
LEMMA OpenDeclaration ==
    ASSUME DocumentOK, OpenOK, NEW j \in 1 .. Len(open), open[j] \in Declarations
    PROVE  j = 3 /\ Len(open) = 3 /\ scan.nodeDepth = 1
<1>1. open # <<>>
    BY EmptySeq
<1>2. /\ scan.nodeDepth \in Nat /\ scan.nodeDepth > 0 /\ Len(open) \in Nat /\ j \in Nat
      /\ Len(open) \in scan.nodeDepth .. scan.nodeDepth + 2
      /\ scan.nodeDepth > 1 => open[scan.nodeDepth] # 1
    BY <1>1, LevelFacts
<1>3. /\ doc[open[j]].tag = "method"
      /\ doc[doc[open[j]].in].tag = "interface" /\ doc[doc[open[j]].in].in = 1
    BY DEF Declarations, InOwnInterface
<1>4. j = scan.nodeDepth + 2
    <2>1. ~(j <= scan.nodeDepth) /\ j # scan.nodeDepth + 1
        BY <1>3 DEF OpenOK
    <2> QED
        BY <1>2, <2>1
<1>5. doc[doc[open[j]].in].in = open[scan.nodeDepth]
    <2>1. /\ j \in 2 .. Len(open) /\ j - 1 \in 2 .. Len(open)
          /\ j - 1 = scan.nodeDepth + 1 /\ j - 1 - 1 = scan.nodeDepth
        <3>1. PICK d \in Nat : d = scan.nodeDepth
            BY <1>2
        <3>2. PICK n \in Nat : n = Len(open)
            BY <1>2
        <3>3. d > 0 /\ j = d + 2 /\ j <= n
            BY <1>2, <1>4, <3>1, <3>2
        <3>4. j \in 2 .. n /\ j - 1 \in 2 .. n /\ j - 1 = d + 1 /\ j - 1 - 1 = d
            BY <3>3
        <3> QED
            BY <3>1, <3>2, <3>4
    <2>2. doc[open[j]].in = open[j - 1] /\ doc[open[j - 1]].in = open[j - 1 - 1]
        BY <2>1 DEF OpenOK
    <2> QED
        BY <2>1, <2>2
<1> QED
    <2>1. PICK d \in Nat : d = scan.nodeDepth
        BY <1>2
    <2>2. d > 0 /\ ~(d > 1)
        BY <1>2, <1>3, <1>5, <2>1
    <2>3. d = 1 /\ j = 3
        BY <1>4, <2>1, <2>2
    <2>4. PICK n \in Nat : n = Len(open)
        BY <1>2
    <2>5. 3 <= n
        BY <2>3, <2>4
    <2>6. n \in 1 .. 1 + 2
        BY <1>2, <2>1, <2>3, <2>4
    <2>7. n = 3
        BY <2>5, <2>6
    <2> QED
        BY <2>1, <2>3, <2>4, <2>7

\* A token is read inside an element.
Reads(t) ==
    /\ DocInv /\ open # <<>> /\ t \in Following /\ Read(t)
    /\ scan' = ScanMethodToken(scan, t) /\ lookup' = ScanPropertyToken(lookup, t)
    /\ asked' = asked


\* What each step of the scan changes.
LEMMA ScanNodeFields ==
    ASSUME NEW s \in Scans, NEW t, NEW r, r = ScanNode(s, t)
    PROVE  /\ r \in Scans
           /\ t.edge = "start" => r.nodeDepth = s.nodeDepth + 1
           /\ t.edge # "start" => r.nodeDepth = s.nodeDepth - 1
           /\ r.currentInterface = s.currentInterface
           /\ r.inMethod = s.inMethod /\ r.current = s.current /\ r.candidates = s.candidates
    BY DEF ScanNode, Scans

\* What the start or the end of an interface leaves alone.
LEMMA ScanInterfaceFields ==
    ASSUME NEW s \in Scans, NEW t, t.name \in Labels, NEW r, r = ScanInterface(s, t)
    PROVE  /\ r \in Scans
           /\ t.edge = "start" => r.currentInterface = t.name
           /\ t.edge # "start" => r.currentInterface = NoName
           /\ r.nodeDepth = s.nodeDepth
           /\ r.inMethod = s.inMethod /\ r.current = s.current /\ r.candidates = s.candidates
<1>1. NoName \in Labels
    BY DEF Labels
<1> QED
    BY <1>1 DEF ScanInterface, Scans

\* What the start of a method leaves alone.
LEMMA StartMethodFields ==
    ASSUME NEW s \in Scans, NEW r, r = StartMethod(s)
    PROVE  /\ r \in Scans
           /\ r.inMethod = TRUE
           /\ r.current = [interface |-> s.currentInterface, inSignature |-> <<>>]
           /\ r.nodeDepth = s.nodeDepth /\ r.currentInterface = s.currentInterface
           /\ r.candidates = s.candidates
<1>1. [interface |-> s.currentInterface, inSignature |-> <<>>] \in Candidates
    BY EmptySeq DEF Candidates, Scans
<1> QED
    BY <1>1 DEF StartMethod, Scans

\* What the end of a method leaves alone.
LEMMA EndMethodFields ==
    ASSUME NEW s \in Scans, NEW r, r = EndMethod(s)
    PROVE  /\ r \in Scans
           /\ r.inMethod = FALSE
           /\ r.candidates = Append(s.candidates, s.current)
           /\ r.nodeDepth = s.nodeDepth /\ r.currentInterface = s.currentInterface
           /\ r.current = s.current
<1>1. s.current \in Candidates /\ Append(s.candidates, s.current) \in Seq(Candidates)
    BY AppendProperties DEF Scans
<1> QED
    BY <1>1 DEF EndMethod, Scans

\* What an argument leaves alone.
LEMMA ScanArgFields ==
    ASSUME NEW s \in Scans, NEW t, t.type \in Labels, NEW r, r = ScanArg(s, t)
    PROVE  /\ r \in Scans
           /\ r.current.interface = s.current.interface
           /\ r.current.inSignature = Append(s.current.inSignature, t.type)
           /\ r.nodeDepth = s.nodeDepth /\ r.currentInterface = s.currentInterface
           /\ r.inMethod = s.inMethod /\ r.candidates = s.candidates
<1>1. s.current \in Candidates /\ Append(s.current.inSignature, t.type) \in Seq(Labels)
    BY AppendProperties DEF Scans, Candidates
<1> DEFINE c == [s.current EXCEPT !.inSignature = Append(@, t.type)]
<1>2. /\ c \in Candidates
      /\ c.interface = s.current.interface
      /\ c.inSignature = Append(s.current.inSignature, t.type)
    BY <1>1 DEF Candidates
<1>3. r = [s EXCEPT !.current = c]
    BY DEF ScanArg, Scans
<1> HIDE DEF c
<1> QED
    BY <1>2, <1>3 DEF Scans

\* What is described stays described as long as no argument is added to it.
LEMMA DescribesKept ==
    ASSUME DocumentOK, NEW t \in Tokens, Read(t), t.in \in 1 .. Len(doc), asked' = asked,
           NEW c, NEW n \in Declarations,
           ~(t.tag = "arg" /\ t.in = n /\ t.direction # "out"), Describes(c, n)
    PROVE  Describes(c, n)'
<1>1. PICK m : m = Len(doc) + 1
    OBVIOUS
<1>2. /\ \A k \in 1 .. Len(doc) : doc'[k] = doc[k]
      /\ Len(doc) \in Nat
    BY ReadFacts
<1>3. n \in 2 .. Len(doc) /\ n \in 1 .. m /\ InterfaceOf(n)' = InterfaceOf(n)
        /\ Inputs(n)' = Inputs(n)
    <2>1. Declarations \subseteq 2 .. Len(doc)
        BY <1>1, GrowthFacts
    <2>2. n \in 2 .. Len(doc) /\ n \in 1 .. m
        BY <1>1, <1>2, <2>1
    <2>3. /\ \A k \in 2 .. Len(doc) : InterfaceOf(k)' = InterfaceOf(k)
          /\ \A k \in 1 .. m :
                Inputs(k)' = Inputs(k) \cup
                    (IF t.tag = "arg" /\ t.in = k /\ t.direction # "out" THEN {m} ELSE {})
        BY <1>1, GrowthFacts
    <2>4. Inputs(n)' = Inputs(n) \cup {}
        BY <2>2, <2>3
    <2> QED
        BY <2>2, <2>3, <2>4
<1>4. Inputs(n) \subseteq 1 .. Len(doc)
    BY DEF Inputs
<1>5. PICK p \in [1 .. Len(c.inSignature) -> Inputs(n)] :
        /\ \A j, k \in 1 .. Len(c.inSignature) : j < k => p[j] < p[k]
        /\ \A i \in Inputs(n) : \E k \in 1 .. Len(c.inSignature) : p[k] = i
        /\ \A k \in 1 .. Len(c.inSignature) : c.inSignature[k] = doc[p[k]].type
    BY DEF Describes, ListsTypes
<1>6. \A k \in 1 .. Len(c.inSignature) : doc'[p[k]] = doc[p[k]]
    BY <1>2, <1>4, <1>5
<1>7. ListsTypes(c.inSignature, Inputs(n))'
    BY <1>3, <1>5, <1>6 DEF ListsTypes
<1> QED
    BY <1>3, <1>7 DEF Describes

\* An argument that is read is added to what describes its method.
LEMMA DescribesMore ==
    ASSUME DocumentOK, NEW t \in Tokens, Read(t), t.in \in 1 .. Len(doc), asked' = asked,
           NEW c \in Candidates, NEW n \in Declarations,
           t.tag = "arg", t.in = n, t.direction # "out", Describes(c, n),
           NEW d \in Candidates, d.interface = c.interface,
           d.inSignature = Append(c.inSignature, t.type)
    PROVE  Describes(d, n)'
<1>1. PICK m : m = Len(doc) + 1
    OBVIOUS
<1>2. /\ \A k \in 1 .. Len(doc) : doc'[k] = doc[k]
      /\ Len(doc) \in Nat /\ doc'[m] = t
    BY <1>1, ReadFacts
<1>3. n \in 2 .. Len(doc) /\ n \in 1 .. m /\ InterfaceOf(n)' = InterfaceOf(n)
        /\ Inputs(n)' = Inputs(n) \cup {m}
    BY <1>1, <1>2, GrowthFacts
<1>4. Inputs(n) \subseteq 1 .. Len(doc)
    BY DEF Inputs
<1>5. PICK p \in [1 .. Len(c.inSignature) -> Inputs(n)] :
        /\ \A j, k \in 1 .. Len(c.inSignature) : j < k => p[j] < p[k]
        /\ \A i \in Inputs(n) : \E k \in 1 .. Len(c.inSignature) : p[k] = i
        /\ \A k \in 1 .. Len(c.inSignature) : c.inSignature[k] = doc[p[k]].type
    BY DEF Describes, ListsTypes
<1>6. PICK l \in Nat : l = Len(c.inSignature)
    BY DEF Candidates
<1>7. /\ Len(d.inSignature) = l + 1 /\ d.inSignature[l + 1] = t.type
      /\ \A k \in 1 .. l : d.inSignature[k] = c.inSignature[k]
    <2>1. c.inSignature \in Seq(Labels) /\ t.type \in Labels
        BY DEF Candidates, Tokens
    <2> QED
        BY <1>6, <2>1, AppendProperties
<1> DEFINE q == [k \in 1 .. l + 1 |-> IF k = l + 1 THEN m ELSE p[k]]
<1>8. /\ q \in [1 .. l + 1 -> Inputs(n) \cup {m}]
      /\ q[l + 1] = m /\ \A k \in 1 .. l : q[k] = p[k]
    BY <1>5, <1>6
<1> HIDE DEF q
<1>9. \A j, k \in 1 .. l + 1 : j < k => q[j] < q[k]
    <2> SUFFICES ASSUME NEW j \in 1 .. l + 1, NEW k \in 1 .. l + 1, j < k
                 PROVE  q[j] < q[k]
        OBVIOUS
    <2>1. j \in 1 .. l /\ q[j] = p[j] /\ p[j] \in 1 .. Len(doc)
        BY <1>4, <1>5, <1>6, <1>8
    <2>2. CASE k = l + 1
        BY <1>1, <1>2, <1>8, <2>1, <2>2
    <2>3. CASE k # l + 1
        BY <1>5, <1>6, <1>8, <2>1, <2>3
    <2> QED
        BY <2>2, <2>3
<1>10. \A i \in Inputs(n) \cup {m} : \E k \in 1 .. l + 1 : q[k] = i
    <2> SUFFICES ASSUME NEW i \in Inputs(n) \cup {m}
                 PROVE  \E k \in 1 .. l + 1 : q[k] = i
        OBVIOUS
    <2>1. CASE i = m
        BY <1>8, <2>1
    <2>2. CASE i \in Inputs(n)
        BY <1>5, <1>6, <1>8, <2>2
    <2> QED
        BY <2>1, <2>2
<1>11. \A k \in 1 .. l + 1 : d.inSignature[k] = doc'[q[k]].type
    <2> SUFFICES ASSUME NEW k \in 1 .. l + 1
                 PROVE  d.inSignature[k] = doc'[q[k]].type
        OBVIOUS
    <2>1. CASE k = l + 1
        BY <1>2, <1>7, <1>8, <2>1
    <2>2. CASE k # l + 1
        <3>1. k \in 1 .. l /\ p[k] \in 1 .. Len(doc)
            BY <1>4, <1>5, <1>6, <2>2
        <3> QED
            BY <1>2, <1>5, <1>6, <1>7, <1>8, <3>1
    <2> QED
        BY <2>1, <2>2
<1>12. ListsTypes(d.inSignature, Inputs(n))'
    <2>1. Len(d.inSignature) = l + 1 /\ Inputs(n)' = Inputs(n) \cup {m}
        BY <1>3, <1>7
    <2> QED
        BY <1>8, <1>9, <1>10, <1>11, <2>1 DEF ListsTypes
<1> QED
    BY <1>3, <1>12 DEF Describes

\* The nesting after a token.
LEMMA NestingStep ==
    ASSUME NEW t, Reads(t),
           t.tag # "node" => scan'.nodeDepth = scan.nodeDepth,
           t.tag = "node" /\ t.edge = "start" => scan'.nodeDepth = scan.nodeDepth + 1,
           t.tag = "node" /\ t.edge = "end" => scan'.nodeDepth = scan.nodeDepth - 1
    PROVE  /\ OpenOK'
           /\ t.edge = "start" =>
                /\ Len(open') = Len(open) + 1 /\ open'[Len(open) + 1] = Len(doc) + 1
                /\ \A j \in 1 .. Len(open) : open'[j] = open[j]
           /\ t.edge = "whole" => open' = open
           /\ t.edge = "end" =>
                /\ Len(open') = Len(open) - 1
                /\ \A j \in 1 .. Len(open) - 1 : open'[j] = open[j]
<1>1. DocumentOK /\ OpenOK /\ open # <<>> /\ Read(t) /\ t \in Following
    BY DEF Reads, DocInv
<1>2. /\ t \in Tokens /\ t.in = Innermost /\ t.in \in 1 .. Len(doc)
      /\ \/ /\ doc[Innermost].tag = "node" /\ t.edge = "start"
            /\ t.tag \in {"node", "interface"}
         \/ /\ doc[Innermost].tag = "interface" /\ t.edge = "start"
            /\ t.tag \in {"method", "signal"}
         \/ doc[Innermost].tag = "interface" /\ t.edge = "whole" /\ t.tag = "property"
         \/ /\ doc[Innermost].tag \in {"method", "signal"} /\ t.edge = "whole"
            /\ t.tag = "arg"
         \/ t.edge = "end" /\ t.tag = doc[Innermost].tag
    BY <1>1, FollowingFacts
<1>3. PICK n \in Nat, l \in Nat, d \in Nat : n = Len(doc) /\ l = Len(open) /\ d = scan.nodeDepth
    BY <1>1, LevelFacts DEF DocumentOK
<1>4. /\ d > 0 /\ l > 0 /\ d <= l /\ l <= d + 2 /\ n > 0
      /\ doc[Innermost].tag = "node" => l = d
      /\ doc[Innermost].tag = "interface" => l = d + 1
      /\ doc[Innermost].tag \in {"method", "signal"} => l = d + 2
      /\ Innermost = open[l] /\ open[1] = 1
    BY <1>1, <1>3, LevelFacts
<1>5. /\ Len(doc') = n + 1 /\ doc'[n + 1] = t
      /\ \A k \in 1 .. n : doc'[k] = doc[k]
    BY <1>1, <1>2, <1>3, ReadFacts
<1>6. /\ open \in Seq(Nat)
      /\ \A j \in 1 .. l : open[j] \in 1 .. n /\ doc[open[j]].edge = "start"
      /\ \A j, k \in 1 .. l : j < k => open[j] < open[k]
      /\ \A j \in 2 .. l : doc[open[j]].in = open[j - 1]
      /\ \A j \in 1 .. l :
            /\ j <= d => doc[open[j]].tag = "node"
            /\ j = d + 1 => doc[open[j]].tag = "interface"
            /\ j = d + 2 => doc[open[j]].tag \in {"method", "signal"}
    BY <1>1, <1>3 DEF OpenOK
<1>7. CASE t.edge = "start"
    <2>1. open' = Append(open, n + 1)
        BY <1>1, <1>3, <1>7 DEF Read
    <2>2. /\ open' \in Seq(Nat) /\ Len(open') = l + 1 /\ open'[l + 1] = n + 1
          /\ \A j \in 1 .. l : open'[j] = open[j]
        BY <1>3, <1>6, <2>1, AppendProperties
    <2>3. PICK e \in Nat : e = scan'.nodeDepth /\ e = (IF t.tag = "node" THEN d + 1 ELSE d)
        BY <1>3, <1>7
    <2>4. /\ t.tag = "node" => l = d
          /\ t.tag = "interface" => l = d
          /\ t.tag \in {"method", "signal"} => l = d + 1
          /\ t.tag \in {"node", "interface", "method", "signal"}
        BY <1>2, <1>4, <1>7
    <2>5. \A j \in 1 .. l + 1 : open'[j] \in 1 .. n + 1 /\ doc'[open'[j]].edge = "start"
        <3> SUFFICES ASSUME NEW j \in 1 .. l + 1
                     PROVE  open'[j] \in 1 .. n + 1 /\ doc'[open'[j]].edge = "start"
            OBVIOUS
        <3>1. CASE j = l + 1
            BY <1>5, <1>7, <2>2, <3>1
        <3>2. CASE j # l + 1
            <4>1. j \in 1 .. l /\ open'[j] = open[j] /\ open[j] \in 1 .. n
                BY <1>6, <2>2, <3>2
            <4> QED
                BY <1>5, <1>6, <4>1
        <3> QED
            BY <3>1, <3>2
    <2>6. \A j, k \in 1 .. l + 1 : j < k => open'[j] < open'[k]
        <3> SUFFICES ASSUME NEW j \in 1 .. l + 1, NEW k \in 1 .. l + 1, j < k
                     PROVE  open'[j] < open'[k]
            OBVIOUS
        <3>1. j \in 1 .. l /\ open'[j] = open[j] /\ open[j] \in 1 .. n
            BY <1>6, <2>2
        <3>2. CASE k = l + 1
            BY <2>2, <3>1, <3>2
        <3>3. CASE k # l + 1
            <4>1. k \in 1 .. l /\ open'[k] = open[k]
                BY <2>2, <3>3
            <4> QED
                BY <1>6, <3>1, <4>1
        <3> QED
            BY <3>2, <3>3
    <2>7. \A j \in 2 .. l + 1 : doc'[open'[j]].in = open'[j - 1]
        <3> SUFFICES ASSUME NEW j \in 2 .. l + 1
                     PROVE  doc'[open'[j]].in = open'[j - 1]
            OBVIOUS
        <3>1. j - 1 \in 1 .. l /\ open'[j - 1] = open[j - 1]
            BY <2>2
        <3>2. CASE j = l + 1
            <4>1. j - 1 = l
                BY <3>2
            <4> QED
                BY <1>2, <1>4, <1>5, <2>2, <3>1, <3>2, <4>1
        <3>3. CASE j # l + 1
            <4>1. j \in 2 .. l /\ j \in 1 .. l /\ open'[j] = open[j] /\ open[j] \in 1 .. n
                BY <1>6, <2>2, <3>3
            <4>2. doc'[open'[j]] = doc[open[j]]
                BY <1>5, <4>1
            <4> QED
                BY <1>6, <3>1, <4>1, <4>2
        <3> QED
            BY <3>2, <3>3
    <2>8. /\ e \in 0 .. l + 1 /\ l + 1 <= e + 2 /\ e > 0
          /\ \A j \in 1 .. l + 1 :
                /\ j <= e => doc'[open'[j]].tag = "node"
                /\ j = e + 1 => doc'[open'[j]].tag = "interface"
                /\ j = e + 2 => doc'[open'[j]].tag \in {"method", "signal"}
        <3>1. e \in 0 .. l + 1 /\ l + 1 <= e + 2 /\ e > 0
            BY <1>4, <2>3, <2>4
        <3>2. ASSUME NEW j \in 1 .. l + 1
              PROVE  /\ j <= e => doc'[open'[j]].tag = "node"
                     /\ j = e + 1 => doc'[open'[j]].tag = "interface"
                     /\ j = e + 2 => doc'[open'[j]].tag \in {"method", "signal"}
            <4>1. CASE j = l + 1
                <5>1. doc'[open'[j]] = t
                    BY <1>5, <2>2, <4>1
                <5> QED
                    BY <1>4, <2>3, <2>4, <4>1, <5>1
            <4>2. CASE j # l + 1
                <5>1. j \in 1 .. l /\ doc'[open'[j]] = doc[open[j]]
                    BY <1>5, <1>6, <2>2, <4>2
                <5>2. CASE t.tag = "node"
                    <6>1. e = d + 1 /\ l = d /\ j <= d
                        BY <2>3, <2>4, <5>1, <5>2
                    <6> QED
                        BY <1>6, <5>1, <6>1
                <5>3. CASE t.tag # "node"
                    <6>1. e = d
                        BY <2>3, <5>3
                    <6> QED
                        BY <1>6, <5>1, <6>1
                <5> QED
                    BY <5>2, <5>3
            <4> QED
                BY <4>1, <4>2
        <3> QED
            BY <3>1, <3>2
    <2>9. open'[1] = 1
        BY <1>4, <2>2
    <2>10. OpenOK'
        BY <1>5, <2>2, <2>3, <2>5, <2>6, <2>7, <2>8, <2>9 DEF OpenOK
    <2> QED
        BY <1>3, <1>7, <2>2, <2>10
<1>8. CASE t.edge = "whole"
    <2>1. open' = open /\ scan'.nodeDepth = scan.nodeDepth
        BY <1>1, <1>2, <1>8 DEF Read
    <2>2. \A j \in 1 .. l : open[j] \in 1 .. n + 1 /\ doc'[open[j]] = doc[open[j]]
        BY <1>5, <1>6
    <2>3. OpenOK'
        <3>1. /\ open' \in Seq(Nat)
              /\ \A j \in 1 .. l : open[j] \in 1 .. n + 1 /\ doc'[open[j]].edge = "start"
              /\ \A j \in 2 .. l : doc'[open[j]].in = open[j - 1]
              /\ \A j \in 1 .. l :
                    /\ j <= d => doc'[open[j]].tag = "node"
                    /\ j = d + 1 => doc'[open[j]].tag = "interface"
                    /\ j = d + 2 => doc'[open[j]].tag \in {"method", "signal"}
            <4>1. \A j \in 2 .. l : j \in 1 .. l
                OBVIOUS
            <4>2. \A j \in 2 .. l : doc'[open[j]].in = open[j - 1]
                <5> SUFFICES ASSUME NEW j \in 2 .. l
                             PROVE  doc'[open[j]].in = open[j - 1]
                    OBVIOUS
                <5>1. doc'[open[j]] = doc[open[j]]
                    BY <2>2, <4>1
                <5>2. doc[open[j]].in = open[j - 1]
                    BY <1>6
                <5> QED
                    BY <5>1, <5>2
            <4>3. \A j \in 1 .. l : open[j] \in 1 .. n + 1 /\ doc'[open[j]].edge = "start"
                BY <1>6, <2>2
            <4>4. \A j \in 1 .. l :
                    /\ j <= d => doc'[open[j]].tag = "node"
                    /\ j = d + 1 => doc'[open[j]].tag = "interface"
                    /\ j = d + 2 => doc'[open[j]].tag \in {"method", "signal"}
                BY <1>6, <2>2
            <4> QED
                BY <1>6, <2>1, <4>2, <4>3, <4>4
        <3> QED
            BY <1>3, <1>4, <1>5, <1>6, <2>1, <3>1 DEF OpenOK
    <2> QED
        BY <1>8, <2>1, <2>3
<1>9. CASE t.edge = "end"
    <2>1. open' = SubSeq(open, 1, l - 1)
        BY <1>1, <1>3, <1>9 DEF Read
    <2>2. /\ open' \in Seq(Nat) /\ Len(open') = l - 1
          /\ \A j \in 1 .. l - 1 : open'[j] = open[j]
        <3>1. \A j \in 1 .. l - 1 : open[j] \in Nat
            BY <1>6
        <3>2. /\ open' \in Seq(Nat)
              /\ Len(open') = IF 1 <= l - 1 THEN l - 1 - 1 + 1 ELSE 0
              /\ \A j \in 1 .. l - 1 - 1 + 1 : open'[j] = open[1 + j - 1]
            BY <2>1, <3>1, SubSeqProperties
        <3> QED
            BY <1>4, <3>2
    <2>3. PICK e \in Nat : e = scan'.nodeDepth /\ e = (IF t.tag = "node" THEN d - 1 ELSE d)
        BY <1>3, <1>4, <1>9
    <2>4. /\ t.tag = "node" => l = d
          /\ t.tag = "interface" => l = d + 1
          /\ t.tag \in {"method", "signal"} => l = d + 2
          /\ t.tag \in {"node", "interface", "method", "signal"}
        <3>1. t.tag = doc[Innermost].tag
            BY <1>2, <1>9
        <3>2. l = d \/ l = d + 1 \/ l = d + 2
            BY <1>4
        <3>3. t.tag \in {"node", "interface", "method", "signal"}
            BY <1>4, <1>6, <3>1, <3>2
        <3> QED
            BY <1>4, <3>1, <3>3
    <2>5. \A j \in 1 .. l - 1 : /\ j \in 1 .. l /\ open'[j] = open[j] /\ open[j] \in 1 .. n
                                 /\ doc'[open'[j]] = doc[open[j]]
        BY <1>5, <1>6, <2>2
    <2>6. \A j \in 1 .. l - 1 : open'[j] \in 1 .. n + 1 /\ doc'[open'[j]].edge = "start"
        <3> SUFFICES ASSUME NEW j \in 1 .. l - 1
                     PROVE  open'[j] \in 1 .. n + 1 /\ doc'[open'[j]].edge = "start"
            OBVIOUS
        <3>1. j \in 1 .. l /\ open'[j] = open[j] /\ open[j] \in 1 .. n
                /\ doc'[open'[j]] = doc[open[j]]
            BY <2>5
        <3>2. doc[open[j]].edge = "start"
            BY <1>6, <3>1
        <3> QED
            BY <3>1, <3>2
    <2>7. \A j, k \in 1 .. l - 1 : j < k => open'[j] < open'[k]
        BY <1>6, <2>5
    <2>8. \A j \in 2 .. l - 1 : doc'[open'[j]].in = open'[j - 1]
        <3> SUFFICES ASSUME NEW j \in 2 .. l - 1
                     PROVE  doc'[open'[j]].in = open'[j - 1]
            OBVIOUS
        <3>1. j \in 1 .. l - 1 /\ j - 1 \in 1 .. l - 1 /\ j \in 2 .. l
            OBVIOUS
        <3>2. open'[j - 1] = open[j - 1] /\ doc'[open'[j]] = doc[open[j]]
            BY <2>5, <3>1
        <3>3. doc[open[j]].in = open[j - 1]
            BY <1>6, <3>1
        <3> QED
            BY <3>2, <3>3
    <2>9. /\ e \in 0 .. l - 1 /\ l - 1 <= e + 2 /\ (l - 1 # 0 => e > 0)
          /\ \A j \in 1 .. l - 1 :
                /\ j <= e => doc'[open'[j]].tag = "node"
                /\ j = e + 1 => doc'[open'[j]].tag = "interface"
                /\ j = e + 2 => doc'[open'[j]].tag \in {"method", "signal"}
        <3>1. e \in 0 .. l - 1 /\ l - 1 <= e + 2 /\ (l - 1 # 0 => e > 0)
            BY <1>4, <2>3, <2>4
        <3>2. ASSUME NEW j \in 1 .. l - 1
              PROVE  /\ j <= e => doc'[open'[j]].tag = "node"
                     /\ j = e + 1 => doc'[open'[j]].tag = "interface"
                     /\ j = e + 2 => doc'[open'[j]].tag \in {"method", "signal"}
            <4>1. j \in 1 .. l /\ doc'[open'[j]] = doc[open[j]]
                BY <2>5
            <4>2. CASE t.tag = "node"
                <5>1. e = d - 1 /\ j <= d /\ j <= e
                    BY <2>3, <2>4, <4>2
                <5> QED
                    BY <1>6, <4>1, <5>1
            <4>3. CASE t.tag # "node"
                <5>1. e = d
                    BY <2>3, <4>3
                <5> QED
                    BY <1>6, <4>1, <5>1
            <4> QED
                BY <4>2, <4>3
        <3> QED
            BY <3>1, <3>2
    <2>10. open' # <<>> => open'[1] = 1
        <3> SUFFICES ASSUME open' # <<>> PROVE open'[1] = 1
            OBVIOUS
        <3>1. 1 \in 1 .. l - 1
            BY <2>2, EmptySeq
        <3> QED
            BY <1>4, <2>2, <3>1
    <2>11. OpenOK'
        <3>1. open' # <<>> => l - 1 # 0
            BY <2>2, EmptySeq
        <3> QED
            BY <1>5, <2>2, <2>3, <2>6, <2>7, <2>8, <2>9, <2>10, <3>1 DEF OpenOK
    <2> QED
        BY <1>3, <1>9, <2>2, <2>11
<1> QED
    BY <1>2, <1>7, <1>8, <1>9

\* Candidates are only ever added.
LEMMA CandidatesKept ==
    ASSUME DocumentOK, NEW t \in Tokens, Read(t), t.in \in 1 .. Len(doc), asked' = asked,
           CandidatesOK, scan'.candidates = scan.candidates, Completed' = Completed,
           t.tag = "arg" /\ t.direction # "out" => t.in \notin Completed
    PROVE  CandidatesOK'
<1>1. PICK f \in [1 .. Len(scan.candidates) -> Completed] :
        /\ \A j, k \in 1 .. Len(scan.candidates) : f[j] = f[k] => j = k
        /\ \A n \in Completed : \E j \in 1 .. Len(scan.candidates) : f[j] = n
        /\ \A j \in 1 .. Len(scan.candidates) : Describes(scan.candidates[j], f[j])
    BY DEF CandidatesOK
<1>2. PICK r : r = scan.candidates
    OBVIOUS
<1>3. ASSUME NEW j \in 1 .. Len(r)
      PROVE  Describes(r[j], f[j])'
    <2>1. f[j] \in Completed /\ f[j] \in Declarations
        BY <1>1, <1>2 DEF Completed
    <2>2. PICK c : c = r[j]
        OBVIOUS
    <2>3. PICK n : n = f[j]
        OBVIOUS
    <2>4. Describes(c, n) /\ n \in Declarations /\ n \in Completed
        BY <1>1, <1>2, <2>1, <2>2, <2>3
    <2>5. Describes(c, n)'
        BY <2>4, DescribesKept
    <2> QED
        BY <2>2, <2>3, <2>5
<1>4. scan'.candidates = r /\ Completed' = Completed
    BY <1>2
<1> QED
    BY <1>1, <1>2, <1>3, <1>4 DEF CandidatesOK

\* A method that was read to its end is a candidate.
LEMMA CandidatesMore ==
    ASSUME DocumentOK, NEW t \in Tokens, Read(t), t.in \in 1 .. Len(doc), asked' = asked,
           scan \in Scans, CandidatesOK, t.tag # "arg",
           NEW n \in Declarations, n \notin Completed, Completed' = Completed \cup {n},
           Describes(scan.current, n),
           scan'.candidates = Append(scan.candidates, scan.current)
    PROVE  CandidatesOK'
<1>1. PICK f \in [1 .. Len(scan.candidates) -> Completed] :
        /\ \A j, k \in 1 .. Len(scan.candidates) : f[j] = f[k] => j = k
        /\ \A k \in Completed : \E j \in 1 .. Len(scan.candidates) : f[j] = k
        /\ \A j \in 1 .. Len(scan.candidates) : Describes(scan.candidates[j], f[j])
    BY DEF CandidatesOK
<1>0. PICK l \in Nat : l = Len(scan.candidates)
    BY DEF Scans
<1>2. PICK c, s : l = Len(scan.candidates) /\ c = scan.current /\ s = scan.candidates
    BY <1>0
<1>3. s \in Seq(Candidates) /\ c \in Candidates
    BY <1>2 DEF Scans
<1>4. PICK r : r = Append(s, c)
    OBVIOUS
<1>5. /\ scan'.candidates = r /\ Len(r) = l + 1 /\ r[l + 1] = c
      /\ \A j \in 1 .. l : r[j] = s[j]
    BY <1>2, <1>3, <1>4, AppendProperties
<1> DEFINE g == [j \in 1 .. l + 1 |-> IF j = l + 1 THEN n ELSE f[j]]
<1>6. /\ g \in [1 .. l + 1 -> Completed \cup {n}]
      /\ g[l + 1] = n /\ \A j \in 1 .. l : g[j] = f[j] /\ f[j] \in Completed
    BY <1>1, <1>2
<1> HIDE DEF g
<1>7. \A j, k \in 1 .. l + 1 : g[j] = g[k] => j = k
    <2> SUFFICES ASSUME NEW j \in 1 .. l + 1, NEW k \in 1 .. l + 1, g[j] = g[k], j # k
                 PROVE  FALSE
        OBVIOUS
    <2>1. CASE j = l + 1
        <3>1. k \in 1 .. l
            BY <2>1
        <3> QED
            BY <1>6, <2>1, <3>1
    <2>2. CASE k = l + 1
        <3>1. j \in 1 .. l
            BY <2>2
        <3> QED
            BY <1>6, <2>2, <3>1
    <2>3. CASE j # l + 1 /\ k # l + 1
        <3>1. j \in 1 .. l /\ k \in 1 .. l
            BY <2>3
        <3> QED
            BY <1>1, <1>2, <1>6, <3>1
    <2> QED
        BY <2>1, <2>2, <2>3
<1>8. \A k \in Completed \cup {n} : \E j \in 1 .. l + 1 : g[j] = k
    <2> SUFFICES ASSUME NEW k \in Completed \cup {n} PROVE \E j \in 1 .. l + 1 : g[j] = k
        OBVIOUS
    <2>1. CASE k = n
        BY <1>6, <2>1
    <2>2. CASE k \in Completed
        <3>1. PICK j \in 1 .. l : f[j] = k
            BY <1>1, <1>2, <2>2
        <3> QED
            BY <1>6, <3>1
    <2> QED
        BY <2>1, <2>2
<1>9. ASSUME NEW j \in 1 .. l + 1
      PROVE  Describes(r[j], g[j])'
    <2>1. PICK e, k : e = r[j] /\ k = g[j]
        OBVIOUS
    <2>2. Describes(e, k) /\ k \in Declarations
        <3>1. CASE j = l + 1
            BY <1>2, <1>5, <1>6, <2>1, <3>1
        <3>2. CASE j # l + 1
            <4>1. j \in 1 .. l
                BY <3>2
            <4>2. e = s[j] /\ k = f[j] /\ k \in Completed
                BY <1>5, <1>6, <2>1, <4>1
            <4> QED
                BY <1>1, <1>2, <4>1, <4>2 DEF Completed
        <3> QED
            BY <3>1, <3>2
    <2>3. Describes(e, k)'
        BY <2>2, DescribesKept
    <2> QED
        BY <2>1, <2>3
<1>10. Completed' = Completed \cup {n} /\ scan'.candidates = r /\ Len(scan'.candidates) = l + 1
    BY <1>5
<1> QED
    BY <1>6, <1>7, <1>8, <1>9, <1>10 DEF CandidatesOK

\* Which of its steps the scan takes.
LEMMA ScanCases ==
    ASSUME NEW t, Reads(t)
    PROVE  \/ t.tag = "node" /\ scan' = ScanNode(scan, t)
           \/ t.tag = "interface" /\ scan.nodeDepth <= 1 /\ scan' = ScanInterface(scan, t)
           \/ /\ t.tag = "method" /\ t.edge = "start" /\ scan.nodeDepth <= 1
              /\ IsAsked(scan, t) /\ scan' = StartMethod(scan)
           \/ /\ t.tag = "method" /\ t.edge = "end" /\ scan.nodeDepth <= 1
              /\ scan.inMethod /\ scan' = EndMethod(scan)
           \/ /\ t.tag = "arg" /\ t.direction # "out" /\ scan.nodeDepth <= 1
              /\ scan.inMethod /\ scan' = ScanArg(scan, t)
           \/ /\ t.tag # "node" /\ scan' = scan
              /\ t.tag = "interface" => scan.nodeDepth > 1
              /\ t.tag = "method" /\ t.edge = "start" =>
                    scan.nodeDepth > 1 \/ ~IsAsked(scan, t)
              /\ t.tag = "method" /\ t.edge = "end" =>
                    scan.nodeDepth > 1 \/ ~scan.inMethod
              /\ t.tag = "arg" /\ t.direction # "out" =>
                    scan.nodeDepth > 1 \/ ~scan.inMethod
<1>1. scan' = ScanMethodToken(scan, t) /\ scan.nodeDepth \in Int
    BY DEF Reads, DocInv, MethodScanOK, Scans
<1>2. t.tag = "arg" => (t.direction \in {NoName, "in"} <=> t.direction # "out")
    <2>1. /\ doc[Innermost].tag # "arg"
          /\ t.tag = "arg" => t.direction \in {NoName, "in", "out"} \/ t.tag = doc[Innermost].tag
        BY FollowingFacts DEF Reads, DocInv
    <2> QED
        BY <2>1, IntrospectionAssumption
<1>3. CASE t.tag = "node"
    BY <1>1, <1>3 DEF ScanMethodToken
<1>4. CASE t.tag # "node" /\ scan.nodeDepth > 1
    BY <1>1, <1>4 DEF ScanMethodToken, Skipped
<1>5. CASE t.tag # "node" /\ ~(scan.nodeDepth > 1)
    <2>1. scan' = ScanOwnToken(scan, t) /\ scan.nodeDepth <= 1
        BY <1>1, <1>5 DEF ScanMethodToken, Skipped
    <2>2. CASE t.tag = "interface"
        BY <2>1, <2>2 DEF ScanOwnToken
    <2>3. CASE t.tag = "method"
        <3>1. CASE t.edge = "start" /\ IsAsked(scan, t)
            BY <2>1, <2>3, <3>1 DEF ScanOwnToken
        <3>2. CASE t.edge = "end" /\ scan.inMethod
            BY <2>1, <2>3, <3>2 DEF ScanOwnToken
        <3>3. CASE ~(t.edge = "start" /\ IsAsked(scan, t)) /\ ~(t.edge = "end" /\ scan.inMethod)
            BY <2>1, <2>3, <3>3 DEF ScanOwnToken
        <3> QED
            BY <3>1, <3>2, <3>3
    <2>4. CASE t.tag = "arg"
        <3>1. CASE scan.inMethod /\ t.direction # "out"
            <4>1. t.direction \in {NoName, "in"}
                BY <1>2, <2>4, <3>1
            <4> QED
                BY <2>1, <2>4, <3>1, <4>1 DEF ScanOwnToken
        <3>2. CASE ~scan.inMethod \/ t.direction = "out"
            <4>1. ~(scan.inMethod /\ t.direction \in {NoName, "in"})
                BY <1>2, <2>4, <3>2
            <4> QED
                BY <2>1, <2>4, <3>2, <4>1 DEF ScanOwnToken
        <3> QED
            BY <3>1, <3>2
    <2>5. CASE t.tag \notin {"interface", "method", "arg", "node"}
        BY <2>1, <2>5 DEF ScanOwnToken
    <2> QED
        BY <1>5, <2>2, <2>3, <2>4, <2>5
<1> QED
    BY <1>3, <1>4, <1>5

\* The depth, and what stays, after a token.
LEMMA DepthStep ==
    ASSUME NEW t, Reads(t)
    PROVE  /\ scan' \in Scans
           /\ t.tag # "node" => scan'.nodeDepth = scan.nodeDepth
           /\ t.tag = "node" /\ t.edge = "start" => scan'.nodeDepth = scan.nodeDepth + 1
           /\ t.tag = "node" /\ t.edge = "end" => scan'.nodeDepth = scan.nodeDepth - 1
           /\ ~(t.tag = "interface" /\ scan.nodeDepth <= 1) =>
                scan'.currentInterface = scan.currentInterface
           /\ t.tag = "interface" /\ scan.nodeDepth <= 1 =>
                scan'.currentInterface = IF t.edge = "start" THEN t.name ELSE NoName
<1>1. scan \in Scans /\ t \in Tokens /\ t.name \in Labels /\ t.type \in Labels
    <2>1. t \in Tokens
        BY FollowingFacts DEF Reads, DocInv
    <2> QED
        BY <2>1 DEF Reads, DocInv, MethodScanOK, Tokens
<1>2. PICK r : r = scan'
    OBVIOUS
<1>3. scan.nodeDepth \in Int
    BY <1>1 DEF Scans
<1>4. CASE t.tag = "node" /\ scan' = ScanNode(scan, t)
    BY <1>1, <1>2, <1>4, ScanNodeFields
<1>5. CASE t.tag = "interface" /\ scan.nodeDepth <= 1 /\ scan' = ScanInterface(scan, t)
    BY <1>1, <1>2, <1>5, ScanInterfaceFields
<1>6. CASE t.tag = "method" /\ scan' = StartMethod(scan)
    BY <1>1, <1>2, <1>6, StartMethodFields
<1>7. CASE t.tag = "method" /\ scan' = EndMethod(scan)
    BY <1>1, <1>2, <1>7, EndMethodFields
<1>8. CASE t.tag = "arg" /\ scan' = ScanArg(scan, t)
    BY <1>1, <1>2, <1>8, ScanArgFields
<1>9. CASE scan' = scan /\ t.tag # "node" /\ (t.tag = "interface" => scan.nodeDepth > 1)
    BY <1>1, <1>3, <1>9
<1> QED
    BY <1>4, <1>5, <1>6, <1>7, <1>8, <1>9, ScanCases

\* The interface the scan is in, after a token.
LEMMA InterfaceStep ==
    ASSUME NEW t, Reads(t)
    PROVE  scan'.currentInterface = InnerInterface'
<1>1. DocumentOK /\ OpenOK /\ open # <<>> /\ Read(t) /\ t \in Following
        /\ scan.currentInterface = InnerInterface
    BY DEF Reads, DocInv, MethodScanOK
<1>2. /\ t \in Tokens /\ t.in = Innermost /\ t.in \in 1 .. Len(doc)
      /\ doc[Innermost].tag \in {"node", "interface", "method", "signal"}
      /\ \/ /\ doc[Innermost].tag = "node" /\ t.edge = "start"
            /\ t.tag \in {"node", "interface"}
         \/ /\ doc[Innermost].tag = "interface" /\ t.edge = "start"
            /\ t.tag \in {"method", "signal"}
         \/ doc[Innermost].tag = "interface" /\ t.edge = "whole" /\ t.tag = "property"
         \/ /\ doc[Innermost].tag \in {"method", "signal"} /\ t.edge = "whole"
            /\ t.tag = "arg"
         \/ t.edge = "end" /\ t.tag = doc[Innermost].tag
    BY <1>1, FollowingFacts
<1>3. PICK n \in Nat, l \in Nat, d \in Nat : n = Len(doc) /\ l = Len(open) /\ d = scan.nodeDepth
    BY <1>1, LevelFacts DEF DocumentOK
<1>4. /\ d > 0 /\ l > 0 /\ d <= l /\ l <= d + 2
      /\ doc[Innermost].tag = "node" => l = d
      /\ doc[Innermost].tag = "interface" => l = d + 1
      /\ doc[Innermost].tag \in {"method", "signal"} => l = d + 2
    BY <1>1, <1>3, LevelFacts
<1>5. /\ doc'[n + 1] = t
      /\ \A k \in 1 .. n : doc'[k] = doc[k]
    BY <1>1, <1>2, <1>3, ReadFacts
<1>6. /\ t.tag # "node" => scan'.nodeDepth = d
      /\ t.tag = "node" /\ t.edge = "start" => scan'.nodeDepth = d + 1
      /\ t.tag = "node" /\ t.edge = "end" => scan'.nodeDepth = d - 1
      /\ ~(t.tag = "interface" /\ d <= 1) => scan'.currentInterface = scan.currentInterface
      /\ t.tag = "interface" /\ d <= 1 =>
            scan'.currentInterface = IF t.edge = "start" THEN t.name ELSE NoName
    BY <1>3, DepthStep
<1>7. /\ t.edge = "start" =>
            Len(open') = l + 1 /\ open'[l + 1] = n + 1 /\ \A j \in 1 .. l : open'[j] = open[j]
      /\ t.edge = "whole" => open' = open
      /\ t.edge = "end" => Len(open') = l - 1 /\ \A j \in 1 .. l - 1 : open'[j] = open[j]
    BY <1>3, DepthStep, NestingStep
<1>8. scan.currentInterface = IF d = 1 /\ l >= 2 THEN doc[open[2]].name ELSE NoName
    BY <1>1, <1>3 DEF InnerInterface
<1>9. l >= 2 => open[2] \in 1 .. n
    BY <1>1, <1>3 DEF OpenOK
<1>10. CASE t.edge = "start" /\ t.tag = "node"
    BY <1>2, <1>4, <1>6, <1>7, <1>8, <1>10 DEF InnerInterface
<1>11. CASE t.edge = "start" /\ t.tag = "interface"
    <2>1. l = d
        BY <1>2, <1>4, <1>11
    <2>2. CASE d = 1
        <3>1. open'[2] = n + 1 /\ Len(open') = 2
            BY <1>7, <1>11, <2>1, <2>2
        <3> QED
            BY <1>5, <1>6, <1>11, <2>2, <3>1 DEF InnerInterface
    <2>3. CASE d # 1
        BY <1>4, <1>6, <1>8, <1>11, <2>3 DEF InnerInterface
    <2> QED
        BY <2>2, <2>3
<1>12. CASE t.edge = "start" /\ t.tag \in {"method", "signal"}
    <2>1. l = d + 1
        BY <1>2, <1>4, <1>12
    <2>2. CASE d = 1
        <3>1. open'[2] = open[2] /\ Len(open') = 3 /\ open[2] \in 1 .. n
            BY <1>7, <1>9, <1>12, <2>1, <2>2
        <3> QED
            BY <1>5, <1>6, <1>8, <1>12, <2>1, <2>2, <3>1 DEF InnerInterface
    <2>3. CASE d # 1
        BY <1>4, <1>6, <1>8, <1>12, <2>3 DEF InnerInterface
    <2> QED
        BY <2>2, <2>3
<1>13. CASE t.edge = "whole"
    <2>1. open' = open /\ scan'.nodeDepth = d /\ scan'.currentInterface = scan.currentInterface
        BY <1>2, <1>6, <1>7, <1>13
    <2>2. CASE d = 1 /\ l >= 2
        BY <1>3, <1>5, <1>8, <1>9, <2>1, <2>2 DEF InnerInterface
    <2>3. CASE ~(d = 1 /\ l >= 2)
        BY <1>3, <1>8, <2>1, <2>3 DEF InnerInterface
    <2> QED
        BY <2>2, <2>3
<1>14. CASE t.edge = "end" /\ t.tag \in {"node", "interface"}
    <2>1. t.tag = "node" => l = d
        BY <1>2, <1>4, <1>14
    <2>2. t.tag = "interface" => l = d + 1
        BY <1>2, <1>4, <1>14
    <2>3. Len(open') = l - 1
        BY <1>7, <1>14
    <2>4. CASE t.tag = "node"
        <3>1. ~(scan'.nodeDepth = 1 /\ Len(open') >= 2)
            BY <1>6, <1>14, <2>1, <2>3, <2>4
        <3>2. scan'.currentInterface = NoName
            BY <1>6, <1>8, <2>1, <2>4
        <3> QED
            BY <3>1, <3>2 DEF InnerInterface
    <2>5. CASE t.tag = "interface"
        <3>1. ~(scan'.nodeDepth = 1 /\ Len(open') >= 2)
            BY <1>6, <2>2, <2>3, <2>5
        <3>2. scan'.currentInterface = NoName
            BY <1>4, <1>6, <1>8, <1>14, <2>5
        <3> QED
            BY <3>1, <3>2 DEF InnerInterface
    <2> QED
        BY <1>14, <2>4, <2>5
<1>15. CASE t.edge = "end" /\ t.tag \in {"method", "signal"}
    <2>1. l = d + 2
        BY <1>2, <1>4, <1>15
    <2>2. CASE d = 1
        <3>1. open'[2] = open[2] /\ Len(open') = 2 /\ open[2] \in 1 .. n
            BY <1>7, <1>9, <1>15, <2>1, <2>2
        <3> QED
            BY <1>5, <1>6, <1>8, <1>15, <2>1, <2>2, <3>1 DEF InnerInterface
    <2>3. CASE d # 1
        BY <1>4, <1>6, <1>8, <1>15, <2>3 DEF InnerInterface
    <2> QED
        BY <2>2, <2>3
<1> QED
    BY <1>2, <1>10, <1>11, <1>12, <1>13, <1>14, <1>15

\* The scan for the method keeps its invariant.
LEMMA MethodStep ==
    ASSUME NEW t, Reads(t)
    PROVE  MethodScanOK'
<1>1. DocumentOK /\ OpenOK /\ open # <<>> /\ Read(t) /\ t \in Following /\ asked' = asked
    BY DEF Reads, DocInv
<1>2. /\ scan \in Scans /\ scan.currentInterface = InnerInterface
      /\ scan.inMethod <=> InDeclaration
      /\ scan.inMethod => Describes(scan.current, open[3])
      /\ CandidatesOK
    BY DEF Reads, DocInv, MethodScanOK
<1>3. /\ t \in Tokens /\ t.in = Innermost /\ t.in \in 1 .. Len(doc)
      /\ doc[Innermost].tag \in {"node", "interface", "method", "signal"}
      /\ \/ /\ doc[Innermost].tag = "node" /\ t.edge = "start"
            /\ t.tag \in {"node", "interface"}
         \/ /\ doc[Innermost].tag = "interface" /\ t.edge = "start"
            /\ t.tag \in {"method", "signal"}
         \/ doc[Innermost].tag = "interface" /\ t.edge = "whole" /\ t.tag = "property"
         \/ /\ doc[Innermost].tag \in {"method", "signal"} /\ t.edge = "whole"
            /\ t.tag = "arg"
         \/ t.edge = "end" /\ t.tag = doc[Innermost].tag
    BY <1>1, FollowingFacts
<1>4. PICK n \in Nat, l \in Nat, d \in Nat, m \in Nat :
        n = Len(doc) /\ l = Len(open) /\ d = scan.nodeDepth /\ m = n + 1
    BY <1>1, LevelFacts DEF DocumentOK
<1>5. /\ d > 0 /\ l > 0 /\ d <= l /\ l <= d + 2
      /\ doc[Innermost].tag = "interface" => l = d + 1
      /\ Innermost = open[l] /\ open[1] = 1
      /\ d > 1 => open[d] # 1
      /\ l = d + 1 => doc[Innermost].in = open[d]
    BY <1>1, <1>4, LevelFacts
<1>6. /\ t.edge = "start" =>
            Len(open') = l + 1 /\ open'[l + 1] = m /\ \A j \in 1 .. l : open'[j] = open[j]
      /\ t.edge = "whole" => open' = open
      /\ t.edge = "end" => Len(open') = l - 1 /\ \A j \in 1 .. l - 1 : open'[j] = open[j]
    BY <1>4, DepthStep, NestingStep
<1>7. /\ Declarations \subseteq 2 .. n
      /\ Declarations' = Declarations \cup (IF Declares(t) THEN {m} ELSE {})
      /\ InterfaceOf(m)' = doc[t.in].name
      /\ \A k \in 1 .. m :
            Inputs(k)' = Inputs(k) \cup
                (IF t.tag = "arg" /\ t.in = k /\ t.direction # "out" THEN {m} ELSE {})
    BY <1>1, <1>3, <1>4, GrowthFacts
<1>8. InDeclaration => /\ l = 3 /\ d = 1 /\ open[3] \in Declarations /\ Innermost = open[3]
                       /\ doc[Innermost].tag = "method" /\ t.in = open[3]
    <2> SUFFICES ASSUME InDeclaration
                 PROVE  /\ l = 3 /\ d = 1 /\ open[3] \in Declarations /\ Innermost = open[3]
                        /\ doc[Innermost].tag = "method" /\ t.in = open[3]
        OBVIOUS
    <2>1. l = 3 /\ open[3] \in Declarations /\ 3 \in 1 .. Len(open)
        BY <1>4 DEF InDeclaration
    <2>2. d = 1
        BY <1>1, <1>4, <2>1, OpenDeclaration
    <2>3. doc[open[3]].tag = "method"
        BY <2>1 DEF Declarations
    <2> QED
        BY <1>3, <1>5, <2>1, <2>2, <2>3
<1>9. m \notin Declarations
    BY <1>4, <1>7
<1> SUFFICES /\ scan'.inMethod <=> InDeclaration'
             /\ scan'.inMethod => Describes(scan.current, open[3])'
             /\ CandidatesOK'
    BY DepthStep, InterfaceStep DEF MethodScanOK
<1>10. CASE t.edge = "start"
    <2>1. ~InDeclaration /\ ~scan.inMethod
        BY <1>2, <1>3, <1>8, <1>10
    <2>2. Completed = Declarations
        BY <2>1 DEF Completed
    <2>3. CASE Declares(t)
        <3>1. /\ t.tag = "method" /\ t.name = asked.method
              /\ doc[t.in].tag = "interface" /\ doc[t.in].in = 1
              /\ asked.interface = NoName \/ asked.interface = doc[t.in].name
            BY <2>3 DEF Declares
        <3>2. d = 1 /\ l = 2
            <4>1. l = d + 1 /\ open[d] = 1
                BY <1>3, <1>5, <3>1
            <4> QED
                BY <1>5, <4>1
        <3>3. scan.currentInterface = doc[t.in].name
            BY <1>2, <1>3, <1>4, <1>5, <3>2 DEF InnerInterface
        <3>4. scan' = StartMethod(scan)
            <4>1. IsAsked(scan, t)
                BY <3>1, <3>3 DEF IsAsked
            <4> QED
                BY <1>4, <1>10, <3>1, <3>2, <4>1, ScanCases
        <3>5. PICK c : c = [interface |-> doc[t.in].name, inSignature |-> <<>>]
            OBVIOUS
        <3>6. /\ scan'.inMethod = TRUE /\ scan'.current = c
              /\ scan'.candidates = scan.candidates
            <4>1. PICK r : r = scan'
                OBVIOUS
            <4>2. /\ r.inMethod = TRUE /\ r.candidates = scan.candidates
                  /\ r.current = [interface |-> scan.currentInterface, inSignature |-> <<>>]
                BY <1>2, <3>4, <4>1, StartMethodFields
            <4> QED
                BY <3>3, <3>5, <4>1, <4>2
        <3>7. Declarations' = Declarations \cup {m} /\ Len(open') = 3 /\ open'[3] = m
            BY <1>6, <1>7, <1>10, <2>3, <3>2
        <3>8. InDeclaration' /\ Completed' = Completed
            BY <1>9, <2>2, <3>7 DEF InDeclaration, Completed
        <3>9. Describes(c, m)'
            <4>1. Inputs(m) = {}
                <5>1. \A k \in 1 .. n : doc[k].in # m
                    <6> SUFFICES ASSUME NEW k \in 1 .. n, doc[k].in = m PROVE FALSE
                        OBVIOUS
                    <6>1. CASE k = 1
                        <7>1. doc[1].in = 0
                            BY <1>1, <1>4, EmptySeq DEF DocumentOK, Root, Token
                        <7> QED
                            BY <1>4, <6>1, <7>1
                    <6>2. CASE k # 1
                        <7>1. k \in 2 .. n
                            BY <6>2
                        <7>2. doc[k].in \in 1 .. k - 1
                            BY <1>1, <1>4, <7>1 DEF DocumentOK
                        <7> QED
                            BY <1>4, <7>1, <7>2
                    <6> QED
                        BY <6>1, <6>2
                <5> QED
                    BY <1>4, <5>1 DEF Inputs
            <4>2. m \in 1 .. m
                BY <1>4
            <4>3. Inputs(m)' = {}
                BY <1>7, <3>1, <4>1, <4>2
            <4>4. [k \in 1 .. 0 |-> k] \in [1 .. 0 -> {}]
                OBVIOUS
            <4>5. Len(c.inSignature) = 0
                BY <3>5
            <4>6. ListsTypes(c.inSignature, Inputs(m))'
                BY <4>3, <4>4, <4>5 DEF ListsTypes
            <4> QED
                BY <1>7, <3>5, <4>6 DEF Describes
        <3>10. Describes(scan.current, open[3])'
            BY <3>6, <3>7, <3>9 DEF Describes
        <3>11. CandidatesOK'
            BY <1>1, <1>2, <1>3, <3>1, <3>6, <3>8, CandidatesKept
        <3> QED
            BY <3>6, <3>8, <3>10, <3>11
    <2>4. CASE ~Declares(t)
        <3>1. Declarations' = Declarations
            BY <1>7, <2>4
        <3>2. ~InDeclaration' /\ Completed' = Completed
            <4>1. Len(open') = 3 => open'[3] = m
                BY <1>6, <1>10
            <4> QED
                BY <1>9, <2>2, <3>1, <4>1 DEF InDeclaration, Completed
        <3>3. ~(t.tag = "method" /\ d <= 1 /\ IsAsked(scan, t))
            <4> SUFFICES ASSUME t.tag = "method", d <= 1, IsAsked(scan, t) PROVE FALSE
                OBVIOUS
            <4>1. doc[Innermost].tag = "interface" /\ d = 1 /\ l = 2
                BY <1>3, <1>5, <1>10
            <4>2. doc[t.in].in = 1 /\ scan.currentInterface = doc[t.in].name
                BY <1>2, <1>3, <1>4, <1>5, <4>1 DEF InnerInterface
            <4> QED
                BY <1>3, <1>10, <2>4, <4>1, <4>2 DEF Declares, IsAsked
        <3>4. scan'.inMethod = scan.inMethod /\ scan'.candidates = scan.candidates
            <4>1. PICK r : r = scan'
                OBVIOUS
            <4>2. CASE scan' = ScanNode(scan, t)
                BY <1>2, <4>1, <4>2, ScanNodeFields
            <4>3. CASE scan' = ScanInterface(scan, t)
                <5>1. t.name \in Labels
                    BY <1>3 DEF Tokens
                <5> QED
                    BY <1>2, <4>1, <4>3, <5>1, ScanInterfaceFields
            <4>4. CASE scan' = scan
                BY <4>4
            <4> QED
                BY <1>4, <1>10, <2>1, <3>3, <4>2, <4>3, <4>4, ScanCases
        <3>5. t.tag # "arg"
            BY <1>3, <1>10
        <3>6. CandidatesOK'
            BY <1>1, <1>2, <1>3, <3>2, <3>4, <3>5, CandidatesKept
        <3> QED
            BY <2>1, <3>2, <3>4, <3>6
    <2> QED
        BY <2>3, <2>4
<1>11. CASE t.edge = "whole"
    <2>1. open' = open /\ Declarations' = Declarations
        BY <1>6, <1>7, <1>11 DEF Declares
    <2>2. (InDeclaration' <=> InDeclaration) /\ Completed' = Completed
        BY <2>1 DEF InDeclaration, Completed
    <2>3. t.in \notin Completed
        <3> SUFFICES ASSUME t.in \in Completed PROVE FALSE
            OBVIOUS
        <3>1. t.in \in Declarations /\ open[l] \in Declarations /\ l \in 1 .. Len(open)
            BY <1>3, <1>4, <1>5 DEF Completed
        <3>2. l = 3
            BY <1>1, <3>1, OpenDeclaration
        <3>3. InDeclaration
            BY <1>4, <3>1, <3>2 DEF InDeclaration
        <3> QED
            BY <1>3, <1>5, <3>2, <3>3 DEF Completed
    <2>4. CASE scan.inMethod /\ t.direction # "out"
        <3>1. t.tag = "arg" /\ d = 1 /\ t.in = open[3] /\ open[3] \in Declarations
            BY <1>2, <1>3, <1>8, <1>11, <2>4
        <3>2. scan' = ScanArg(scan, t)
            BY <1>4, <2>4, <3>1, ScanCases
        <3>3. PICK r, c, k : r = scan'.current /\ c = scan.current /\ k = open[3]
            OBVIOUS
        <3>4. /\ scan' \in Scans /\ scan'.inMethod = scan.inMethod
              /\ r.interface = c.interface /\ r.inSignature = Append(c.inSignature, t.type)
              /\ scan'.candidates = scan.candidates
            <4>1. PICK q : q = scan'
                OBVIOUS
            <4>2. t.type \in Labels
                BY <1>3 DEF Tokens
            <4> QED
                BY <1>2, <3>2, <3>3, <4>1, <4>2, ScanArgFields
        <3>5. c \in Candidates /\ r \in Candidates
            BY <1>2, <3>3, <3>4 DEF Scans
        <3>6. Describes(c, k) /\ k \in Declarations /\ t.in = k
            BY <1>2, <2>4, <3>1, <3>3
        <3>7. Describes(r, k)'
            BY <1>1, <1>3, <2>4, <3>1, <3>4, <3>5, <3>6, DescribesMore
        <3>8. Describes(scan.current, open[3])'
            BY <2>1, <3>3, <3>7 DEF Describes
        <3>9. CandidatesOK'
            BY <1>1, <1>2, <1>3, <2>2, <2>3, <3>4, CandidatesKept
        <3> QED
            BY <1>2, <2>2, <3>4, <3>8, <3>9
    <2>5. CASE ~(scan.inMethod /\ t.direction # "out")
        <3>1. scan' = scan
            BY <1>3, <1>11, <2>5, ScanCases
        <3>2. CandidatesOK'
            BY <1>1, <1>2, <1>3, <2>2, <2>3, <3>1, CandidatesKept
        <3>3. ASSUME scan.inMethod
              PROVE  Describes(scan.current, open[3])'
            <4>1. PICK c, k : c = scan.current /\ k = open[3]
                OBVIOUS
            <4>2. Describes(c, k) /\ k \in Declarations
                BY <1>2, <1>8, <3>3, <4>1
            <4>3. Describes(c, k)'
                BY <1>1, <1>3, <2>5, <3>3, <4>2, DescribesKept
            <4> QED
                BY <2>1, <3>1, <4>1, <4>3 DEF Describes
        <3> QED
            BY <1>2, <2>2, <3>1, <3>2, <3>3
    <2> QED
        BY <2>4, <2>5
<1>12. CASE t.edge = "end"
    <2>1. Declarations' = Declarations
        BY <1>7, <1>12 DEF Declares
    <2>2. ~InDeclaration'
        <3> SUFFICES ASSUME InDeclaration' PROVE FALSE
            OBVIOUS
        <3>1. l - 1 = 3 /\ open'[3] \in Declarations
            BY <1>6, <1>12, <2>1 DEF InDeclaration
        <3>2. l = 4 /\ 3 \in 1 .. l /\ 3 \in 1 .. l - 1
            BY <3>1
        <3>3. 3 \in 1 .. Len(open) /\ open[3] \in Declarations
            BY <1>4, <1>6, <1>12, <3>1, <3>2
        <3>4. Len(open) = 3
            BY <1>1, <3>3, OpenDeclaration
        <3>5. l = 3
            BY <1>4, <3>4
        <3> QED
            BY <3>2, <3>5
    <2>3. Completed' = Declarations
        BY <2>1, <2>2 DEF Completed
    <2>4. t.tag # "arg"
        BY <1>3, <1>12
    <2>5. CASE InDeclaration
        <3>1. scan.inMethod /\ t.tag = "method" /\ d = 1
            BY <1>2, <1>3, <1>8, <1>12, <2>5
        <3>2. scan' = EndMethod(scan)
            BY <1>4, <1>12, <3>1, ScanCases
        <3>3. scan'.inMethod = FALSE /\ scan'.candidates = Append(scan.candidates, scan.current)
            <4>1. PICK r : r = scan'
                OBVIOUS
            <4> QED
                BY <1>2, <3>2, <4>1, EndMethodFields
        <3>4. PICK k : k = open[3]
            OBVIOUS
        <3>5. /\ k \in Declarations /\ k \notin Completed /\ Completed' = Completed \cup {k}
              /\ Describes(scan.current, k)
            BY <1>2, <1>8, <2>3, <2>5, <3>1, <3>4 DEF Completed
        <3>6. CandidatesOK'
            BY <1>1, <1>2, <1>3, <2>4, <3>3, <3>5, CandidatesMore
        <3> QED
            BY <2>2, <3>3, <3>6
    <2>6. CASE ~InDeclaration
        <3>1. ~scan.inMethod /\ Completed' = Completed
            BY <1>2, <2>3, <2>6 DEF Completed
        <3>2. scan'.inMethod = scan.inMethod /\ scan'.candidates = scan.candidates
            <4>1. PICK r : r = scan'
                OBVIOUS
            <4>2. CASE scan' = ScanNode(scan, t)
                BY <1>2, <4>1, <4>2, ScanNodeFields
            <4>3. CASE scan' = ScanInterface(scan, t)
                <5>1. t.name \in Labels
                    BY <1>3 DEF Tokens
                <5> QED
                    BY <1>2, <4>1, <4>3, <5>1, ScanInterfaceFields
            <4>4. CASE scan' = scan
                BY <4>4
            <4> QED
                BY <1>12, <3>1, <4>2, <4>3, <4>4, ScanCases
        <3>3. CandidatesOK'
            BY <1>1, <1>2, <1>3, <2>4, <3>1, <3>2, CandidatesKept
        <3> QED
            BY <2>2, <3>1, <3>2, <3>3
    <2> QED
        BY <2>5, <2>6
<1> QED
    BY <1>3, <1>10, <1>11, <1>12

\* What the lookup of a property does with a token, as long as nothing was found.
LEMMA LookupFields ==
    ASSUME NEW t, Reads(t), ~lookup.found
    PROVE  /\ lookup' \in Lookups
           /\ t.tag # "node" => lookup'.nodeDepth = lookup.nodeDepth
           /\ t.tag = "node" /\ t.edge = "start" => lookup'.nodeDepth = lookup.nodeDepth + 1
           /\ t.tag = "node" /\ t.edge = "end" => lookup'.nodeDepth = lookup.nodeDepth - 1
           /\ ~(t.tag = "interface" /\ lookup.nodeDepth <= 1) =>
                lookup'.currentInterface = lookup.currentInterface
           /\ t.tag = "interface" /\ lookup.nodeDepth <= 1 =>
                lookup'.currentInterface = IF t.edge = "start" THEN t.name ELSE NoName
           /\ IF t.tag = "property" /\ lookup.nodeDepth <= 1
                 /\ lookup.currentInterface = asked.interface /\ t.name = asked.property
              THEN lookup'.found /\ lookup'.type = t.type
              ELSE ~lookup'.found /\ lookup'.type = lookup.type
<1>1. lookup \in Lookups /\ t \in Tokens /\ t.name \in Labels /\ t.type \in Labels
        /\ NoName \in Labels /\ lookup.nodeDepth \in Int
    <2>1. t \in Tokens
        BY FollowingFacts DEF Reads, DocInv
    <2> QED
        BY <2>1 DEF Reads, DocInv, PropertyScanOK, Lookups, Tokens, Labels
<1>2. lookup' = IF t.tag = "node" THEN ScanNode(lookup, t)
                ELSE IF Skipped(lookup) THEN lookup ELSE ScanOwnProperty(lookup, t)
    BY DEF Reads, ScanPropertyToken
<1>3. CASE t.tag = "node"
    <2>1. lookup' = [lookup EXCEPT !.nodeDepth = IF t.edge = "start" THEN @ + 1 ELSE @ - 1]
        BY <1>2, <1>3 DEF ScanNode
    <2>2. lookup' \in Lookups
        BY <1>1, <2>1 DEF Lookups
    <2>3. t.edge = "start" => lookup'.nodeDepth = lookup.nodeDepth + 1
        BY <1>1, <2>1 DEF Lookups
    <2>4. t.edge = "end" => lookup'.nodeDepth = lookup.nodeDepth - 1
        BY <1>1, <2>1 DEF Lookups
    <2>5. lookup'.currentInterface = lookup.currentInterface /\ lookup'.type = lookup.type
            /\ lookup'.found = lookup.found
        BY <1>1, <2>1 DEF Lookups
    <2> QED
        BY <1>3, <2>2, <2>3, <2>4, <2>5
<1>4. CASE t.tag = "interface" /\ lookup.nodeDepth <= 1
    <2>1. lookup' = [lookup EXCEPT !.currentInterface = IF t.edge = "start" THEN t.name ELSE NoName]
        BY <1>1, <1>2, <1>4 DEF Skipped, ScanOwnProperty, ScanInterface
    <2>2. lookup' \in Lookups
            /\ lookup'.currentInterface = (IF t.edge = "start" THEN t.name ELSE NoName)
        BY <1>1, <2>1 DEF Lookups
    <2>3. lookup'.nodeDepth = lookup.nodeDepth /\ lookup'.type = lookup.type
            /\ lookup'.found = lookup.found
        BY <1>1, <2>1 DEF Lookups
    <2> QED
        BY <1>4, <2>2, <2>3
<1>5. CASE t.tag = "property" /\ lookup.nodeDepth <= 1
            /\ lookup.currentInterface = asked.interface /\ t.name = asked.property
    <2>1. lookup' = [lookup EXCEPT !.found = TRUE, !.type = t.type]
        BY <1>1, <1>2, <1>5 DEF Skipped, ScanOwnProperty
    <2>2. lookup' \in Lookups /\ lookup'.found = TRUE /\ lookup'.type = t.type
        BY <1>1, <2>1 DEF Lookups
    <2>3. lookup'.nodeDepth = lookup.nodeDepth
            /\ lookup'.currentInterface = lookup.currentInterface
        BY <1>1, <2>1 DEF Lookups
    <2> QED
        BY <1>5, <2>2, <2>3
<1>6. CASE /\ t.tag # "node" /\ ~(t.tag = "interface" /\ lookup.nodeDepth <= 1)
           /\ ~(t.tag = "property" /\ lookup.nodeDepth <= 1
                    /\ lookup.currentInterface = asked.interface /\ t.name = asked.property)
    <2>1. lookup' = lookup
        BY <1>1, <1>2, <1>6 DEF Skipped, ScanOwnProperty
    <2> QED
        BY <1>1, <1>6, <2>1
<1> QED
    BY <1>3, <1>4, <1>5, <1>6

\* The lookup of the property keeps its invariant.
LEMMA PropertyStep ==
    ASSUME NEW t, Reads(t)
    PROVE  PropertyScanOK'
<1>1. DocumentOK /\ OpenOK /\ open # <<>> /\ Read(t) /\ t \in Following /\ asked' = asked
    BY DEF Reads, DocInv
<1>2. /\ lookup \in Lookups
      /\ ~lookup.found =>
            /\ lookup.nodeDepth = scan.nodeDepth
            /\ lookup.currentInterface = scan.currentInterface
            /\ PropertyDeclarations = {}
            /\ lookup.type = NoName
      /\ lookup.found =>
            \E i \in PropertyDeclarations :
                /\ \A k \in PropertyDeclarations : i <= k
                /\ lookup.type = doc[i].type
    BY DEF Reads, DocInv, PropertyScanOK
<1>3. /\ t \in Tokens /\ t.in = Innermost /\ t.in \in 1 .. Len(doc)
      /\ t.tag = "property" => doc[Innermost].tag = "interface"
    BY <1>1, FollowingFacts
<1>4. PICK n \in Nat, m \in Nat : n = Len(doc) /\ m = n + 1
    BY <1>1 DEF DocumentOK
<1>5. /\ doc'[m] = t
      /\ \A k \in 1 .. n : doc'[k] = doc[k]
    BY <1>1, <1>3, <1>4, ReadFacts
<1>6. /\ PropertyDeclarations \subseteq 2 .. n
      /\ PropertyDeclarations' =
            PropertyDeclarations \cup (IF DeclaresProperty(t) THEN {m} ELSE {})
    BY <1>1, <1>3, <1>4, GrowthFacts
<1>7. CASE lookup.found
    <2>1. lookup' = lookup
        BY <1>7 DEF Reads, ScanPropertyToken
    <2>2. PICK i \in PropertyDeclarations :
            (\A k \in PropertyDeclarations : i <= k) /\ lookup.type = doc[i].type
        BY <1>2, <1>7
    <2>3. i \in 1 .. n /\ i <= m /\ i \in PropertyDeclarations'
        BY <1>4, <1>6
    <2>4. \A k \in PropertyDeclarations' : i <= k
        BY <1>6, <2>2, <2>3
    <2>5. lookup'.type = doc'[i].type
        BY <1>5, <2>1, <2>2, <2>3
    <2> QED
        BY <1>2, <1>7, <2>1, <2>3, <2>4, <2>5 DEF PropertyScanOK
<1>8. CASE ~lookup.found
    <2>1. /\ lookup.nodeDepth = scan.nodeDepth
          /\ lookup.currentInterface = scan.currentInterface
          /\ PropertyDeclarations = {} /\ lookup.type = NoName
        BY <1>2, <1>8
    <2>2. /\ lookup' \in Lookups
          /\ lookup'.nodeDepth = scan'.nodeDepth
          /\ lookup'.currentInterface = scan'.currentInterface
        <3>1. t.tag = "node" => t.edge \in {"start", "end"}
            BY <1>1, FollowingFacts
        <3>2. lookup' \in Lookups /\ lookup'.nodeDepth = scan'.nodeDepth
            BY <1>8, <2>1, <3>1, LookupFields, DepthStep
        <3>3. CASE t.tag = "interface" /\ scan.nodeDepth <= 1
            BY <1>8, <2>1, <3>3, LookupFields, DepthStep
        <3>4. CASE ~(t.tag = "interface" /\ scan.nodeDepth <= 1)
            <4>1. lookup'.currentInterface = lookup.currentInterface
                BY <1>8, <2>1, <3>4, LookupFields
            <4>2. scan'.currentInterface = scan.currentInterface
                BY <3>4, DepthStep
            <4> QED
                BY <2>1, <3>2, <4>1, <4>2
        <3> QED
            BY <3>2, <3>3, <3>4
    <2>3. IF t.tag = "property" /\ scan.nodeDepth <= 1
             /\ scan.currentInterface = asked.interface /\ t.name = asked.property
          THEN lookup'.found /\ lookup'.type = t.type
          ELSE ~lookup'.found /\ lookup'.type = NoName
        BY <1>8, <2>1, LookupFields
    <2>4. DeclaresProperty(t) <=>
            t.tag = "property" /\ scan.nodeDepth <= 1
             /\ scan.currentInterface = asked.interface /\ t.name = asked.property
        <3> SUFFICES ASSUME t.tag = "property"
                     PROVE  DeclaresProperty(t) <=>
                                scan.nodeDepth <= 1 /\ scan.currentInterface = asked.interface
                                    /\ t.name = asked.property
            BY DEF DeclaresProperty
        <3>1. PICK d \in Nat, l \in Nat : d = scan.nodeDepth /\ l = Len(open)
            BY <1>1, LevelFacts
        <3>2. /\ d > 0 /\ doc[t.in].tag = "interface" /\ l = d + 1 /\ t.in = open[l]
              /\ doc[t.in].in = open[d] /\ (d > 1 => open[d] # 1) /\ open[1] = 1
            BY <1>1, <1>3, <3>1, LevelFacts
        <3>3. doc[t.in].in = 1 <=> d <= 1
            <4>1. d <= 1 => d = 1
                BY <3>2
            <4>2. ~(d <= 1) => d > 1
                OBVIOUS
            <4> QED
                BY <3>2, <4>1, <4>2
        <3>4. d <= 1 => scan.currentInterface = doc[t.in].name
            <4> SUFFICES ASSUME d <= 1 PROVE scan.currentInterface = doc[t.in].name
                OBVIOUS
            <4>1. d = 1 /\ l = 2
                BY <3>2
            <4>2. scan.currentInterface = InnerInterface
                BY DEF Reads, DocInv, MethodScanOK
            <4> QED
                <5>1. scan.nodeDepth = 1 /\ Len(open) = 2 /\ t.in = open[2]
                    BY <3>1, <3>2, <4>1
                <5> QED
                    BY <4>2, <5>1 DEF InnerInterface
        <3> QED
            BY <3>1, <3>2, <3>3, <3>4 DEF DeclaresProperty
    <2>5. CASE DeclaresProperty(t)
        <3>1. PropertyDeclarations' = {m} /\ lookup'.found /\ lookup'.type = doc'[m].type
            BY <1>5, <1>6, <2>1, <2>3, <2>4, <2>5
        <3>2. m <= m
            BY <1>4
        <3> QED
            BY <2>2, <3>1, <3>2 DEF PropertyScanOK
    <2>6. CASE ~DeclaresProperty(t)
        <3>1. PropertyDeclarations' = {} /\ ~lookup'.found /\ lookup'.type = NoName
            BY <1>6, <2>1, <2>3, <2>4, <2>6
        <3> QED
            BY <2>2, <3>1 DEF PropertyScanOK
    <2> QED
        BY <2>5, <2>6
<1> QED
    BY <1>7, <1>8

\* A token read later changes nothing about the earlier ones.
LEMMA ContinueKeeps ==
    ASSUME DocInv, Continue
    PROVE  DocInv'
<1>1. PICK t \in Following : Reads(t)
    BY DEF Continue, Reads
<1>2. t \in Tokens /\ t.in \in 1 .. Len(doc) /\ DocumentOK /\ Read(t)
    BY <1>1, FollowingFacts DEF Reads, DocInv
<1>3. DocumentOK'
    BY <1>2, ReadFacts
<1>4. OpenOK'
    BY <1>1, DepthStep, NestingStep
<1> QED
    BY <1>1, <1>3, <1>4, MethodStep, PropertyStep DEF DocInv

\* Before the first token nothing is open, declared or found.
LEMMA BeginKeeps ==
    ASSUME DocInv, Begin
    PROVE  DocInv'
<1>1. /\ doc = <<>> /\ Read(Root)
      /\ scan' = ScanNode(scan, Root) /\ lookup' = ScanNode(lookup, Root)
    BY DEF Begin
<1>2. Root \in Tokens /\ Root.edge = "start" /\ Root.tag = "node" /\ Root.in = 0
    BY DEF Root, Token, Tokens, Labels
<1>3. Len(doc) = 0 /\ Len(doc') = 1 /\ doc'[1] = Root /\ doc' \in Seq(Tokens)
    <2>1. doc \in Seq(Tokens) /\ Len(doc) = 0
        BY <1>1, EmptySeq
    <2>2. doc' = Append(doc, Root)
        BY <1>1 DEF Read
    <2> QED
        BY <1>2, <2>1, <2>2, AppendProperties
<1>4. Len(open) = 0 /\ open \in Seq(Nat) /\ scan.nodeDepth = 0
    <2>1. open \in Seq(Nat) /\ Len(open) \in Nat
            /\ \A j \in 1 .. Len(open) : open[j] \in 1 .. Len(doc)
        BY DEF DocInv, OpenOK
    <2>2. Len(open) = 0
        <3> SUFFICES ASSUME Len(open) # 0 PROVE FALSE
            OBVIOUS
        <3>1. 1 \in 1 .. Len(open)
            BY <2>1
        <3>2. open[1] \in 1 .. 0
            BY <1>3, <2>1, <3>1
        <3> QED
            BY <3>2
    <2>3. scan.nodeDepth \in 0 .. Len(open)
        BY DEF DocInv, OpenOK
    <2> QED
        BY <2>1, <2>2, <2>3
<1>5. Len(open') = 1 /\ open'[1] = 1 /\ open' \in Seq(Nat)
    <2>1. open' = Append(open, Len(doc) + 1)
        BY <1>1, <1>2 DEF Read
    <2> QED
        BY <1>3, <1>4, <2>1, AppendProperties
<1>6. DocumentOK'
    BY <1>3 DEF DocumentOK
<1>7. /\ scan \in Scans /\ scan.currentInterface = NoName /\ ~scan.inMethod
      /\ Len(scan.candidates) = 0
    <2>1. scan \in Scans /\ scan.currentInterface = NoName /\ ~scan.inMethod
        BY <1>4 DEF DocInv, MethodScanOK, InnerInterface, InDeclaration
    <2>2. Completed = {}
        BY <1>3 DEF Completed, Declarations
    <2>3. Len(scan.candidates) \in Nat
        BY <2>1 DEF Scans
    <2>4. PICK f \in [1 .. Len(scan.candidates) -> {}] : TRUE
        BY <2>2 DEF DocInv, MethodScanOK, CandidatesOK
    <2>5. 1 \notin 1 .. Len(scan.candidates)
        BY <2>4
    <2> QED
        BY <2>1, <2>3, <2>5
<1>8. PICK r : r = scan'
    OBVIOUS
<1>9. /\ scan' \in Scans /\ scan'.nodeDepth = 1 /\ scan'.currentInterface = NoName
      /\ scan'.inMethod = scan.inMethod /\ scan'.candidates = scan.candidates
    <2>1. /\ r \in Scans /\ r.nodeDepth = scan.nodeDepth + 1
          /\ r.currentInterface = scan.currentInterface
          /\ r.inMethod = scan.inMethod /\ r.candidates = scan.candidates
        BY <1>1, <1>2, <1>7, <1>8, ScanNodeFields
    <2> QED
        BY <1>4, <1>7, <1>8, <2>1
<1>10. OpenOK'
    BY <1>2, <1>3, <1>5, <1>9 DEF OpenOK
<1>11. Declarations' = {} /\ PropertyDeclarations' = {} /\ PropertyDeclarations = {}
    BY <1>2, <1>3 DEF Declarations, PropertyDeclarations
<1>12. MethodScanOK'
    <2>1. ~InDeclaration' /\ Completed' = {}
        BY <1>5, <1>11 DEF InDeclaration, Completed
    <2>2. InnerInterface' = NoName
        BY <1>5 DEF InnerInterface
    <2>3. CandidatesOK'
        <3>1. Len(scan'.candidates) = 0 /\ [k \in 1 .. 0 |-> k] \in [1 .. 0 -> {}]
            BY <1>7, <1>9
        <3> QED
            BY <2>1, <3>1 DEF CandidatesOK
    <2> QED
        BY <1>7, <1>9, <2>1, <2>2, <2>3 DEF MethodScanOK
<1>13. PropertyScanOK'
    <2>1. /\ lookup \in Lookups /\ ~lookup.found /\ lookup.nodeDepth = 0
          /\ lookup.currentInterface = NoName /\ lookup.type = NoName
        BY <1>4, <1>7, <1>11 DEF DocInv, PropertyScanOK
    <2>2. lookup' = [lookup EXCEPT !.nodeDepth = @ + 1]
        BY <1>1, <1>2 DEF ScanNode
    <2>3. /\ lookup' \in Lookups /\ lookup'.nodeDepth = 1
          /\ lookup'.currentInterface = NoName /\ lookup'.type = NoName
          /\ lookup'.found = lookup.found
        BY <2>1, <2>2 DEF Lookups
    <2> QED
        BY <1>9, <1>11, <2>1, <2>3 DEF PropertyScanOK
<1> QED
    BY <1>6, <1>10, <1>12, <1>13 DEF DocInv

\* The invariant holds before a document is read.
LEMMA DocumentsStart == DocInit => DocInv
<1> SUFFICES ASSUME DocInit PROVE DocInv
    OBVIOUS
<1>1. doc = <<>> /\ open = <<>> /\ scan = Fresh /\ lookup = FreshLookup
    BY DEF DocInit
<1>2. Len(doc) = 0 /\ Len(open) = 0 /\ doc \in Seq(Tokens) /\ open \in Seq(Nat)
    BY <1>1, EmptySeq
<1>3. DocumentOK
    BY <1>1, <1>2 DEF DocumentOK
<1>4. OpenOK
    BY <1>1, <1>2 DEF OpenOK, Fresh
<1>5. Declarations = {} /\ PropertyDeclarations = {} /\ ~InDeclaration /\ Completed = {}
    BY <1>2 DEF Declarations, PropertyDeclarations, InDeclaration, Completed
<1>6. scan \in Scans
    <2>1. NoCandidate \in Candidates /\ <<>> \in Seq(Candidates) /\ NoName \in Labels
        BY EmptySeq DEF NoCandidate, Candidates, Labels
    <2> QED
        BY <1>1, <2>1 DEF Fresh, Scans
<1>7. CandidatesOK
    <2>1. Len(scan.candidates) = 0 /\ [k \in 1 .. 0 |-> k] \in [1 .. 0 -> {}]
        BY <1>1, EmptySeq DEF Fresh
    <2> QED
        BY <1>5, <2>1 DEF CandidatesOK
<1>8. MethodScanOK
    BY <1>1, <1>2, <1>5, <1>6, <1>7 DEF MethodScanOK, Fresh, InnerInterface
<1>9. PropertyScanOK
    BY <1>1, <1>5 DEF PropertyScanOK, FreshLookup, Fresh, Lookups, Labels
<1> QED
    BY <1>3, <1>4, <1>8, <1>9 DEF DocInv

\* The invariant of a document half read holds throughout.
LEMMA DocumentsInvariant == Spec => []DocInv
<1>1. Init => DocInv
    BY DocumentsStart DEF Init
<1>2. DocInv /\ [Next]_vars => DocInv'
    <2> SUFFICES ASSUME DocInv, [Next]_vars
                 PROVE  DocInv'
        OBVIOUS
    <2>1. CASE Begin
        BY <2>1, BeginKeeps
    <2>2. CASE Continue
        BY <2>2, ContinueKeeps
    <2>3. CASE UNCHANGED docVars
        <3>1. doc' = doc /\ open' = open /\ asked' = asked /\ scan' = scan /\ lookup' = lookup
            BY <2>3 DEF docVars
        <3>2. /\ Declarations' = Declarations /\ PropertyDeclarations' = PropertyDeclarations
              /\ (InDeclaration' <=> InDeclaration) /\ Completed' = Completed
            BY <3>1 DEF Declarations, PropertyDeclarations, InDeclaration, Completed,
                        InOwnInterface, InterfaceOf
        <3>3. DocumentOK' /\ OpenOK' /\ PropertyScanOK'
            BY <3>1, <3>2 DEF DocInv, DocumentOK, OpenOK, PropertyScanOK
        <3>4. \A c, n : Describes(c, n)' <=> Describes(c, n)
            BY <3>1 DEF Describes, ListsTypes, Inputs, InterfaceOf
        <3>5. CandidatesOK'
            BY <3>1, <3>2, <3>4 DEF DocInv, MethodScanOK, CandidatesOK
        <3>6. PICK c, k : c = scan.current /\ k = open[3]
            OBVIOUS
        <3>7. scan.inMethod => Describes(c, k)'
            BY <3>4, <3>6 DEF DocInv, MethodScanOK
        <3>8. scan.inMethod => Describes(scan.current, open[3])'
            BY <3>1, <3>6, <3>7 DEF Describes
        <3>9. InnerInterface' = InnerInterface
            BY <3>1 DEF InnerInterface
        <3>10. MethodScanOK'
            BY <3>1, <3>2, <3>5, <3>8, <3>9 DEF DocInv, MethodScanOK
        <3> QED
            BY <3>3, <3>10 DEF DocInv
    <2> QED
        BY <2>1, <2>2, <2>3 DEF Next, WriteSignature, WriteRule, WriteDocument, DocNext, vars
<1> QED
    BY <1>1, <1>2, PTL DEF Spec

\* At whatever token a document ends, the invariant gives the property.
LEMMA ResolvedIsDeclared == DocInv => ResolvesAsDeclared
<1> SUFFICES ASSUME DocInv PROVE ResolvesAsDeclared
    OBVIOUS
<1>1. MethodAsDeclared
    <2>1. HasError => Resolution = Unresolved("Unavailable")
        BY DEF Resolution
    <2>2. ASSUME ~HasError
          PROVE  /\ Declarations = {} => Resolution = Unresolved("Unavailable")
                 /\ \A n \in Declarations :
                      IF Declarations # {n} THEN Resolution = Unresolved("Ambiguous")
                      ELSE /\ Resolution.state = "Unique"
                           /\ Resolution.interface = InterfaceOf(n)
                           /\ ListsTypes(Resolution.inSignature, Inputs(n))
        <3>1. Len(open) = 0
            BY <2>2, EmptySeq DEF HasError
        <3>2. Completed = Declarations
            BY <3>1 DEF Completed, InDeclaration
        <3>3. PICK c \in Seq(Candidates), l \in Nat : c = scan.candidates /\ l = Len(c)
            BY DEF DocInv, MethodScanOK, Scans
        <3>4. PICK f \in [1 .. l -> Declarations] :
                /\ \A j, k \in 1 .. l : f[j] = f[k] => j = k
                /\ \A n \in Declarations : \E j \in 1 .. l : f[j] = n
                /\ \A j \in 1 .. l : Describes(c[j], f[j])
            BY <3>2, <3>3 DEF DocInv, MethodScanOK, CandidatesOK
        <3>5. c = <<>> <=> l = 0
            BY <3>3, EmptySeq
        <3>6. Declarations = {} => Resolution = Unresolved("Unavailable")
            <4> SUFFICES ASSUME Declarations = {} PROVE c = <<>>
                BY <2>2, <3>3 DEF Resolution
            <4>1. 1 \notin 1 .. l
                BY <3>4
            <4> QED
                BY <3>5, <4>1
        <3>7. ASSUME NEW n \in Declarations, Declarations # {n}
              PROVE  Resolution = Unresolved("Ambiguous")
            <4>1. PICK i \in Declarations : i # n
                BY <3>7
            <4>2. PICK j \in 1 .. l, k \in 1 .. l : f[j] = n /\ f[k] = i
                BY <3>4
            <4>3. j # k
                BY <4>1, <4>2
            <4>4. l > 1 /\ c # <<>>
                BY <3>5, <4>3
            <4> QED
                BY <2>2, <3>3, <4>4 DEF Resolution
        <3>8. ASSUME NEW n \in Declarations, Declarations = {n}
              PROVE  /\ Resolution.state = "Unique"
                     /\ Resolution.interface = InterfaceOf(n)
                     /\ ListsTypes(Resolution.inSignature, Inputs(n))
            <4>1. l # 0
                <5>1. PICK j \in 1 .. l : f[j] = n
                    BY <3>4
                <5> QED
                    BY <5>1
            <4>2. ~(l > 1)
                <5> SUFFICES ASSUME l > 1 PROVE FALSE
                    OBVIOUS
                <5>1. 1 \in 1 .. l /\ 2 \in 1 .. l
                    OBVIOUS
                <5>2. f[1] = n /\ f[2] = n
                    BY <3>8, <5>1
                <5> QED
                    BY <3>4, <5>1, <5>2
            <4>3. 1 \in 1 .. l /\ f[1] = n
                BY <3>8, <4>1
            <4>4. Describes(c[1], n)
                BY <3>4, <4>3
            <4>5. Resolution = [state |-> "Unique", interface |-> c[1].interface,
                                inSignature |-> c[1].inSignature]
                BY <2>2, <3>3, <3>5, <4>1, <4>2 DEF Resolution
            <4> QED
                BY <4>4, <4>5 DEF Describes
        <3> QED
            BY <3>6, <3>7, <3>8
    <2> QED
        BY <2>1, <2>2 DEF MethodAsDeclared
<1>2. PropertyAsDeclared
    <2>1. CASE lookup.found
        <3>1. PICK i \in PropertyDeclarations :
                (\A k \in PropertyDeclarations : i <= k) /\ lookup.type = doc[i].type
            BY <2>1 DEF DocInv, PropertyScanOK
        <3>2. \A n \in PropertyDeclarations : n \in Nat
            BY DEF PropertyDeclarations
        <3>3. \A n \in PropertyDeclarations : (\A k \in PropertyDeclarations : n <= k) => n = i
            BY <3>1, <3>2
        <3> QED
            BY <3>1, <3>3 DEF PropertyAsDeclared
    <2>2. CASE ~lookup.found
        BY <2>2 DEF DocInv, PropertyScanOK, PropertyAsDeclared
    <2> QED
        BY <2>1, <2>2
<1> QED
    BY <1>1, <1>2 DEF ResolvesAsDeclared

\* What is resolved is what the document declares, however long it is.
THEOREM ResolutionIsAsDeclared == Spec => []ResolvesAsDeclared
    BY DocumentsInvariant, ResolvedIsDeclared, PTL

-----------------------------------------------------------------------------
(* Signatures.                                                                *)

\* A part of a text.
LEMMA PartFacts ==
    ASSUME NEW S, NEW s \in Seq(S), NEW i \in 1 .. Len(s) + 1, NEW j \in i - 1 .. Len(s)
    PROVE  /\ SubSeq(s, i, j) \in Seq(S)
           /\ Len(SubSeq(s, i, j)) = j - i + 1
           /\ \A k \in 1 .. j - i + 1 : SubSeq(s, i, j)[k] = s[i + k - 1]
<1>1. i \in Int /\ j \in Int /\ Len(s) \in Nat
    OBVIOUS
<1>2. \A k \in i .. j : s[k] \in S
    BY <1>1
<1>3. /\ SubSeq(s, i, j) \in Seq(S)
      /\ Len(SubSeq(s, i, j)) = IF i <= j THEN j - i + 1 ELSE 0
      /\ \A k \in 1 .. j - i + 1 : SubSeq(s, i, j)[k] = s[i + k - 1]
    BY <1>1, <1>2, SubSeqProperties
<1>4. ~(i <= j) => j - i + 1 = 0
    BY <1>1
<1> QED
    BY <1>3, <1>4

\* A part of a part.
LEMMA PartOfPart ==
    ASSUME NEW S, NEW s \in Seq(S), NEW i \in 1 .. Len(s) + 1, NEW j \in i - 1 .. Len(s),
           NEW k \in 1 .. j - i + 2, NEW l \in k - 1 .. j - i + 1
    PROVE  SubSeq(SubSeq(s, i, j), k, l) = SubSeq(s, i + k - 1, i + l - 1)
<1>1. PICK n \in Nat : n = Len(s)
    OBVIOUS
<1> DEFINE u == SubSeq(s, i, j)
           v == SubSeq(s, i + k - 1, i + l - 1)
<1>2. /\ u \in Seq(S) /\ Len(u) = j - i + 1
      /\ \A m \in 1 .. j - i + 1 : u[m] = s[i + m - 1]
    BY PartFacts
<1>3. i + k - 1 \in 1 .. n + 1 /\ i + l - 1 \in i + k - 1 - 1 .. n
    BY <1>1
<1>4. /\ v \in Seq(S) /\ Len(v) = i + l - 1 - (i + k - 1) + 1
      /\ \A m \in 1 .. i + l - 1 - (i + k - 1) + 1 : v[m] = s[i + k - 1 + m - 1]
    <2> HIDE DEF v
    <2>1. /\ SubSeq(s, i + k - 1, i + l - 1) \in Seq(S)
          /\ Len(SubSeq(s, i + k - 1, i + l - 1)) = i + l - 1 - (i + k - 1) + 1
          /\ \A m \in 1 .. i + l - 1 - (i + k - 1) + 1 :
                SubSeq(s, i + k - 1, i + l - 1)[m] = s[i + k - 1 + m - 1]
        BY <1>1, <1>3, PartFacts
    <2> QED
        BY <2>1 DEF v
<1> HIDE DEF u, v
<1>5. k \in 1 .. Len(u) + 1 /\ l \in k - 1 .. Len(u)
    BY <1>2
<1>6. /\ SubSeq(u, k, l) \in Seq(S) /\ Len(SubSeq(u, k, l)) = l - k + 1
      /\ \A m \in 1 .. l - k + 1 : SubSeq(u, k, l)[m] = u[k + m - 1]
    BY <1>2, <1>5, PartFacts
<1>7. Len(v) = l - k + 1
    BY <1>4
<1>8. ASSUME NEW m \in 1 .. l - k + 1
      PROVE  SubSeq(u, k, l)[m] = v[m]
    <2>1. k + m - 1 \in 1 .. j - i + 1 /\ i + (k + m - 1) - 1 = i + k - 1 + m - 1
        OBVIOUS
    <2>2. m \in 1 .. i + l - 1 - (i + k - 1) + 1
        OBVIOUS
    <2>3. u[k + m - 1] = s[i + (k + m - 1) - 1]
        BY <1>2, <2>1
    <2>4. v[m] = s[i + k - 1 + m - 1]
        BY <1>4, <2>2
    <2> QED
        BY <1>6, <2>1, <2>3, <2>4
<1>9. SubSeq(u, k, l) = v
    BY <1>4, <1>6, <1>7, <1>8, SeqEqual
<1> QED
    BY <1>9 DEF u, v

-----------------------------------------------------------------------------
(* The grammar. *)

\* How much of a text there is to judge.
Weight(x) == 2 * Len(x[2]) + (IF x[1] = "list" THEN 1 ELSE 0)

\* A text to be judged, and what it weighs.
LEMMA PhraseFacts ==
    ASSUME NEW s \in Seq(Chars), NEW a \in Nat, NEW b \in Nat
    PROVE  /\ <<"type", s, a, b>> \in Phrases /\ Weight(<<"type", s, a, b>>) = 2 * Len(s)
           /\ <<"list", s, a, b>> \in Phrases /\ Weight(<<"list", s, a, b>>) = 2 * Len(s) + 1
BY DEF Phrases, Weight

\* The parts of a text that its judgement looks at.
LEMMA SmallerPhrases ==
    ASSUME NEW s \in Seq(Chars), NEW a \in Nat, NEW b \in Nat
    PROVE  /\ Len(s) > 1 /\ a > 0 =>
                LET y == <<"type", Tail(s), a - 1, b>> IN y \in Phrases /\ Weight(y) < 2 * Len(s)
           /\ Len(s) > 4 /\ a > 0 /\ b > 0 =>
                LET y == <<"type", SubSeq(s, 4, Len(s) - 1), a - 1, b - 1>>
                IN  y \in Phrases /\ Weight(y) < 2 * Len(s)
           /\ Len(s) > 2 /\ b > 0 =>
                LET y == <<"list", SubSeq(s, 2, Len(s) - 1), a, b - 1>>
                IN  y \in Phrases /\ Weight(y) < 2 * Len(s)
           /\ \A n \in 1 .. Len(s) :
                /\ LET y == <<"type", SubSeq(s, 1, n), a, b>>
                   IN  y \in Phrases /\ Weight(y) < 2 * Len(s) + 1
                /\ LET y == <<"list", SubSeq(s, n + 1, Len(s)), a, b>>
                   IN  y \in Phrases /\ Weight(y) < 2 * Len(s) + 1
<1>1. PICK l \in Nat : l = Len(s)
    OBVIOUS
<1>2. ASSUME l > 1, a > 0
      PROVE  LET y == <<"type", Tail(s), a - 1, b>> IN y \in Phrases /\ Weight(y) < 2 * l
    <2>1. Tail(s) \in Seq(Chars) /\ Len(Tail(s)) = l - 1 /\ a - 1 \in Nat
        BY <1>1, <1>2
    <2>2. <<"type", Tail(s), a - 1, b>> \in Phrases
            /\ Weight(<<"type", Tail(s), a - 1, b>>) = 2 * Len(Tail(s))
        BY <2>1, PhraseFacts
    <2> QED
        BY <2>1, <2>2
<1>3. ASSUME l > 4, a > 0, b > 0
      PROVE  LET y == <<"type", SubSeq(s, 4, l - 1), a - 1, b - 1>>
             IN  y \in Phrases /\ Weight(y) < 2 * l
    <2>1. 4 \in 1 .. l + 1 /\ l - 1 \in 4 - 1 .. l /\ a - 1 \in Nat /\ b - 1 \in Nat
        BY <1>3
    <2>2. SubSeq(s, 4, l - 1) \in Seq(Chars) /\ Len(SubSeq(s, 4, l - 1)) = l - 1 - 4 + 1
        BY <1>1, <2>1, PartFacts
    <2>3. 2 * (l - 1 - 4 + 1) < 2 * l
        OBVIOUS
    <2>4. PICK u \in Seq(Chars) : u = SubSeq(s, 4, l - 1) /\ Len(u) = l - 1 - 4 + 1
        BY <2>2
    <2>5. <<"type", u, a - 1, b - 1>> \in Phrases /\ Weight(<<"type", u, a - 1, b - 1>>) = 2 * Len(u)
        BY <2>1, PhraseFacts
    <2> QED
        BY Zenon, <2>3, <2>4, <2>5
<1>4. ASSUME l > 2, b > 0
      PROVE  LET y == <<"list", SubSeq(s, 2, l - 1), a, b - 1>>
             IN  y \in Phrases /\ Weight(y) < 2 * l
    <2>1. 2 \in 1 .. l + 1 /\ l - 1 \in 2 - 1 .. l /\ b - 1 \in Nat
        BY <1>4
    <2>2. SubSeq(s, 2, l - 1) \in Seq(Chars) /\ Len(SubSeq(s, 2, l - 1)) = l - 1 - 2 + 1
        BY <1>1, <2>1, PartFacts
    <2>3. 2 * (l - 1 - 2 + 1) + 1 < 2 * l
        OBVIOUS
    <2>4. PICK u \in Seq(Chars) : u = SubSeq(s, 2, l - 1) /\ Len(u) = l - 1 - 2 + 1
        BY <2>2
    <2>5. <<"list", u, a, b - 1>> \in Phrases /\ Weight(<<"list", u, a, b - 1>>) = 2 * Len(u) + 1
        BY <2>1, PhraseFacts
    <2> QED
        BY Zenon, <2>3, <2>4, <2>5
<1>5. ASSUME NEW n \in 1 .. l
      PROVE  /\ LET y == <<"type", SubSeq(s, 1, n), a, b>>
                IN  y \in Phrases /\ Weight(y) < 2 * l + 1
             /\ LET y == <<"list", SubSeq(s, n + 1, l), a, b>>
                IN  y \in Phrases /\ Weight(y) < 2 * l + 1
    <2>1. n \in 1 - 1 .. l /\ n + 1 \in 1 .. l + 1 /\ l \in n + 1 - 1 .. l /\ 1 \in 1 .. l + 1
        OBVIOUS
    <2>2. SubSeq(s, 1, n) \in Seq(Chars) /\ Len(SubSeq(s, 1, n)) = n - 1 + 1
        BY <1>1, <2>1, PartFacts
    <2>3. SubSeq(s, n + 1, l) \in Seq(Chars) /\ Len(SubSeq(s, n + 1, l)) = l - (n + 1) + 1
        BY <1>1, <2>1, PartFacts
    <2>4. 2 * (n - 1 + 1) < 2 * l + 1 /\ 2 * (l - (n + 1) + 1) + 1 < 2 * l + 1
        OBVIOUS
    <2>5. PICK u \in Seq(Chars), v \in Seq(Chars) :
            /\ u = SubSeq(s, 1, n) /\ Len(u) = n - 1 + 1
            /\ v = SubSeq(s, n + 1, l) /\ Len(v) = l - (n + 1) + 1
        BY <2>2, <2>3
    <2>6. /\ <<"type", u, a, b>> \in Phrases /\ Weight(<<"type", u, a, b>>) = 2 * Len(u)
          /\ <<"list", v, a, b>> \in Phrases /\ Weight(<<"list", v, a, b>>) = 2 * Len(v) + 1
        BY PhraseFacts
    <2> QED
        BY Zenon, <2>4, <2>5, <2>6
<1> QED
    BY <1>1, <1>2, <1>3, <1>4, <1>5

\* A text is judged by smaller ones.
LEMMA JudgedByParts ==
    ASSUME NEW x \in Phrases, NEW g, NEW h,
           \A y \in Phrases : Weight(y) < Weight(x) => g[y] = h[y]
    PROVE  Judge(g, x) <=> Judge(h, x)
<1>1. PICK w \in {"type", "list"}, s \in Seq(Chars), a \in Nat, b \in Nat : x = <<w, s, a, b>>
    BY DEF Phrases
<1>2. CASE w = "type"
    <2>1. \A y \in Phrases : Weight(y) < 2 * Len(s) => g[y] = h[y]
        BY <1>1, <1>2, PhraseFacts
    <2>2. IsTypeIn(g, s, a, b) <=> IsTypeIn(h, s, a, b)
        <3>1. Len(s) > 1 /\ a > 0 => g[<<"type", Tail(s), a - 1, b>>] = h[<<"type", Tail(s), a - 1, b>>]
            BY <2>1, SmallerPhrases
        <3>2. Len(s) > 4 /\ a > 0 /\ b > 0 =>
                g[<<"type", SubSeq(s, 4, Len(s) - 1), a - 1, b - 1>>]
                    = h[<<"type", SubSeq(s, 4, Len(s) - 1), a - 1, b - 1>>]
            BY <2>1, SmallerPhrases
        <3>3. Len(s) > 2 /\ b > 0 =>
                g[<<"list", SubSeq(s, 2, Len(s) - 1), a, b - 1>>]
                    = h[<<"list", SubSeq(s, 2, Len(s) - 1), a, b - 1>>]
            BY <2>1, SmallerPhrases
        <3> QED
            BY Zenon, <3>1, <3>2, <3>3 DEF IsTypeIn
    <2> QED
        BY <1>1, <1>2, <2>2 DEF Judge
<1>3. CASE w = "list"
    <2>1. \A y \in Phrases : Weight(y) < 2 * Len(s) + 1 => g[y] = h[y]
        BY <1>1, <1>3, PhraseFacts
    <2>2. IsListIn(g, s, a, b) <=> IsListIn(h, s, a, b)
        <3>1. \A n \in 1 .. Len(s) :
                /\ g[<<"type", SubSeq(s, 1, n), a, b>>] = h[<<"type", SubSeq(s, 1, n), a, b>>]
                /\ g[<<"list", SubSeq(s, n + 1, Len(s)), a, b>>]
                        = h[<<"list", SubSeq(s, n + 1, Len(s)), a, b>>]
            BY <2>1, SmallerPhrases
        <3> QED
            BY Zenon, <3>1 DEF IsListIn
    <2> QED
        BY <1>1, <1>3, <2>2 DEF Judge
<1> QED
    BY <1>2, <1>3

\* Grammar solves the equation that defines it.
LEMMA GrammarIs ==
    \A x \in Phrases : Grammar[x] = Judge(Grammar, x)
<1> DEFINE T == BOOLEAN
           F == [p \in Phrases \X [Phrases -> T] |-> Judge(p[2], p[1])]
           rank == [x \in Phrases |-> Weight(x)]
<1>1. rank \in [Phrases -> Nat]
    <2>1. ASSUME NEW x \in Phrases PROVE Weight(x) \in Nat
        <3>1. PICK w \in {"type", "list"}, s \in Seq(Chars), a \in Nat, b \in Nat :
                x = <<w, s, a, b>>
            BY DEF Phrases
        <3>2. 2 * Len(s) \in Nat /\ 2 * Len(s) + 1 \in Nat
            OBVIOUS
        <3>3. Weight(<<"type", s, a, b>>) \in Nat /\ Weight(<<"list", s, a, b>>) \in Nat
            BY <3>2, PhraseFacts
        <3> QED
            BY <3>1, <3>3
    <2> QED
        BY <2>1
<1>2. \A g, x : Judge(g, x) \in BOOLEAN
    BY DEF Judge, IsTypeIn, IsListIn
<1>3. F \in [Phrases \X [Phrases -> T] -> T]
    BY <1>2
<1>4. ASSUME NEW x \in Phrases, NEW g \in [Phrases -> T], NEW h \in [Phrases -> T],
             \A y \in Phrases : rank[y] < rank[x] => g[y] = h[y]
      PROVE  F[<<x, g>>] = F[<<x, h>>]
    <2>1. \A y \in Phrases : Weight(y) < Weight(x) => g[y] = h[y]
        BY <1>4
    <2>2. Judge(g, x) <=> Judge(h, x)
        BY <2>1, JudgedByParts
    <2>3. Judge(g, x) = Judge(h, x)
        BY <1>2, <2>2
    <2> QED
        BY <2>3
<1>5. \A x \in Phrases : \A g \in [Phrases -> T] : F[<<x, g>>] = Judge(g, x)
    OBVIOUS
<1>10. T # {}
    OBVIOUS
<1>11. IsRecursion(Phrases, T, rank, F)
    <2> HIDE DEF F, rank, T
    <2> QED
        BY <1>1, <1>3, <1>4, <1>10 DEF IsRecursion
<1> HIDE DEF F, rank
<1>6. PICK f \in [Phrases -> T] : \A x \in Phrases : f[x] = F[<<x, f>>]
    BY <1>11, RecursionExists
<1>7. f = [x \in Phrases |-> Judge(f, x)]
    BY <1>5, <1>6
<1>8. Grammar = CHOOSE g : g = [x \in Phrases |-> Judge(g, x)]
    BY DEF Grammar
<1>9. Grammar = [x \in Phrases |-> Judge(Grammar, x)]
    BY <1>7, <1>8
<1> QED
    BY <1>9

\* s from place i up to place j, and what the grammar says of it.
TypeBetween(s, i, j, a, b) == IsType(SubSeq(s, i, j - 1), a, b)
ListBetween(s, i, j, a, b) == Grammar[<<"list", SubSeq(s, i, j - 1), a, b>>]

\* The rest of a text is a part of it.
LEMMA TailIsPart ==
    ASSUME NEW S, NEW s \in Seq(S), Len(s) > 1
    PROVE  Tail(s) = SubSeq(s, 2, Len(s))
<1>1. PICK l \in Nat : l = Len(s)
    OBVIOUS
<1>2. 2 \in 1 .. l + 1 /\ l \in 2 - 1 .. l
    BY <1>1
<1>3. /\ SubSeq(s, 2, l) \in Seq(S) /\ Len(SubSeq(s, 2, l)) = l - 2 + 1
      /\ \A k \in 1 .. l - 2 + 1 : SubSeq(s, 2, l)[k] = s[2 + k - 1]
    BY <1>1, <1>2, PartFacts
<1>4. /\ Tail(s) \in Seq(S) /\ Len(Tail(s)) = l - 1
      /\ \A k \in 1 .. l - 1 : Tail(s)[k] = s[k + 1]
    BY <1>1
<1>5. \A k \in 1 .. l - 1 : Tail(s)[k] = SubSeq(s, 2, l)[k]
    <2> SUFFICES ASSUME NEW k \in 1 .. l - 1 PROVE Tail(s)[k] = SubSeq(s, 2, l)[k]
        OBVIOUS
    <2>1. k \in 1 .. l - 2 + 1 /\ 2 + k - 1 = k + 1
        OBVIOUS
    <2> QED
        BY <1>3, <1>4, <2>1
<1>6. l - 2 + 1 = l - 1
    OBVIOUS
<1> QED
    BY <1>1, <1>3, <1>4, <1>5, <1>6, SeqEqual

\* When a part of a text is a type.
LEMMA TypeParts ==
    ASSUME NEW s \in Seq(Chars), NEW i \in 1 .. Len(s) + 1, NEW j \in i .. Len(s) + 1,
           NEW a \in Nat, NEW b \in Nat
    PROVE  TypeBetween(s, i, j, a, b) <=>
            \/ j = i + 1 /\ s[i] \in Basic \cup {"v"}
            \/ j > i + 1 /\ s[i] = "a" /\ a > 0 /\ TypeBetween(s, i + 1, j, a - 1, b)
            \/ /\ j > i + 4 /\ s[i] = "a" /\ s[i + 1] = "{" /\ s[j - 1] = "}"
               /\ a > 0 /\ b > 0 /\ s[i + 2] \in Basic
               /\ TypeBetween(s, i + 3, j - 1, a - 1, b - 1)
            \/ /\ j > i + 2 /\ s[i] = "(" /\ s[j - 1] = ")" /\ b > 0
               /\ ListBetween(s, i + 1, j - 1, a, b - 1)
<1>1. PICK n \in Nat : n = Len(s)
    OBVIOUS
<1>2. PICK u : u = SubSeq(s, i, j - 1)
    OBVIOUS
<1>3. PICK l \in Nat : l = j - i
    BY <1>1
<1>4. i \in 1 .. n + 1 /\ j - 1 \in i - 1 .. n /\ l = j - 1 - i + 1
    BY <1>1, <1>3
<1>5. u \in Seq(Chars) /\ Len(u) = l /\ \A k \in 1 .. l : u[k] = s[i + k - 1]
    BY <1>1, <1>2, <1>4, PartFacts
<1>7. TypeBetween(s, i, j, a, b) <=> IsTypeIn(Grammar, u, a, b)
    <2>1. <<"type", u, a, b>> \in Phrases
        BY <1>5, PhraseFacts
    <2>2. Grammar[<<"type", u, a, b>>] = Judge(Grammar, <<"type", u, a, b>>)
        BY <2>1, GrammarIs
    <2> QED
        BY <1>2, <2>2 DEF TypeBetween, IsType, Judge
<1>8. l = 1 => u[1] = s[i] /\ j = i + 1
    BY <1>3, <1>5
<1>9. ASSUME l > 1
      PROVE  /\ j > i + 1 /\ u[1] = s[i]
             /\ \A c \in Nat : Grammar[<<"type", Tail(u), c, b>>] = TypeBetween(s, i + 1, j, c, b)
    <2>1. /\ 2 \in 1 .. j - 1 - i + 2 /\ l \in 2 - 1 .. j - 1 - i + 1
          /\ i + 2 - 1 = i + 1 /\ i + l - 1 = j - 1
        BY <1>3, <1>9
    <2>6. SubSeq(u, 2, l) = SubSeq(s, i + 2 - 1, i + l - 1)
        BY <1>1, <1>2, <1>4, <2>1, PartOfPart
    <2>2. SubSeq(u, 2, l) = SubSeq(s, i + 1, j - 1)
        BY <2>1, <2>6
    <2>3. Tail(u) = SubSeq(s, i + 1, j - 1)
        BY <1>5, <1>9, <2>2, TailIsPart
    <2>4. u[1] = s[i] /\ j > i + 1
        BY <1>3, <1>5, <1>9
    <2>5. \A c \in Nat : Grammar[<<"type", Tail(u), c, b>>] = TypeBetween(s, i + 1, j, c, b)
        BY Zenon, <2>3 DEF TypeBetween, IsType
    <2> QED
        BY Zenon, <2>4, <2>5
<1>10. ASSUME l > 4
       PROVE  /\ j > i + 4 /\ u[1] = s[i] /\ u[2] = s[i + 1] /\ u[3] = s[i + 2]
              /\ Last(u) = s[j - 1]
              /\ \A c, d \in Nat : Grammar[<<"type", SubSeq(u, 4, Len(u) - 1), c, d>>]
                        = TypeBetween(s, i + 3, j - 1, c, d)
    <2>1. /\ 4 \in 1 .. j - 1 - i + 2 /\ l - 1 \in 4 - 1 .. j - 1 - i + 1
          /\ i + 4 - 1 = i + 3 /\ i + (l - 1) - 1 = j - 1 - 1
        BY <1>3, <1>10
    <2>7. SubSeq(u, 4, l - 1) = SubSeq(s, i + 4 - 1, i + (l - 1) - 1)
        BY <1>1, <1>2, <1>4, <2>1, PartOfPart
    <2>2. SubSeq(u, 4, l - 1) = SubSeq(s, i + 3, j - 1 - 1)
        BY <2>1, <2>7
    <2>3. j > i + 4 /\ 1 \in 1 .. l /\ 2 \in 1 .. l /\ 3 \in 1 .. l /\ l \in 1 .. l
            /\ i + 1 - 1 = i /\ i + 2 - 1 = i + 1 /\ i + 3 - 1 = i + 2 /\ i + l - 1 = j - 1
        BY <1>3, <1>10
    <2>4. u[1] = s[i] /\ u[2] = s[i + 1] /\ u[3] = s[i + 2] /\ u[l] = s[j - 1]
        BY <1>5, <2>3
    <2>5. Last(u) = u[l]
        BY <1>5 DEF Last
    <2>6. \A c, d \in Nat : Grammar[<<"type", SubSeq(u, 4, Len(u) - 1), c, d>>]
                        = TypeBetween(s, i + 3, j - 1, c, d)
        BY Zenon, <1>5, <2>2 DEF TypeBetween, IsType
    <2> QED
        BY Zenon, <2>3, <2>4, <2>5, <2>6
<1>11. ASSUME l > 2
       PROVE  /\ j > i + 2 /\ u[1] = s[i] /\ Last(u) = s[j - 1]
              /\ \A d \in Nat : Grammar[<<"list", SubSeq(u, 2, Len(u) - 1), a, d>>]
                        = ListBetween(s, i + 1, j - 1, a, d)
    <2>1. /\ 2 \in 1 .. j - 1 - i + 2 /\ l - 1 \in 2 - 1 .. j - 1 - i + 1
          /\ i + 2 - 1 = i + 1 /\ i + (l - 1) - 1 = j - 1 - 1
        BY <1>3, <1>11
    <2>7. SubSeq(u, 2, l - 1) = SubSeq(s, i + 2 - 1, i + (l - 1) - 1)
        BY <1>1, <1>2, <1>4, <2>1, PartOfPart
    <2>2. SubSeq(u, 2, l - 1) = SubSeq(s, i + 1, j - 1 - 1)
        BY <2>1, <2>7
    <2>3. j > i + 2 /\ 1 \in 1 .. l /\ l \in 1 .. l /\ i + 1 - 1 = i /\ i + l - 1 = j - 1
        BY <1>3, <1>11
    <2>4. u[1] = s[i] /\ u[l] = s[j - 1]
        BY <1>5, <2>3
    <2>5. Last(u) = u[l]
        BY <1>5 DEF Last
    <2>6. \A d \in Nat : Grammar[<<"list", SubSeq(u, 2, Len(u) - 1), a, d>>]
                        = ListBetween(s, i + 1, j - 1, a, d)
        BY Zenon, <1>5, <2>2 DEF ListBetween
    <2> QED
        BY Zenon, <2>3, <2>4, <2>5, <2>6
<1>12. /\ l = 1 <=> j = i + 1
       /\ l > 1 <=> j > i + 1
       /\ l > 4 <=> j > i + 4
       /\ l > 2 <=> j > i + 2
    BY <1>3
<1>13. /\ a > 0 => a - 1 \in Nat
       /\ b > 0 => b - 1 \in Nat
    OBVIOUS
<1>14. Len(u) = 1 /\ u[1] \in Basic \cup {"v"} <=> j = i + 1 /\ s[i] \in Basic \cup {"v"}
    BY <1>5, <1>8, <1>12
<1>15. (/\ Len(u) > 1 /\ u[1] = "a" /\ a > 0
        /\ Grammar[<<"type", Tail(u), a - 1, b>>])
        <=> j > i + 1 /\ s[i] = "a" /\ a > 0 /\ TypeBetween(s, i + 1, j, a - 1, b)
    BY Zenon, <1>5, <1>9, <1>12, <1>13
<1>16. (/\ Len(u) > 4 /\ u[1] = "a" /\ u[2] = "{" /\ Last(u) = "}"
        /\ a > 0 /\ b > 0 /\ u[3] \in Basic
        /\ Grammar[<<"type", SubSeq(u, 4, Len(u) - 1), a - 1, b - 1>>])
        <=> (/\ j > i + 4 /\ s[i] = "a" /\ s[i + 1] = "{" /\ s[j - 1] = "}"
             /\ a > 0 /\ b > 0 /\ s[i + 2] \in Basic
             /\ TypeBetween(s, i + 3, j - 1, a - 1, b - 1))
    BY Zenon, <1>5, <1>10, <1>12, <1>13
<1>17. (/\ Len(u) > 2 /\ u[1] = "(" /\ Last(u) = ")" /\ b > 0
        /\ Grammar[<<"list", SubSeq(u, 2, Len(u) - 1), a, b - 1>>])
        <=> (/\ j > i + 2 /\ s[i] = "(" /\ s[j - 1] = ")" /\ b > 0
             /\ ListBetween(s, i + 1, j - 1, a, b - 1))
    BY Zenon, <1>5, <1>11, <1>12, <1>13
<1> QED
    BY Zenon, <1>7, <1>14, <1>15, <1>16, <1>17 DEF IsTypeIn

\* When a part of a text is a list of types.
LEMMA ListParts ==
    ASSUME NEW s \in Seq(Chars), NEW i \in 1 .. Len(s) + 1, NEW j \in i .. Len(s) + 1,
           NEW a \in Nat, NEW b \in Nat
    PROVE  ListBetween(s, i, j, a, b) <=>
            \/ i = j
            \/ \E k \in i + 1 .. j : TypeBetween(s, i, k, a, b) /\ ListBetween(s, k, j, a, b)
<1>1. PICK n \in Nat : n = Len(s)
    OBVIOUS
<1>2. PICK u : u = SubSeq(s, i, j - 1)
    OBVIOUS
<1>3. PICK l \in Nat : l = j - i
    BY <1>1
<1>4. i \in 1 .. n + 1 /\ j - 1 \in i - 1 .. n /\ l = j - 1 - i + 1
    BY <1>1, <1>3
<1>5. u \in Seq(Chars) /\ Len(u) = l
    BY <1>1, <1>2, <1>4, PartFacts
<1>6. ASSUME NEW m \in 1 .. l
      PROVE  /\ Grammar[<<"type", SubSeq(u, 1, m), a, b>>] = TypeBetween(s, i, i + m, a, b)
             /\ Grammar[<<"list", SubSeq(u, m + 1, Len(u)), a, b>>] = ListBetween(s, i + m, j, a, b)
             /\ i + m \in i + 1 .. j
    <2>1. /\ 1 \in 1 .. j - 1 - i + 2 /\ m \in 1 - 1 .. j - 1 - i + 1
          /\ m + 1 \in 1 .. j - 1 - i + 2 /\ l \in m + 1 - 1 .. j - 1 - i + 1
          /\ i + 1 - 1 = i /\ i + (m + 1) - 1 = i + m /\ i + l - 1 = j - 1
        BY <1>3
    <2>2. SubSeq(u, 1, m) = SubSeq(s, i + 1 - 1, i + m - 1)
        BY <1>1, <1>2, <1>4, <2>1, PartOfPart
    <2>3. SubSeq(u, m + 1, l) = SubSeq(s, i + (m + 1) - 1, i + l - 1)
        BY <1>1, <1>2, <1>4, <2>1, PartOfPart
    <2>4. i + m \in i + 1 .. j
        BY <1>3
    <2>5. SubSeq(u, 1, m) = SubSeq(s, i, i + m - 1) /\ SubSeq(u, m + 1, Len(u)) = SubSeq(s, i + m, j - 1)
        BY <1>5, <2>1, <2>2, <2>3
    <2>6. Grammar[<<"type", SubSeq(u, 1, m), a, b>>] = TypeBetween(s, i, i + m, a, b)
        <3>1. TypeBetween(s, i, i + m, a, b) = Grammar[<<"type", SubSeq(s, i, i + m - 1), a, b>>]
            BY DEF TypeBetween, IsType
        <3>2. SubSeq(u, 1, m) = SubSeq(s, i, i + m - 1)
            BY <2>5
        <3> QED
            BY Zenon, <3>1, <3>2
    <2>7. Grammar[<<"list", SubSeq(u, m + 1, Len(u)), a, b>>] = ListBetween(s, i + m, j, a, b)
        BY Zenon, <2>5 DEF ListBetween
    <2> QED
        BY Zenon, <2>4, <2>6, <2>7
<1>7. ListBetween(s, i, j, a, b) <=> IsListIn(Grammar, u, a, b)
    <2>1. <<"list", u, a, b>> \in Phrases
        BY <1>5, PhraseFacts
    <2>2. Grammar[<<"list", u, a, b>>] = Judge(Grammar, <<"list", u, a, b>>)
        BY <2>1, GrammarIs
    <2> QED
        BY <1>2, <2>2 DEF ListBetween, Judge
<1>8. u = <<>> <=> i = j
    BY <1>3, <1>5
<1>9. \A k \in i + 1 .. j : \E m \in 1 .. l : k = i + m
    <2> SUFFICES ASSUME NEW k \in i + 1 .. j PROVE k - i \in 1 .. l /\ k = i + (k - i)
        OBVIOUS
    <2> QED
        BY <1>3
<1>10. (\E m \in 1 .. Len(u) :
            /\ Grammar[<<"type", SubSeq(u, 1, m), a, b>>]
            /\ Grammar[<<"list", SubSeq(u, m + 1, Len(u)), a, b>>])
        <=> \E k \in i + 1 .. j : TypeBetween(s, i, k, a, b) /\ ListBetween(s, k, j, a, b)
    <2>1. (\E m \in 1 .. l :
            /\ Grammar[<<"type", SubSeq(u, 1, m), a, b>>]
            /\ Grammar[<<"list", SubSeq(u, m + 1, Len(u)), a, b>>])
        <=> \E m \in 1 .. l : TypeBetween(s, i, i + m, a, b) /\ ListBetween(s, i + m, j, a, b)
        BY <1>6
    <2>2. (\E m \in 1 .. l : TypeBetween(s, i, i + m, a, b) /\ ListBetween(s, i + m, j, a, b))
        <=> \E k \in i + 1 .. j : TypeBetween(s, i, k, a, b) /\ ListBetween(s, k, j, a, b)
        BY <1>6, <1>9
    <2> QED
        BY <1>5, <2>1, <2>2
<1> QED
    BY <1>7, <1>8, <1>10 DEF IsListIn

TypeScans == [end : Nat, depth : Nat]

\* The character at a place.
LEMMA AtFacts ==
    ASSUME NEW s \in Seq(Chars), NEW i \in Nat, i > 0
    PROVE  /\ i <= Len(s) => At(s, i) = s[i] /\ s[i] \in Chars /\ At(s, i) # "end"
           /\ i > Len(s) => At(s, i) = "end"
<1>1. "end" \notin Chars
    BY SignaturesAssumption DEF Chars
<1>2. PICK n \in Nat : n = Len(s)
    OBVIOUS
<1>3. i <= n => s[i] \in Chars
    BY <1>2
<1> QED
    BY <1>1, <1>2, <1>3 DEF At

\* No character has two meanings.
LEMMA CharFacts ==
    /\ Basic \cap {"v", "a", "(", ")", "{", "}", "end"} = {}
    /\ Chars = Basic \cup {"v", "a", "(", ")", "{", "}"}
BY SignaturesAssumption DEF Chars

\* One more array or struct, below the limits.
LEMMA LimitFacts ==
    /\ \A x \in 0 .. MaxArrayDepth : x < MaxArrayDepth => x + 1 \in 0 .. MaxArrayDepth
    /\ \A y \in 0 .. MaxStructDepth : y < MaxStructDepth => y + 1 \in 0 .. MaxStructDepth
<1>1. MaxArrayDepth \in Nat /\ MaxStructDepth \in Nat
    BY SignaturesAssumption
<1> QED
    BY <1>1

\* How much of a text there is to scan.
Left(s, p) == 2 * (Len(s) + 1 - p[2]) + (IF p[1] = "fields" THEN 1 ELSE 0)

\* A place to scan from, and what is left of the text there.
LEMMA PlaceFacts ==
    ASSUME NEW s \in Seq(Chars), NEW i \in 1 .. Len(s) + 1,
           NEW x \in 0 .. MaxArrayDepth, NEW y \in 0 .. MaxStructDepth
    PROVE  /\ <<"type", i, x, y>> \in Places(s)
           /\ Left(s, <<"type", i, x, y>>) = 2 * (Len(s) + 1 - i)
           /\ <<"fields", i, x, y>> \in Places(s)
           /\ Left(s, <<"fields", i, x, y>>) = 2 * (Len(s) + 1 - i) + 1
BY DEF Places, Left

\* A scan that ends got ahead, and no further than the text goes.
GetsAhead(s, g, p) ==
    g[p] \in TypeScans /\ (g[p].end = 0 \/ g[p].end \in p[2] + 1 .. Len(s) + 1)

\* A dict entry gets ahead when its value does.
LEMMA EntryGetsAhead ==
    ASSUME NEW s \in Seq(Chars), NEW n \in Nat, n = Len(s), NEW g,
           NEW i \in 1 .. n, i + 1 \in 1 .. n,
           NEW x \in 0 .. MaxArrayDepth, x < MaxArrayDepth, NEW y \in 0 .. MaxStructDepth,
           \A k \in i + 1 .. n + 1, d \in 0 .. MaxArrayDepth, e \in 0 .. MaxStructDepth :
                GetsAhead(s, g, <<"type", k, d, e>>)
    PROVE  LET r == Entry(g, s, i + 2, x + 1, y)
           IN  r \in TypeScans /\ (r.end = 0 \/ r.end \in i + 1 .. n + 1)
<1> DEFINE v == g[<<"type", i + 2 + 1, x + 1, y + 1>>]
<1>1. Malformed \in TypeScans /\ Malformed.end = 0
    BY DEF Malformed, TypeScans
<1>2. CASE ~(y < MaxStructDepth /\ At(s, i + 2) \in Basic /\ v.end > 0 /\ At(s, v.end) = "}")
    BY <1>1, <1>2 DEF Entry
<1>3. CASE y < MaxStructDepth /\ At(s, i + 2) \in Basic /\ v.end > 0 /\ At(s, v.end) = "}"
    <2>1. i + 2 <= n
        <3>1. At(s, i + 2) # "end"
            BY <1>3, CharFacts
        <3> QED
            BY <3>1, AtFacts
    <2>2. i + 2 + 1 \in i + 1 .. n + 1 /\ x + 1 \in 0 .. MaxArrayDepth /\ y + 1 \in 0 .. MaxStructDepth
        <3>1. i + 2 + 1 \in i + 1 .. n + 1
            BY <2>1
        <3> QED
            BY <1>3, <3>1, LimitFacts
    <2>3. GetsAhead(s, g, <<"type", i + 2 + 1, x + 1, y + 1>>)
        BY <2>2
    <2>4. v \in TypeScans /\ (v.end = 0 \/ v.end \in i + 2 + 1 + 1 .. n + 1)
        BY <2>3 DEF GetsAhead
    <2>5. PICK e \in Nat, d \in Nat : v = [end |-> e, depth |-> d]
        BY <2>4 DEF TypeScans
    <2> HIDE DEF v
    <2>6. e \in i + 2 + 1 + 1 .. n + 1 /\ e > 0
        <3>1. v.end > 0 /\ v.end = e
            BY <1>3, <2>5
        <3>2. e = 0 \/ e \in i + 2 + 1 + 1 .. n + 1
            BY <2>4, <3>1
        <3>3. e > 0
            BY <3>1
        <3> QED
            BY <3>2, <3>3
    <2>7. e <= n
        <3>1. At(s, e) # "end"
            BY <1>3, <2>5
        <3> QED
            BY <2>6, <3>1, AtFacts
    <2>8. Entry(g, s, i + 2, x + 1, y) = [end |-> e + 1, depth |-> d + 2]
        <3>1. Entry(g, s, i + 2, x + 1, y) = [end |-> v.end + 1, depth |-> v.depth + 2]
            BY <1>3 DEF Entry, v
        <3> QED
            BY <2>5, <3>1
    <2>9. e + 1 \in i + 1 .. n + 1 /\ e + 1 \in Nat /\ d + 2 \in Nat
        BY <2>6, <2>7
    <2> QED
        BY <2>8, <2>9 DEF TypeScans
<1> QED
    BY <1>2, <1>3

\* A type gets ahead when what is scanned after it does.
LEMMA TypeGetsAhead ==
    ASSUME NEW s \in Seq(Chars), NEW n \in Nat, n = Len(s), NEW g,
           NEW i \in 1 .. n + 1, NEW x \in 0 .. MaxArrayDepth, NEW y \in 0 .. MaxStructDepth,
           \A k \in i + 1 .. n + 1, d \in 0 .. MaxArrayDepth, e \in 0 .. MaxStructDepth :
                /\ GetsAhead(s, g, <<"type", k, d, e>>)
                /\ GetsAhead(s, g, <<"fields", k, d, e>>)
    PROVE  LET r == ScanType(g, s, i, x, y)
           IN  r \in TypeScans /\ (r.end = 0 \/ r.end \in i + 1 .. n + 1)
<1>1. Malformed \in TypeScans /\ Malformed.end = 0
    BY DEF Malformed, TypeScans
<1>2. CASE At(s, i) \in Basic \cup {"v"}
    <2>1. i <= n
        <3>1. At(s, i) # "end"
            BY <1>2, CharFacts
        <3> QED
            BY <3>1, AtFacts
    <2>2. ScanType(g, s, i, x, y) = [end |-> i + 1, depth |-> 0]
        BY <1>2, CharFacts DEF ScanType
    <2>3. i + 1 \in i + 1 .. n + 1 /\ i + 1 \in Nat
        BY <2>1
    <2> QED
        BY <2>2, <2>3 DEF TypeScans
<1>3. CASE At(s, i) = "a" /\ x < MaxArrayDepth
    <2>1. i <= n
        BY <1>3, AtFacts
    <2>2. CASE At(s, i + 1) = "{"
        <3>1. i + 1 <= n
            <4>1. i + 1 \in Nat /\ i + 1 > 0
                OBVIOUS
            <4>2. At(s, i + 1) # "end"
                BY <2>2
            <4> QED
                BY <4>1, <4>2, AtFacts
        <3>2. ScanType(g, s, i, x, y) = Entry(g, s, i + 2, x + 1, y)
            BY <1>3, <2>2, CharFacts DEF ScanType
        <3>3. i \in 1 .. n /\ i + 1 \in 1 .. n
            BY <2>1, <3>1
        <3> QED
            BY <1>3, <3>2, <3>3, EntryGetsAhead
    <2>3. CASE At(s, i + 1) # "{"
        <3>1. ScanType(g, s, i, x, y) = Element(g, i + 1, x + 1, y)
            BY <1>3, <2>3, CharFacts DEF ScanType
        <3>2. i + 1 \in i + 1 .. n + 1 /\ x + 1 \in 0 .. MaxArrayDepth
            BY <1>3, <2>1, LimitFacts
        <3>3. GetsAhead(s, g, <<"type", i + 1, x + 1, y>>)
            BY <3>2
        <3>4. PICK v : v = g[<<"type", i + 1, x + 1, y>>]
            OBVIOUS
        <3>5. v \in TypeScans /\ (v.end = 0 \/ v.end \in i + 1 + 1 .. n + 1)
            BY <3>3, <3>4 DEF GetsAhead
        <3>6. PICK e \in Nat, d \in Nat : v = [end |-> e, depth |-> d]
            BY <3>5 DEF TypeScans
        <3>7. e = 0 => Element(g, i + 1, x + 1, y) = Malformed
            BY <3>4, <3>6 DEF Element
        <3>8. e # 0 => Element(g, i + 1, x + 1, y) = [end |-> e, depth |-> d + 1]
            BY <3>4, <3>6 DEF Element
        <3>9. e # 0 => e \in i + 1 .. n + 1
            BY <3>5, <3>6
        <3>10. [end |-> e, depth |-> d + 1] \in TypeScans
            BY DEF TypeScans
        <3> QED
            BY <1>1, <3>1, <3>7, <3>8, <3>9, <3>10
    <2> QED
        BY <2>2, <2>3
<1>4. CASE At(s, i) = "(" /\ y < MaxStructDepth /\ At(s, i + 1) # ")"
    <2>1. i <= n
        BY <1>4, AtFacts
    <2>2. ScanType(g, s, i, x, y) = g[<<"fields", i + 1, x, y + 1>>]
        BY <1>4, CharFacts DEF ScanType
    <2>3. i + 1 \in i + 1 .. n + 1 /\ y + 1 \in 0 .. MaxStructDepth
        BY <1>4, <2>1, LimitFacts
    <2>4. GetsAhead(s, g, <<"fields", i + 1, x, y + 1>>)
        BY <2>3
    <2>5. PICK v : v = g[<<"fields", i + 1, x, y + 1>>]
        OBVIOUS
    <2>6. v \in TypeScans /\ (v.end = 0 \/ v.end \in i + 1 + 1 .. n + 1)
        BY <2>4, <2>5 DEF GetsAhead
    <2> QED
        BY <2>2, <2>5, <2>6
<1>5. CASE /\ ~(At(s, i) \in Basic \cup {"v"})
           /\ ~(At(s, i) = "a" /\ x < MaxArrayDepth)
           /\ ~(At(s, i) = "(" /\ y < MaxStructDepth /\ At(s, i + 1) # ")")
    <2>1. ScanType(g, s, i, x, y) = Malformed
        BY <1>5 DEF ScanType
    <2> QED
        BY <1>1, <2>1
<1> QED
    BY Zenon, <1>2, <1>3, <1>4, <1>5

\* The fields of a struct get ahead when the first of them does, and the others.
LEMMA FieldsGetAhead ==
    ASSUME NEW s \in Seq(Chars), NEW n \in Nat, n = Len(s), NEW g,
           NEW i \in 1 .. n + 1, NEW x \in 0 .. MaxArrayDepth, NEW y \in 0 .. MaxStructDepth,
           GetsAhead(s, g, <<"type", i, x, y>>),
           \A k \in i + 1 .. n + 1 : GetsAhead(s, g, <<"fields", k, x, y>>)
    PROVE  LET r == ScanFields(g, s, i, x, y)
           IN  r \in TypeScans /\ (r.end = 0 \/ r.end \in i + 1 .. n + 1)
<1>1. Malformed \in TypeScans /\ Malformed.end = 0
    BY DEF Malformed, TypeScans
<1>2. CASE At(s, i) = ")"
    <2>1. i <= n
        BY <1>2, AtFacts
    <2>2. ScanFields(g, s, i, x, y) = [end |-> i + 1, depth |-> 1]
        BY <1>2 DEF ScanFields
    <2>3. i + 1 \in i + 1 .. n + 1 /\ i + 1 \in Nat
        BY <2>1
    <2> QED
        BY <2>2, <2>3 DEF TypeScans
<1>3. CASE At(s, i) # ")"
    <2>1. PICK f : f = g[<<"type", i, x, y>>]
        OBVIOUS
    <2>2. f \in TypeScans /\ (f.end = 0 \/ f.end \in i + 1 .. n + 1)
        BY <2>1 DEF GetsAhead
    <2>3. PICK e \in Nat, d \in Nat : f = [end |-> e, depth |-> d]
        BY <2>2 DEF TypeScans
    <2>4. PICK o : o = g[<<"fields", e, x, y>>]
        OBVIOUS
    <2>5. CASE e = 0 \/ o.end = 0
        <3>1. ScanFields(g, s, i, x, y) = Malformed
            BY <1>3, <2>1, <2>3, <2>4, <2>5 DEF ScanFields
        <3> QED
            BY <1>1, <3>1
    <2>6. CASE e # 0 /\ o.end # 0
        <3>1. e \in i + 1 .. n + 1
            BY <2>2, <2>3, <2>6
        <3>2. GetsAhead(s, g, <<"fields", e, x, y>>)
            BY <3>1
        <3>3. o \in TypeScans /\ (o.end = 0 \/ o.end \in e + 1 .. n + 1)
            BY <2>4, <3>2 DEF GetsAhead
        <3>4. PICK c \in Nat, b \in Nat : o = [end |-> c, depth |-> b]
            BY <3>3 DEF TypeScans
        <3>5. ScanFields(g, s, i, x, y) = [end |-> c, depth |-> Max({d + 1, b})]
            <4>1. f.end = e /\ f.depth = d /\ o.end = c /\ o.depth = b
                BY <2>3, <3>4
            <4>2. o = g[<<"fields", f.end, x, y>>]
                BY <2>4, <4>1
            <4>3. ScanFields(g, s, i, x, y) = [end |-> o.end, depth |-> Max({f.depth + 1, o.depth})]
                BY <1>3, <2>1, <2>6, <4>1, <4>2 DEF ScanFields
            <4> QED
                BY <4>1, <4>3
        <3>6. Max({d + 1, b}) \in Nat
            <4>1. {d + 1, b} \in SUBSET Nat /\ {d + 1, b} # {} /\ d + 1 + b \in Nat
                    /\ \A k \in {d + 1, b} : k <= d + 1 + b
                OBVIOUS
            <4>2. Max({d + 1, b}) \in {d + 1, b}
                BY <4>1, GreatestElement
            <4> QED
                BY <4>1, <4>2
        <3>7. c \in i + 1 .. n + 1
            BY <2>6, <3>1, <3>3, <3>4
        <3>8. [end |-> c, depth |-> Max({d + 1, b})] \in TypeScans
            BY <3>6 DEF TypeScans
        <3> QED
            BY <3>5, <3>7, <3>8
    <2> QED
        BY <2>5, <2>6
<1> QED
    BY <1>2, <1>3

\* How much text is left ranks the places.
LEMMA PlaceRank ==
    ASSUME NEW s \in Seq(Chars)
    PROVE  [p \in Places(s) |-> Left(s, p)] \in [Places(s) -> Nat]
<1>1. PICK n \in Nat : n = Len(s)
    OBVIOUS
<1>2. ASSUME NEW p \in Places(s) PROVE Left(s, p) \in Nat
    <2>1. PICK w \in {"type", "fields"}, i \in 1 .. n + 1,
               x \in 0 .. MaxArrayDepth, y \in 0 .. MaxStructDepth : p = <<w, i, x, y>>
        BY <1>1 DEF Places
    <2>2. 2 * (n + 1 - i) \in Nat /\ 2 * (n + 1 - i) + 1 \in Nat
        OBVIOUS
    <2>3. Left(s, <<"type", i, x, y>>) \in Nat /\ Left(s, <<"fields", i, x, y>>) \in Nat
        BY <1>1, <2>2, PlaceFacts
    <2> QED
        BY <2>1, <2>3
<1> QED
    BY <1>2

\* What a scan looks at has less text left.
LEMMA PlacesAhead ==
    ASSUME NEW s \in Seq(Chars), NEW n \in Nat, n = Len(s), NEW i \in 1 .. n + 1,
           NEW x \in 0 .. MaxArrayDepth, NEW y \in 0 .. MaxStructDepth, NEW p,
           p \in {<<"type", i, x, y>>, <<"fields", i, x, y>>}
    PROVE  /\ \A k \in i + 1 .. n + 1, d \in 0 .. MaxArrayDepth, e \in 0 .. MaxStructDepth :
                /\ <<"type", k, d, e>> \in Places(s)
                /\ Left(s, <<"type", k, d, e>>) < Left(s, p)
                /\ <<"fields", k, d, e>> \in Places(s)
                /\ Left(s, <<"fields", k, d, e>>) < Left(s, p)
           /\ p[1] = "fields" =>
                /\ <<"type", i, x, y>> \in Places(s)
                /\ Left(s, <<"type", i, x, y>>) < Left(s, p)
<1>1. ASSUME NEW k \in i + 1 .. n + 1, NEW d \in 0 .. MaxArrayDepth, NEW e \in 0 .. MaxStructDepth
      PROVE  /\ <<"type", k, d, e>> \in Places(s) /\ <<"fields", k, d, e>> \in Places(s)
             /\ Left(s, <<"type", k, d, e>>) < Left(s, p)
             /\ Left(s, <<"fields", k, d, e>>) < Left(s, p)
    <2>1. /\ 2 * (n + 1 - k) < 2 * (n + 1 - i) /\ 2 * (n + 1 - k) + 1 < 2 * (n + 1 - i)
          /\ 2 * (n + 1 - k) < 2 * (n + 1 - i) + 1 /\ 2 * (n + 1 - k) + 1 < 2 * (n + 1 - i) + 1
        OBVIOUS
    <2>2. k \in 1 .. n + 1
        OBVIOUS
    <2>3. /\ <<"type", k, d, e>> \in Places(s) /\ <<"fields", k, d, e>> \in Places(s)
          /\ Left(s, <<"type", k, d, e>>) = 2 * (n + 1 - k)
          /\ Left(s, <<"fields", k, d, e>>) = 2 * (n + 1 - k) + 1
        BY <2>2, PlaceFacts
    <2>4. /\ Left(s, <<"type", i, x, y>>) = 2 * (n + 1 - i)
          /\ Left(s, <<"fields", i, x, y>>) = 2 * (n + 1 - i) + 1
        BY PlaceFacts
    <2> QED
        BY <2>1, <2>3, <2>4
<1>2. ASSUME p[1] = "fields"
      PROVE  <<"type", i, x, y>> \in Places(s) /\ Left(s, <<"type", i, x, y>>) < Left(s, p)
    <2>1. p = <<"fields", i, x, y>>
        BY <1>2
    <2>2. 2 * (n + 1 - i) < 2 * (n + 1 - i) + 1
        OBVIOUS
    <2> QED
        BY <2>1, <2>2, PlaceFacts
<1> QED
    BY <1>1, <1>2

\* Every scan gets ahead that is made of scans further on.
LEMMA ScansGetAhead ==
    ASSUME NEW s \in Seq(Chars), NEW g,
           \A p \in Places(s) : g[p] = ScanAt(g, s, p) \/ g[p] = Malformed
    PROVE  \A p \in Places(s) : GetsAhead(s, g, p)
<1>1. PICK n \in Nat : n = Len(s)
    OBVIOUS
<1> DEFINE rank == [p \in Places(s) |-> Left(s, p)]
           Q == {p \in Places(s) : GetsAhead(s, g, p)}
<1>2. ASSUME NEW p \in Places(s), \A q \in Places(s) : rank[q] < rank[p] => q \in Q
      PROVE  p \in Q
    <2>1. PICK w \in {"type", "fields"}, i \in 1 .. n + 1,
               x \in 0 .. MaxArrayDepth, y \in 0 .. MaxStructDepth : p = <<w, i, x, y>>
        BY <1>1 DEF Places
    <2>2. \A q \in Places(s) : Left(s, q) < Left(s, p) => q \in Q
        BY <1>2
    <2>3. /\ \A k \in i + 1 .. n + 1, d \in 0 .. MaxArrayDepth, e \in 0 .. MaxStructDepth :
                <<"type", k, d, e>> \in Q /\ <<"fields", k, d, e>> \in Q
          /\ p[1] = "fields" => <<"type", i, x, y>> \in Q
        <3> HIDE DEF Q
        <3>1. p \in {<<"type", i, x, y>>, <<"fields", i, x, y>>}
            BY <2>1
        <3>2. /\ \A k \in i + 1 .. n + 1, d \in 0 .. MaxArrayDepth, e \in 0 .. MaxStructDepth :
                    /\ <<"type", k, d, e>> \in Places(s)
                    /\ Left(s, <<"type", k, d, e>>) < Left(s, p)
                    /\ <<"fields", k, d, e>> \in Places(s)
                    /\ Left(s, <<"fields", k, d, e>>) < Left(s, p)
              /\ p[1] = "fields" =>
                    /\ <<"type", i, x, y>> \in Places(s)
                    /\ Left(s, <<"type", i, x, y>>) < Left(s, p)
            BY <1>1, <3>1, PlacesAhead
        <3> QED
            BY <2>2, <3>2
    <2>4. \A k \in i + 1 .. n + 1, d \in 0 .. MaxArrayDepth, e \in 0 .. MaxStructDepth :
                /\ GetsAhead(s, g, <<"type", k, d, e>>)
                /\ GetsAhead(s, g, <<"fields", k, d, e>>)
        BY <2>3
    <2>5. CASE g[p] = Malformed
        <3>1. Malformed \in TypeScans /\ Malformed.end = 0
            BY DEF Malformed, TypeScans
        <3> QED
            BY <2>5, <3>1 DEF GetsAhead
    <2>6. CASE w = "type" /\ g[p] = ScanAt(g, s, p)
        <3>1. g[p] = ScanType(g, s, i, x, y)
            BY <2>1, <2>6 DEF ScanAt
        <3>2. g[p] \in TypeScans /\ (g[p].end = 0 \/ g[p].end \in i + 1 .. n + 1)
            BY <1>1, <2>4, <3>1, TypeGetsAhead
        <3> QED
            BY <1>1, <2>1, <3>2 DEF GetsAhead
    <2>7. CASE w = "fields" /\ g[p] = ScanAt(g, s, p)
        <3>1. g[p] = ScanFields(g, s, i, x, y)
            BY <2>1, <2>7 DEF ScanAt
        <3>2. GetsAhead(s, g, <<"type", i, x, y>>)
            BY <2>1, <2>3, <2>7
        <3>3. g[p] \in TypeScans /\ (g[p].end = 0 \/ g[p].end \in i + 1 .. n + 1)
            BY <1>1, <2>4, <3>1, <3>2, FieldsGetAhead
        <3> QED
            BY <1>1, <2>1, <3>3 DEF GetsAhead
    <2> QED
        BY <2>5, <2>6, <2>7
<1>3. rank \in [Places(s) -> Nat]
    BY PlaceRank
<1>4. Q \subseteq Places(s)
    OBVIOUS
<1>5. IsInductive(Places(s), rank, Q)
    <2> HIDE DEF rank, Q
    <2> QED
        BY <1>2, <1>3, <1>4 DEF IsInductive
<1>6. Q = Places(s)
    BY <1>5, RankInduction
<1> QED
    BY <1>6

\* Two scans agree further on.
SameFrom(k, g, h) ==
    \A p \in {"type", "fields"} \X k \X (0 .. MaxArrayDepth) \X (0 .. MaxStructDepth) :
        g[p] = h[p]

\* A type is scanned by looking further on.
LEMMA SameType ==
    ASSUME NEW s \in Seq(Chars), NEW n \in Nat, n = Len(s), NEW g, NEW h,
           NEW i \in 1 .. n + 1, NEW x \in 0 .. MaxArrayDepth, NEW y \in 0 .. MaxStructDepth,
           SameFrom(i + 1 .. n + 1, g, h)
    PROVE  ScanType(g, s, i, x, y) = ScanType(h, s, i, x, y)
<1>0. \A k \in i + 1 .. n + 1, d \in 0 .. MaxArrayDepth, e \in 0 .. MaxStructDepth :
            /\ g[<<"type", k, d, e>>] = h[<<"type", k, d, e>>]
            /\ g[<<"fields", k, d, e>>] = h[<<"fields", k, d, e>>]
    BY DEF SameFrom
<1>1. CASE At(s, i) = "a" /\ x < MaxArrayDepth /\ At(s, i + 1) = "{"
    <2>1. i + 1 <= n
        <3>1. i + 1 \in Nat /\ i + 1 > 0
            OBVIOUS
        <3>2. At(s, i + 1) # "end"
            BY <1>1
        <3> QED
            BY <3>1, <3>2, AtFacts
    <2>2. ASSUME y < MaxStructDepth, At(s, i + 2) \in Basic
          PROVE  g[<<"type", i + 2 + 1, x + 1, y + 1>>] = h[<<"type", i + 2 + 1, x + 1, y + 1>>]
        <3>1. i + 2 \in Nat /\ i + 2 > 0
            OBVIOUS
        <3>2. At(s, i + 2) # "end"
            BY <2>2, CharFacts
        <3>3. i + 2 <= n
            BY <3>1, <3>2, AtFacts
        <3>4. i + 2 + 1 \in i + 1 .. n + 1
            BY <3>3
        <3>5. x + 1 \in 0 .. MaxArrayDepth /\ y + 1 \in 0 .. MaxStructDepth
            BY <1>1, <2>2, LimitFacts
        <3> QED
            BY <1>0, <3>4, <3>5
    <2>3. Entry(g, s, i + 2, x + 1, y) = Entry(h, s, i + 2, x + 1, y)
        <3>1. CASE y < MaxStructDepth /\ At(s, i + 2) \in Basic
            BY <2>2, <3>1 DEF Entry
        <3>2. CASE ~(y < MaxStructDepth /\ At(s, i + 2) \in Basic)
            BY <3>2 DEF Entry
        <3> QED
            BY <3>1, <3>2
    <2>4. /\ ScanType(g, s, i, x, y) = Entry(g, s, i + 2, x + 1, y)
          /\ ScanType(h, s, i, x, y) = Entry(h, s, i + 2, x + 1, y)
        BY <1>1, CharFacts DEF ScanType
    <2> QED
        BY <2>3, <2>4
<1>2. CASE At(s, i) = "a" /\ x < MaxArrayDepth /\ At(s, i + 1) # "{"
    <2>1. i <= n
        <3>1. At(s, i) # "end"
            BY <1>2
        <3> QED
            BY <3>1, AtFacts
    <2>2. i + 1 \in i + 1 .. n + 1
        BY <2>1
    <2>3. g[<<"type", i + 1, x + 1, y>>] = h[<<"type", i + 1, x + 1, y>>]
        BY <1>0, <1>2, <2>2, LimitFacts
    <2>4. Element(g, i + 1, x + 1, y) = Element(h, i + 1, x + 1, y)
        BY <2>3 DEF Element
    <2>5. /\ ScanType(g, s, i, x, y) = Element(g, i + 1, x + 1, y)
          /\ ScanType(h, s, i, x, y) = Element(h, i + 1, x + 1, y)
        BY <1>2, CharFacts DEF ScanType
    <2> QED
        BY <2>4, <2>5
<1>3. CASE At(s, i) = "(" /\ y < MaxStructDepth /\ At(s, i + 1) # ")"
    <2>1. i <= n
        BY <1>3, AtFacts
    <2>2. i + 1 \in i + 1 .. n + 1
        BY <2>1
    <2>3. g[<<"fields", i + 1, x, y + 1>>] = h[<<"fields", i + 1, x, y + 1>>]
        BY <1>0, <1>3, <2>2, LimitFacts
    <2>4. /\ ScanType(g, s, i, x, y) = g[<<"fields", i + 1, x, y + 1>>]
          /\ ScanType(h, s, i, x, y) = h[<<"fields", i + 1, x, y + 1>>]
        BY <1>3, CharFacts DEF ScanType
    <2> QED
        BY <2>3, <2>4
<1>4. CASE At(s, i) \in Basic \cup {"v"}
    BY <1>4, CharFacts DEF ScanType
<1>5. CASE /\ ~(At(s, i) \in Basic \cup {"v"})
           /\ ~(At(s, i) = "a" /\ x < MaxArrayDepth)
           /\ ~(At(s, i) = "(" /\ y < MaxStructDepth /\ At(s, i + 1) # ")")
    BY <1>5 DEF ScanType
<1> QED
    BY Zenon, <1>1, <1>2, <1>3, <1>4, <1>5

\* Scan solves the equation that defines it, and gets ahead.
LEMMA ScanIs ==
    ASSUME NEW s \in Seq(Chars)
    PROVE  \A p \in Places(s) : Scan(s)[p] = ScanAt(Scan(s), s, p) /\ GetsAhead(s, Scan(s), p)
<1>1. PICK n \in Nat : n = Len(s)
    OBVIOUS
<1> DEFINE P == Places(s)
           \* The equation, with a fall back where it would not lead on.
           Field(g, p) == g[<<"type", p[2], p[3], p[4]>>]
           Safe(g, p) == p[1] = "fields" => Field(g, p).end = 0 \/ Field(g, p).end \in p[2] + 1 .. n + 1
           Body(g, p) == IF Safe(g, p) /\ ScanAt(g, s, p) \in TypeScans
                         THEN ScanAt(g, s, p) ELSE Malformed
           rank == [p \in P |-> Left(s, p)]
           F == [p \in P \X [P -> TypeScans] |-> Body(p[2], p[1])]
<1>2. Malformed \in TypeScans
    BY DEF Malformed, TypeScans
<1>3. F \in [P \X [P -> TypeScans] -> TypeScans]
    BY <1>2
<1>4. \A p \in P : \A g \in [P -> TypeScans] : F[<<p, g>>] = Body(g, p)
    OBVIOUS
<1>5. ASSUME NEW p \in P, NEW g \in [P -> TypeScans], NEW h \in [P -> TypeScans],
             \A q \in P : rank[q] < rank[p] => g[q] = h[q]
      PROVE  F[<<p, g>>] = F[<<p, h>>]
    <2>1. PICK w \in {"type", "fields"}, i \in 1 .. n + 1,
               x \in 0 .. MaxArrayDepth, y \in 0 .. MaxStructDepth : p = <<w, i, x, y>>
        BY <1>1 DEF Places
    <2>2. \A q \in Places(s) : Left(s, q) < Left(s, p) => g[q] = h[q]
        BY <1>5
    <2>3. /\ \A k \in i + 1 .. n + 1, d \in 0 .. MaxArrayDepth, e \in 0 .. MaxStructDepth :
                /\ g[<<"type", k, d, e>>] = h[<<"type", k, d, e>>]
                /\ g[<<"fields", k, d, e>>] = h[<<"fields", k, d, e>>]
          /\ w = "fields" => g[<<"type", i, x, y>>] = h[<<"type", i, x, y>>]
        <3>1. p \in {<<"type", i, x, y>>, <<"fields", i, x, y>>}
            BY <2>1
        <3>2. /\ \A k \in i + 1 .. n + 1, d \in 0 .. MaxArrayDepth, e \in 0 .. MaxStructDepth :
                    /\ <<"type", k, d, e>> \in Places(s)
                    /\ Left(s, <<"type", k, d, e>>) < Left(s, p)
                    /\ <<"fields", k, d, e>> \in Places(s)
                    /\ Left(s, <<"fields", k, d, e>>) < Left(s, p)
              /\ p[1] = "fields" =>
                    /\ <<"type", i, x, y>> \in Places(s)
                    /\ Left(s, <<"type", i, x, y>>) < Left(s, p)
            BY <1>1, <3>1, PlacesAhead
        <3>3. p[1] = w
            BY <2>1
        <3> QED
            BY <2>2, <3>2, <3>3
    <2>4. CASE w = "type"
        <3>1. ScanType(g, s, i, x, y) = ScanType(h, s, i, x, y)
            <4>1. SameFrom(i + 1 .. n + 1, g, h)
                <5> SUFFICES ASSUME NEW q \in {"type", "fields"} \X (i + 1 .. n + 1)
                                                \X (0 .. MaxArrayDepth) \X (0 .. MaxStructDepth)
                             PROVE  g[q] = h[q]
                    BY DEF SameFrom
                <5>1. PICK v \in {"type", "fields"}, k \in i + 1 .. n + 1,
                           d \in 0 .. MaxArrayDepth, e \in 0 .. MaxStructDepth :
                        q = <<v, k, d, e>>
                    OBVIOUS
                <5>2. q = <<"type", k, d, e>> \/ q = <<"fields", k, d, e>>
                    BY <5>1
                <5>3. /\ g[<<"type", k, d, e>>] = h[<<"type", k, d, e>>]
                      /\ g[<<"fields", k, d, e>>] = h[<<"fields", k, d, e>>]
                    BY <2>3
                <5> QED
                    BY <5>2, <5>3
            <4> QED
                BY <1>1, <4>1, SameType
        <3> QED
            BY <1>4, <2>1, <2>4, <3>1 DEF ScanAt
    <2>5. CASE w = "fields"
        <3>1. g[<<"type", i, x, y>>] = h[<<"type", i, x, y>>]
            BY <2>3, <2>5
        <3>2. PICK f : f = g[<<"type", i, x, y>>] /\ f = h[<<"type", i, x, y>>]
            BY <3>1
        <3>3. CASE f.end = 0 \/ f.end \in i + 1 .. n + 1
            <4>1. f.end \in i + 1 .. n + 1 => g[<<"fields", f.end, x, y>>] = h[<<"fields", f.end, x, y>>]
                BY <2>3
            <4>2. ScanFields(g, s, i, x, y) = ScanFields(h, s, i, x, y)
                BY <3>2, <3>3, <4>1 DEF ScanFields
            <4>3. ScanAt(g, s, p) = ScanAt(h, s, p) /\ Safe(g, p) /\ Safe(h, p)
                BY <2>1, <2>5, <3>2, <3>3, <4>2 DEF ScanAt
            <4> QED
                BY <1>4, <4>3
        <3>4. CASE ~(f.end = 0 \/ f.end \in i + 1 .. n + 1)
            <4>1. ~Safe(g, p) /\ ~Safe(h, p)
                BY <2>1, <2>5, <3>2, <3>4
            <4> QED
                BY <1>4, <4>1
        <3> QED
            BY <3>3, <3>4
    <2> QED
        BY <2>4, <2>5
<1>6. IsRecursion(P, TypeScans, rank, F)
    <2>1. rank \in [P -> Nat]
        BY PlaceRank
    <2>2. TypeScans # {}
        BY <1>2
    <2> HIDE DEF P, rank, F
    <2> QED
        BY <1>3, <1>5, <2>1, <2>2 DEF IsRecursion
<1>7. PICK f \in [P -> TypeScans] : \A p \in P : f[p] = F[<<p, f>>]
    <2> HIDE DEF P, rank, F
    <2> QED
        BY <1>6, RecursionExists
<1>8. \A p \in P : f[p] = Body(f, p)
    BY <1>4, <1>7
<1>9. \A p \in P : GetsAhead(s, f, p)
    <2>1. \A p \in Places(s) : f[p] = ScanAt(f, s, p) \/ f[p] = Malformed
        BY <1>8
    <2> QED
        BY <2>1, ScansGetAhead
<1>10. ASSUME NEW p \in P PROVE f[p] = ScanAt(f, s, p)
    <2>1. PICK w \in {"type", "fields"}, i \in 1 .. n + 1,
               x \in 0 .. MaxArrayDepth, y \in 0 .. MaxStructDepth : p = <<w, i, x, y>>
        BY <1>1 DEF Places
    <2>2. \A k \in i + 1 .. n + 1, d \in 0 .. MaxArrayDepth, e \in 0 .. MaxStructDepth :
                /\ GetsAhead(s, f, <<"type", k, d, e>>)
                /\ GetsAhead(s, f, <<"fields", k, d, e>>)
        <3> SUFFICES ASSUME NEW k \in i + 1 .. n + 1,
                            NEW d \in 0 .. MaxArrayDepth, NEW e \in 0 .. MaxStructDepth
                     PROVE  /\ GetsAhead(s, f, <<"type", k, d, e>>)
                            /\ GetsAhead(s, f, <<"fields", k, d, e>>)
            OBVIOUS
        <3>1. k \in 1 .. n + 1
            OBVIOUS
        <3>2. <<"type", k, d, e>> \in P /\ <<"fields", k, d, e>> \in P
            BY <1>1, <3>1, PlaceFacts
        <3> HIDE DEF P
        <3> QED
            BY <1>9, <3>2
    <2>3. GetsAhead(s, f, <<"type", i, x, y>>)
        <3>1. <<"type", i, x, y>> \in P
            BY <1>1, PlaceFacts
        <3> HIDE DEF P
        <3> QED
            BY <1>9, <3>1
    <2>4. ScanAt(f, s, p) \in TypeScans
        <3>1. CASE w = "type"
            <4>1. ScanType(f, s, i, x, y) \in TypeScans
                BY <1>1, <2>2, TypeGetsAhead
            <4> QED
                BY <2>1, <3>1, <4>1 DEF ScanAt
        <3>2. CASE w = "fields"
            <4>1. ScanFields(f, s, i, x, y) \in TypeScans
                BY <1>1, <2>2, <2>3, FieldsGetAhead
            <4> QED
                BY <2>1, <3>2, <4>1 DEF ScanAt
        <3> QED
            BY <3>1, <3>2
    <2>5. Safe(f, p)
        BY <1>1, <2>1, <2>3 DEF GetsAhead
    <2> QED
        BY <1>8, <2>4, <2>5
<1>11. f = [p \in P |-> ScanAt(f, s, p)]
    <2> HIDE DEF P
    <2> QED
        BY <1>7, <1>10
<1>12. Scan(s) = CHOOSE scn : scn = [p \in Places(s) |-> ScanAt(scn, s, p)]
    BY DEF Scan
<1>13. Scan(s) = [p \in Places(s) |-> ScanAt(Scan(s), s, p)]
    BY <1>11, <1>12
<1>14. \A p \in Places(s) : Scan(s)[p] = ScanAt(Scan(s), s, p)
    BY <1>13
<1>15. \A p \in Places(s) : GetsAhead(s, Scan(s), p)
    BY <1>14, ScansGetAhead
<1> QED
    BY <1>14, <1>15

\* Where a type ends that starts at i, or the fields of a struct; 0 for nowhere.
TypeEnd(s, i, x, y) == Scan(s)[<<"type", i, x, y>>].end
FieldsEnd(s, i, x, y) == Scan(s)[<<"fields", i, x, y>>].end

\* What the scanner does at a place.
LEMMA TypeEndIs ==
    ASSUME NEW s \in Seq(Chars), NEW n \in Nat, n = Len(s), NEW i \in 1 .. n + 1,
           NEW x \in 0 .. MaxArrayDepth, NEW y \in 0 .. MaxStructDepth
    PROVE  /\ TypeEnd(s, i, x, y) = 0 \/ TypeEnd(s, i, x, y) \in i + 1 .. n + 1
           /\ At(s, i) \in Basic \cup {"v"} => TypeEnd(s, i, x, y) = i + 1
           /\ At(s, i) = "a" /\ x < MaxArrayDepth /\ At(s, i + 1) # "{"
                => TypeEnd(s, i, x, y) = TypeEnd(s, i + 1, x + 1, y)
           /\ At(s, i) = "(" /\ y < MaxStructDepth /\ At(s, i + 1) # ")"
                => TypeEnd(s, i, x, y) = FieldsEnd(s, i + 1, x, y + 1)
<1>1. PICK g : g = Scan(s)
    OBVIOUS
<1>2. \A p \in Places(s) : g[p] = ScanAt(g, s, p) /\ GetsAhead(s, g, p)
    BY <1>1, ScanIs
<1>3. g[<<"type", i, x, y>>] = ScanType(g, s, i, x, y)
    BY <1>2, PlaceFacts DEF ScanAt
<1>4. TypeEnd(s, i, x, y) = g[<<"type", i, x, y>>].end
    BY <1>1 DEF TypeEnd
<1>5. TypeEnd(s, i, x, y) = 0 \/ TypeEnd(s, i, x, y) \in i + 1 .. n + 1
    <2>1. GetsAhead(s, g, <<"type", i, x, y>>)
        BY <1>2, PlaceFacts
    <2> QED
        BY <1>4, <2>1 DEF GetsAhead
<1>6. ASSUME At(s, i) \in Basic \cup {"v"} PROVE TypeEnd(s, i, x, y) = i + 1
    <2>1. ScanType(g, s, i, x, y) = [end |-> i + 1, depth |-> 0]
        BY <1>6, CharFacts DEF ScanType
    <2> QED
        BY <1>3, <1>4, <2>1
<1>7. ASSUME At(s, i) = "a", x < MaxArrayDepth, At(s, i + 1) # "{"
      PROVE  TypeEnd(s, i, x, y) = TypeEnd(s, i + 1, x + 1, y)
    <2>1. ScanType(g, s, i, x, y) = Element(g, i + 1, x + 1, y)
        BY <1>7, CharFacts DEF ScanType
    <2>2. i <= n
        <3>1. At(s, i) # "end"
            BY <1>7
        <3> QED
            BY <3>1, AtFacts
    <2>3. i + 1 \in 1 .. n + 1 /\ x + 1 \in 0 .. MaxArrayDepth
        <3>1. i + 1 \in 1 .. n + 1
            BY <2>2
        <3> QED
            BY <1>7, <3>1, LimitFacts
    <2>4. PICK v : v = g[<<"type", i + 1, x + 1, y>>]
        OBVIOUS
    <2>5. v \in TypeScans
        BY <1>2, <2>3, <2>4, PlaceFacts DEF GetsAhead
    <2>6. PICK e \in Nat, d \in Nat : v = [end |-> e, depth |-> d]
        BY <2>5 DEF TypeScans
    <2>7. e = 0 => Element(g, i + 1, x + 1, y) = Malformed
        BY <2>4, <2>6 DEF Element
    <2>8. e # 0 => Element(g, i + 1, x + 1, y) = [end |-> e, depth |-> d + 1]
        BY <2>4, <2>6 DEF Element
    <2>9. Element(g, i + 1, x + 1, y).end = e
        BY <2>7, <2>8 DEF Malformed
    <2>10. TypeEnd(s, i + 1, x + 1, y) = e
        BY <1>1, <2>4, <2>6 DEF TypeEnd
    <2> QED
        BY <1>3, <1>4, <2>1, <2>9, <2>10
<1>8. ASSUME At(s, i) = "(", y < MaxStructDepth, At(s, i + 1) # ")"
      PROVE  TypeEnd(s, i, x, y) = FieldsEnd(s, i + 1, x, y + 1)
    <2>1. ScanType(g, s, i, x, y) = g[<<"fields", i + 1, x, y + 1>>]
        BY <1>8, CharFacts DEF ScanType
    <2> QED
        BY <1>1, <1>3, <1>4, <2>1 DEF FieldsEnd
<1> QED
    BY Zenon, <1>5, <1>6, <1>7, <1>8

\* Where it finds no type.
LEMMA NothingEndIs ==
    ASSUME NEW s \in Seq(Chars), NEW n \in Nat, n = Len(s), NEW i \in 1 .. n + 1,
           NEW x \in 0 .. MaxArrayDepth, NEW y \in 0 .. MaxStructDepth
    PROVE  \/ At(s, i) \in Basic \cup {"v"}
           \/ At(s, i) = "a" /\ x < MaxArrayDepth
           \/ At(s, i) = "(" /\ y < MaxStructDepth /\ At(s, i + 1) # ")"
           \/ TypeEnd(s, i, x, y) = 0
<1>1. PICK g : g = Scan(s)
    OBVIOUS
<1>2. g[<<"type", i, x, y>>] = ScanType(g, s, i, x, y)
    BY <1>1, ScanIs, PlaceFacts DEF ScanAt
<1>3. \/ At(s, i) \in Basic \cup {"v"}
      \/ At(s, i) = "a" /\ x < MaxArrayDepth
      \/ At(s, i) = "(" /\ y < MaxStructDepth /\ At(s, i + 1) # ")"
      \/ ScanType(g, s, i, x, y) = Malformed
    BY Zenon DEF ScanType
<1>4. ScanType(g, s, i, x, y) = Malformed => TypeEnd(s, i, x, y) = 0
    BY <1>1, <1>2 DEF TypeEnd, Malformed
<1> QED
    BY Zenon, <1>3, <1>4

\* What it does at a dict entry.
LEMMA EntryEndIs ==
    ASSUME NEW s \in Seq(Chars), NEW n \in Nat, n = Len(s), NEW i \in 1 .. n + 1,
           NEW x \in 0 .. MaxArrayDepth, NEW y \in 0 .. MaxStructDepth
    PROVE  At(s, i) = "a" /\ x < MaxArrayDepth /\ At(s, i + 1) = "{" =>
           LET e == TypeEnd(s, i + 3, x + 1, y + 1)
               ends == y < MaxStructDepth /\ At(s, i + 2) \in Basic /\ e > 0 /\ At(s, e) = "}"
           IN  /\ ends => TypeEnd(s, i, x, y) = e + 1
               /\ ~ends => TypeEnd(s, i, x, y) = 0
<1>0. SUFFICES ASSUME At(s, i) = "a", x < MaxArrayDepth, At(s, i + 1) = "{"
      PROVE  LET e == TypeEnd(s, i + 3, x + 1, y + 1)
                 ends == y < MaxStructDepth /\ At(s, i + 2) \in Basic /\ e > 0 /\ At(s, e) = "}"
             IN  /\ ends => TypeEnd(s, i, x, y) = e + 1
                 /\ ~ends => TypeEnd(s, i, x, y) = 0
    OBVIOUS
<1>1. PICK g : g = Scan(s)
    OBVIOUS
<1>2. \A p \in Places(s) : g[p] = ScanAt(g, s, p)
    BY <1>1, ScanIs
<1>3. g[<<"type", i, x, y>>] = ScanType(g, s, i, x, y)
    BY <1>2, PlaceFacts DEF ScanAt
<1>4. TypeEnd(s, i, x, y) = g[<<"type", i, x, y>>].end
    BY <1>1 DEF TypeEnd
<1>5. ScanType(g, s, i, x, y) = Entry(g, s, i + 2, x + 1, y)
    BY <1>0, CharFacts DEF ScanType
<1>6. i + 2 + 1 = i + 3
    OBVIOUS
<1> DEFINE v == g[<<"type", i + 3, x + 1, y + 1>>]
<1>7. g[<<"type", i + 2 + 1, x + 1, y + 1>>] = v
    BY <1>6
<1>8. v.end = TypeEnd(s, i + 3, x + 1, y + 1)
    BY <1>1 DEF TypeEnd
<1> HIDE DEF v
<1>9. ASSUME y < MaxStructDepth, At(s, i + 2) \in Basic, v.end > 0, At(s, v.end) = "}"
      PROVE  TypeEnd(s, i, x, y) = v.end + 1
    <2>1. Entry(g, s, i + 2, x + 1, y) = [end |-> v.end + 1, depth |-> v.depth + 2]
        BY <1>7, <1>9 DEF Entry
    <2> QED
        BY <1>3, <1>4, <1>5, <2>1
<1>10. ASSUME ~(y < MaxStructDepth /\ At(s, i + 2) \in Basic /\ v.end > 0 /\ At(s, v.end) = "}")
       PROVE  TypeEnd(s, i, x, y) = 0
    <2>1. Entry(g, s, i + 2, x + 1, y) = Malformed
        BY <1>7, <1>10 DEF Entry
    <2> QED
        BY <1>3, <1>4, <1>5, <2>1 DEF Malformed
<1> QED
    BY Zenon, <1>8, <1>9, <1>10

\* What it does at a field of a struct, or at the struct's end.
LEMMA FieldsEndIs ==
    ASSUME NEW s \in Seq(Chars), NEW n \in Nat, n = Len(s), NEW i \in 1 .. n + 1,
           NEW x \in 0 .. MaxArrayDepth, NEW y \in 0 .. MaxStructDepth
    PROVE  LET e == TypeEnd(s, i, x, y)
           IN  /\ FieldsEnd(s, i, x, y) = 0 \/ FieldsEnd(s, i, x, y) \in i + 1 .. n + 1
               /\ At(s, i) = ")" => FieldsEnd(s, i, x, y) = i + 1
               /\ At(s, i) # ")" /\ e = 0 => FieldsEnd(s, i, x, y) = 0
               /\ At(s, i) # ")" /\ e # 0 => FieldsEnd(s, i, x, y) = FieldsEnd(s, e, x, y)
<1>1. PICK g : g = Scan(s)
    OBVIOUS
<1>2. \A p \in Places(s) : g[p] = ScanAt(g, s, p) /\ GetsAhead(s, g, p)
    BY <1>1, ScanIs
<1>3. g[<<"fields", i, x, y>>] = ScanFields(g, s, i, x, y)
    BY <1>2, PlaceFacts DEF ScanAt
<1>4. FieldsEnd(s, i, x, y) = g[<<"fields", i, x, y>>].end
    BY <1>1 DEF FieldsEnd
<1>5. FieldsEnd(s, i, x, y) = 0 \/ FieldsEnd(s, i, x, y) \in i + 1 .. n + 1
    <2>1. GetsAhead(s, g, <<"fields", i, x, y>>)
        BY <1>2, PlaceFacts
    <2> QED
        BY <1>4, <2>1 DEF GetsAhead
<1>6. ASSUME At(s, i) = ")" PROVE FieldsEnd(s, i, x, y) = i + 1
    <2>1. ScanFields(g, s, i, x, y) = [end |-> i + 1, depth |-> 1]
        BY <1>6 DEF ScanFields
    <2> QED
        BY <1>3, <1>4, <2>1
<1> DEFINE e == TypeEnd(s, i, x, y)
           f == g[<<"type", i, x, y>>]
           o == g[<<"fields", f.end, x, y>>]
<1>7. f.end = e /\ o.end = FieldsEnd(s, e, x, y)
    BY <1>1 DEF TypeEnd, FieldsEnd
<1> HIDE DEF e
<1>8. ASSUME At(s, i) # ")", e = 0 PROVE FieldsEnd(s, i, x, y) = 0
    <2>1. ScanFields(g, s, i, x, y) = Malformed
        BY <1>7, <1>8 DEF ScanFields
    <2> QED
        BY <1>3, <1>4, <2>1 DEF Malformed
<1>9. ASSUME At(s, i) # ")", e # 0 PROVE FieldsEnd(s, i, x, y) = FieldsEnd(s, e, x, y)
    <2>1. CASE o.end = 0
        <3>1. ScanFields(g, s, i, x, y) = Malformed
            BY <1>7, <1>9, <2>1 DEF ScanFields
        <3> QED
            BY <1>3, <1>4, <1>7, <2>1, <3>1 DEF Malformed
    <2>2. CASE o.end # 0
        <3>1. ScanFields(g, s, i, x, y) = [end |-> o.end, depth |-> Max({f.depth + 1, o.depth})]
            BY <1>7, <1>9, <2>2 DEF ScanFields
        <3> QED
            BY <1>3, <1>4, <1>7, <3>1
    <2> QED
        BY <2>1, <2>2
<1> QED
    BY Zenon, <1>5, <1>6, <1>8, <1>9 DEF e

\* Where a type or a struct ends.
LEMMA EndRange ==
    ASSUME NEW s \in Seq(Chars), NEW n \in Nat, n = Len(s), NEW i \in 1 .. n + 1,
           NEW x \in 0 .. MaxArrayDepth, NEW y \in 0 .. MaxStructDepth
    PROVE  /\ TypeEnd(s, i, x, y) = 0 \/ TypeEnd(s, i, x, y) \in i + 1 .. n + 1
           /\ FieldsEnd(s, i, x, y) = 0 \/ FieldsEnd(s, i, x, y) \in i + 1 .. n + 1
BY TypeEndIs, FieldsEndIs

\* What is left of the limits.
LEMMA LimitsLeft ==
    /\ \A x \in 0 .. MaxArrayDepth :
        /\ MaxArrayDepth - x \in Nat /\ (MaxArrayDepth - x > 0 <=> x < MaxArrayDepth)
        /\ MaxArrayDepth - (x + 1) = MaxArrayDepth - x - 1
    /\ \A y \in 0 .. MaxStructDepth :
        /\ MaxStructDepth - y \in Nat /\ (MaxStructDepth - y > 0 <=> y < MaxStructDepth)
        /\ MaxStructDepth - (y + 1) = MaxStructDepth - y - 1
<1>1. MaxArrayDepth \in Nat /\ MaxStructDepth \in Nat
    BY SignaturesAssumption
<1> QED
    BY <1>1

\* What a type starts with.
LEMMA TypeStart ==
    ASSUME NEW s \in Seq(Chars), NEW i \in 1 .. Len(s) + 1, NEW j \in i .. Len(s) + 1,
           NEW a \in Nat, NEW b \in Nat, TypeBetween(s, i, j, a, b)
    PROVE  j > i /\ s[i] \in Basic \cup {"v", "a", "("}
<1>1. \/ j = i + 1 /\ s[i] \in Basic \cup {"v"}
      \/ j > i + 1 /\ s[i] = "a"
      \/ j > i + 4 /\ s[i] = "a"
      \/ j > i + 2 /\ s[i] = "("
    BY TypeParts
<1>2. i \in Nat /\ j \in Nat
    OBVIOUS
<1>3. j > i
    BY <1>1, <1>2
<1>4. s[i] \in Basic \cup {"v", "a", "("}
    BY <1>1
<1> QED
    BY <1>3, <1>4

\* The scanner decides whether a type ends at j, or a struct does.
TypeDecided(s, i, x, y) ==
    \A j \in i .. Len(s) + 1 :
        TypeEnd(s, i, x, y) = j
            <=> TypeBetween(s, i, j, MaxArrayDepth - x, MaxStructDepth - y)

FieldsDecided(s, i, x, y) ==
    \A j \in i + 1 .. Len(s) + 1 :
        FieldsEnd(s, i, x, y) = j
            <=> s[j - 1] = ")" /\ ListBetween(s, i, j - 1, MaxArrayDepth - x, MaxStructDepth - y)

DecidedFrom(s, K) ==
    \A k \in K, x \in 0 .. MaxArrayDepth, y \in 0 .. MaxStructDepth :
        TypeDecided(s, k, x, y) /\ FieldsDecided(s, k, x, y)

\* At a basic type or a variant.
LEMMA BasicDecided ==
    ASSUME NEW s \in Seq(Chars), NEW n \in Nat, n = Len(s), NEW i \in 1 .. n + 1,
           NEW x \in 0 .. MaxArrayDepth, NEW y \in 0 .. MaxStructDepth
    PROVE  At(s, i) \in Basic \cup {"v"} => TypeDecided(s, i, x, y)
<1>7. At(s, i) \in Basic \cup {"v"} => TypeEnd(s, i, x, y) = i + 1
    <2> SUFFICES ASSUME At(s, i) \in Basic \cup {"v"} PROVE TypeEnd(s, i, x, y) = i + 1
        OBVIOUS
    <2>1. ScanType(Scan(s), s, i, x, y) = [end |-> i + 1, depth |-> 0]
        BY CharFacts DEF ScanType
    <2>2. Scan(s)[<<"type", i, x, y>>] = ScanType(Scan(s), s, i, x, y)
        BY ScanIs, PlaceFacts DEF ScanAt
    <2> QED
        BY <2>1, <2>2 DEF TypeEnd
<1>0. SUFFICES ASSUME At(s, i) \in Basic \cup {"v"}, NEW j \in i .. n + 1
               PROVE  TypeEnd(s, i, x, y) = j
                        <=> TypeBetween(s, i, j, MaxArrayDepth - x, MaxStructDepth - y)
    BY DEF TypeDecided
<1>1. i <= n
    <2>1. At(s, i) # "end"
        BY <1>0, CharFacts
    <2> QED
        BY <2>1, AtFacts
<1>2. s[i] \in Basic \cup {"v"} /\ s[i] # "a" /\ s[i] # "("
    <2>1. At(s, i) = s[i]
        BY <1>1, AtFacts
    <2> QED
        BY <1>0, <2>1, CharFacts
<1>3. TypeEnd(s, i, x, y) = i + 1
    BY Zenon, <1>0, <1>7
<1>4. MaxArrayDepth - x \in Nat /\ MaxStructDepth - y \in Nat
    BY LimitsLeft
<1>5. TypeBetween(s, i, j, MaxArrayDepth - x, MaxStructDepth - y)
        => j = i + 1 \/ s[i] = "a" \/ s[i] = "("
    BY <1>4, TypeParts
<1>6. j = i + 1 => TypeBetween(s, i, j, MaxArrayDepth - x, MaxStructDepth - y)
    BY <1>2, <1>4, TypeParts
<1> QED
    BY <1>2, <1>3, <1>5, <1>6

\* At an array that is not a dictionary.
LEMMA ElementDecided ==
    ASSUME NEW s \in Seq(Chars), NEW n \in Nat, n = Len(s), NEW i \in 1 .. n + 1,
           NEW x \in 0 .. MaxArrayDepth, NEW y \in 0 .. MaxStructDepth,
           DecidedFrom(s, i + 1 .. n + 1)
    PROVE  At(s, i) = "a" /\ x < MaxArrayDepth /\ At(s, i + 1) # "{" => TypeDecided(s, i, x, y)
<1> DEFINE t == TypeEnd(s, i, x, y)
           a == MaxArrayDepth - x
           b == MaxStructDepth - y
<1>0. SUFFICES ASSUME At(s, i) = "a", x < MaxArrayDepth, At(s, i + 1) # "{", NEW j \in i .. n + 1
               PROVE  t = j <=> TypeBetween(s, i, j, a, b)
    BY DEF TypeDecided
<1>1. i <= n /\ s[i] = "a"
    <2>1. At(s, i) # "end"
        BY <1>0
    <2>2. i <= n /\ At(s, i) = s[i]
        BY <2>1, AtFacts
    <2> QED
        BY Zenon, <1>0, <2>2
<1>2. i + 1 \in i + 1 .. n + 1 /\ i + 1 \in 1 .. n + 1
    BY <1>1
<1>3. x + 1 \in 0 .. MaxArrayDepth
    BY <1>0, LimitFacts
<1>4. t = TypeEnd(s, i + 1, x + 1, y)
    BY <1>0, TypeEndIs
<1>5. t = 0 \/ t \in i + 1 + 1 .. n + 1
    <2>1. \A k \in 1 .. n + 1 : TypeEnd(s, k, x + 1, y) = 0 \/ TypeEnd(s, k, x + 1, y) \in k + 1 .. n + 1
        BY <1>3, EndRange
    <2> QED
        BY <1>2, <1>4, <2>1
<1>6. a \in Nat /\ b \in Nat /\ a > 0 /\ MaxArrayDepth - (x + 1) = a - 1 /\ a - 1 \in Nat
    BY <1>0, <1>3, LimitsLeft
<1> HIDE DEF t, a
<1>7. \A l \in i + 1 .. n + 1 : t = l <=> TypeBetween(s, i + 1, l, a - 1, b)
    <2>1. TypeDecided(s, i + 1, x + 1, y)
        BY <1>2, <1>3 DEF DecidedFrom
    <2> QED
        BY <1>4, <1>6, <2>1 DEF TypeDecided
<1> HIDE DEF b
<1>8. ~(j > i + 4 /\ s[i + 1] = "{")
    <2>1. j > i + 4 => i + 1 \in Nat /\ i + 1 > 0 /\ i + 1 <= n
        OBVIOUS
    <2>2. j > i + 4 => At(s, i + 1) = s[i + 1]
        BY <2>1, AtFacts
    <2> QED
        BY Zenon, <1>0, <2>2
<1>9. TypeBetween(s, i, j, a, b) <=>
        \/ j = i + 1 /\ s[i] \in Basic \cup {"v"}
        \/ j > i + 1 /\ s[i] = "a" /\ a > 0 /\ TypeBetween(s, i + 1, j, a - 1, b)
        \/ /\ j > i + 4 /\ s[i] = "a" /\ s[i + 1] = "{" /\ s[j - 1] = "}"
           /\ a > 0 /\ b > 0 /\ s[i + 2] \in Basic
           /\ TypeBetween(s, i + 3, j - 1, a - 1, b - 1)
        \/ /\ j > i + 2 /\ s[i] = "(" /\ s[j - 1] = ")" /\ b > 0
           /\ ListBetween(s, i + 1, j - 1, a, b - 1)
    BY <1>6, TypeParts
<1>10. s[i] \notin Basic \cup {"v"} /\ s[i] # "("
    BY <1>1, CharFacts
<1>11. TypeBetween(s, i, j, a, b) <=> j > i + 1 /\ TypeBetween(s, i + 1, j, a - 1, b)
    BY Zenon, <1>1, <1>6, <1>8, <1>9, <1>10
<1>12. j > i + 1 => (t = j <=> TypeBetween(s, i + 1, j, a - 1, b))
    <2>1. j > i + 1 => j \in i + 1 .. n + 1
        OBVIOUS
    <2> QED
        BY <1>7, <2>1
<1>13. t = j => j > i + 1
    BY <1>5
<1> QED
    BY Zenon, <1>11, <1>12, <1>13

\* At a struct that is not empty.
LEMMA StructDecided ==
    ASSUME NEW s \in Seq(Chars), NEW n \in Nat, n = Len(s), NEW i \in 1 .. n + 1,
           NEW x \in 0 .. MaxArrayDepth, NEW y \in 0 .. MaxStructDepth,
           DecidedFrom(s, i + 1 .. n + 1)
    PROVE  At(s, i) = "(" /\ y < MaxStructDepth /\ At(s, i + 1) # ")" => TypeDecided(s, i, x, y)
<1> DEFINE t == TypeEnd(s, i, x, y)
           a == MaxArrayDepth - x
           b == MaxStructDepth - y
<1>a. At(s, i) = "(" /\ y < MaxStructDepth /\ At(s, i + 1) # ")"
        => t = FieldsEnd(s, i + 1, x, y + 1)
    BY TypeEndIs
<1>0. SUFFICES ASSUME At(s, i) = "(", y < MaxStructDepth, At(s, i + 1) # ")", NEW j \in i .. n + 1
               PROVE  t = j <=> TypeBetween(s, i, j, a, b)
    BY DEF TypeDecided
<1>1. i <= n /\ s[i] = "("
    <2>1. At(s, i) # "end"
        BY <1>0
    <2>2. i <= n /\ At(s, i) = s[i]
        BY <2>1, AtFacts
    <2> QED
        BY Zenon, <1>0, <2>2
<1>2. i + 1 \in i + 1 .. n + 1 /\ i + 1 \in 1 .. n + 1
    BY <1>1
<1>3. y + 1 \in 0 .. MaxStructDepth
    BY <1>0, LimitFacts
<1>4. t = FieldsEnd(s, i + 1, x, y + 1)
    BY Zenon, <1>0, <1>a
<1>5. t = 0 \/ t \in i + 1 + 1 .. n + 1
    <2>1. \A k \in 1 .. n + 1 :
            FieldsEnd(s, k, x, y + 1) = 0 \/ FieldsEnd(s, k, x, y + 1) \in k + 1 .. n + 1
        BY <1>3, EndRange
    <2> QED
        BY <1>2, <1>4, <2>1
<1>6. a \in Nat /\ b \in Nat /\ b > 0 /\ MaxStructDepth - (y + 1) = b - 1 /\ b - 1 \in Nat
    BY <1>0, <1>3, LimitsLeft
<1> HIDE DEF t, b
<1>7. \A l \in i + 1 + 1 .. n + 1 :
        t = l <=> s[l - 1] = ")" /\ ListBetween(s, i + 1, l - 1, a, b - 1)
    <2>1. FieldsDecided(s, i + 1, x, y + 1)
        BY <1>2, <1>3 DEF DecidedFrom
    <2> QED
        BY <1>4, <1>6, <2>1 DEF FieldsDecided
<1> HIDE DEF a
<1>8. j = i + 1 + 1 => s[j - 1] # ")"
    <2>1. j = i + 1 + 1 => j - 1 = i + 1 /\ i + 1 \in Nat /\ i + 1 > 0 /\ i + 1 <= n
        OBVIOUS
    <2>2. j = i + 1 + 1 => At(s, i + 1) = s[j - 1]
        BY <2>1, AtFacts
    <2> QED
        BY Zenon, <1>0, <2>2
<1>9. TypeBetween(s, i, j, a, b) <=>
        \/ j = i + 1 /\ s[i] \in Basic \cup {"v"}
        \/ j > i + 1 /\ s[i] = "a" /\ a > 0 /\ TypeBetween(s, i + 1, j, a - 1, b)
        \/ /\ j > i + 4 /\ s[i] = "a" /\ s[i + 1] = "{" /\ s[j - 1] = "}"
           /\ a > 0 /\ b > 0 /\ s[i + 2] \in Basic
           /\ TypeBetween(s, i + 3, j - 1, a - 1, b - 1)
        \/ /\ j > i + 2 /\ s[i] = "(" /\ s[j - 1] = ")" /\ b > 0
           /\ ListBetween(s, i + 1, j - 1, a, b - 1)
    BY <1>6, TypeParts
<1>10. s[i] \notin Basic \cup {"v"} /\ s[i] # "a"
    BY <1>1, CharFacts
<1>11. TypeBetween(s, i, j, a, b)
        <=> j > i + 2 /\ s[j - 1] = ")" /\ ListBetween(s, i + 1, j - 1, a, b - 1)
    BY Zenon, <1>1, <1>6, <1>9, <1>10
<1>12. j > i + 2 \/ j = i + 1 + 1
        => (t = j <=> s[j - 1] = ")" /\ ListBetween(s, i + 1, j - 1, a, b - 1))
    <2>1. j > i + 2 \/ j = i + 1 + 1 => j \in i + 1 + 1 .. n + 1
        OBVIOUS
    <2> QED
        BY <1>7, <2>1
<1>13. t = j => j > i + 2 \/ j = i + 1 + 1
    BY <1>5
<1> QED
    BY Zenon, <1>8, <1>11, <1>12, <1>13

\* At a dictionary.
LEMMA EntryDecided ==
    ASSUME NEW s \in Seq(Chars), NEW n \in Nat, n = Len(s), NEW i \in 1 .. n + 1,
           NEW x \in 0 .. MaxArrayDepth, NEW y \in 0 .. MaxStructDepth,
           DecidedFrom(s, i + 1 .. n + 1)
    PROVE  At(s, i) = "a" /\ x < MaxArrayDepth /\ At(s, i + 1) = "{" => TypeDecided(s, i, x, y)
<1> DEFINE t == TypeEnd(s, i, x, y)
           e == TypeEnd(s, i + 3, x + 1, y + 1)
           a == MaxArrayDepth - x
           b == MaxStructDepth - y
           ends == y < MaxStructDepth /\ At(s, i + 2) \in Basic /\ e > 0 /\ At(s, e) = "}"
<1>a. At(s, i) = "a" /\ x < MaxArrayDepth /\ At(s, i + 1) = "{" =>
        (ends => t = e + 1) /\ (~ends => t = 0)
    BY EntryEndIs
<1>0. SUFFICES ASSUME At(s, i) = "a", x < MaxArrayDepth, At(s, i + 1) = "{", NEW j \in i .. n + 1
               PROVE  t = j <=> TypeBetween(s, i, j, a, b)
    BY DEF TypeDecided
<1>1. i <= n /\ s[i] = "a"
    <2>1. At(s, i) # "end"
        BY <1>0
    <2>2. i <= n /\ At(s, i) = s[i]
        BY <2>1, AtFacts
    <2> QED
        BY Zenon, <1>0, <2>2
<1>2. i + 1 \in Nat /\ i + 1 > 0 /\ i + 2 \in Nat /\ i + 2 > 0
    OBVIOUS
<1>3. i + 1 <= n /\ s[i + 1] = "{"
    <2>1. At(s, i + 1) # "end"
        BY <1>0
    <2>2. i + 1 <= n /\ At(s, i + 1) = s[i + 1]
        BY <1>2, <2>1, AtFacts
    <2> QED
        BY Zenon, <1>0, <2>2
<1>4. a \in Nat /\ b \in Nat /\ a > 0 /\ MaxArrayDepth - (x + 1) = a - 1 /\ a - 1 \in Nat
    <2>1. x < MaxArrayDepth
        BY Zenon, <1>0
    <2>2. a \in Nat /\ b \in Nat /\ a > 0 /\ MaxArrayDepth - (x + 1) = a - 1
        BY <2>1, LimitsLeft
    <2> HIDE DEF a, b
    <2>3. a - 1 \in Nat
        BY <2>2
    <2> QED
        BY <2>2, <2>3
<1>5. (b > 0 <=> y < MaxStructDepth) /\ MaxStructDepth - (y + 1) = b - 1
    BY LimitsLeft
<1>6. x + 1 \in 0 .. MaxArrayDepth
    BY <1>0, LimitFacts
<1> DEFINE reads == j > i + 4 /\ s[j - 1] = "}" /\ b > 0 /\ s[i + 2] \in Basic
                        /\ TypeBetween(s, i + 3, j - 1, a - 1, b - 1)
<1>7. TypeBetween(s, i, j, a, b) <=> reads
    <2>1. TypeBetween(s, i, j, a, b) <=>
            \/ j = i + 1 /\ s[i] \in Basic \cup {"v"}
            \/ j > i + 1 /\ s[i] = "a" /\ a > 0 /\ TypeBetween(s, i + 1, j, a - 1, b)
            \/ /\ j > i + 4 /\ s[i] = "a" /\ s[i + 1] = "{" /\ s[j - 1] = "}"
               /\ a > 0 /\ b > 0 /\ s[i + 2] \in Basic
               /\ TypeBetween(s, i + 3, j - 1, a - 1, b - 1)
            \/ /\ j > i + 2 /\ s[i] = "(" /\ s[j - 1] = ")" /\ b > 0
               /\ ListBetween(s, i + 1, j - 1, a, b - 1)
        BY <1>4, TypeParts
    <2>2. s[i] \notin Basic \cup {"v"} /\ s[i] # "("
        BY <1>1, CharFacts
    <2>3. ~(j > i + 1 /\ TypeBetween(s, i + 1, j, a - 1, b))
        <3>1. s[i + 1] \notin Basic \cup {"v", "a", "("}
            BY <1>3, CharFacts
        <3>2. j > i + 1 => i + 1 \in 1 .. n + 1 /\ j \in i + 1 .. n + 1
            OBVIOUS
        <3>3. j > i + 1 /\ TypeBetween(s, i + 1, j, a - 1, b)
                => s[i + 1] \in Basic \cup {"v", "a", "("}
            <4> HIDE DEF a, b
            <4> QED
                BY <1>4, <3>2, TypeStart
        <3> QED
            BY Zenon, <3>1, <3>3
    <2> QED
        BY Zenon, <1>1, <1>3, <1>4, <2>1, <2>2, <2>3
<1>8. At(s, i + 2) \in Basic <=> i + 2 <= n /\ s[i + 2] \in Basic
    <2>1. At(s, i + 2) \in Basic => At(s, i + 2) # "end"
        BY CharFacts
    <2>2. i + 2 <= n => At(s, i + 2) = s[i + 2]
        BY <1>2, AtFacts
    <2>3. At(s, i + 2) # "end" => i + 2 <= n
        BY <1>2, AtFacts
    <2> QED
        BY Zenon, <2>1, <2>2, <2>3
<1>9. ASSUME i + 2 <= n, y < MaxStructDepth
      PROVE  /\ e = 0 \/ e \in i + 3 + 1 .. n + 1
             /\ \A l \in i + 3 .. n + 1 : e = l <=> TypeBetween(s, i + 3, l, a - 1, b - 1)
    <2>1. i + 3 \in i + 1 .. n + 1 /\ i + 3 \in 1 .. n + 1
        BY <1>9
    <2>2. y + 1 \in 0 .. MaxStructDepth
        BY <1>9, LimitFacts
    <2>3. TypeDecided(s, i + 3, x + 1, y + 1)
        BY <1>6, <2>1, <2>2 DEF DecidedFrom
    <2>4. e = 0 \/ e \in i + 3 + 1 .. n + 1
        <3>1. \A k \in 1 .. n + 1 : TypeEnd(s, k, x + 1, y + 1) = 0
                                    \/ TypeEnd(s, k, x + 1, y + 1) \in k + 1 .. n + 1
            BY <1>6, <2>2, EndRange
        <3> QED
            BY <2>1, <3>1
    <2> HIDE DEF a, b
    <2>5. \A l \in i + 3 .. n + 1 : e = l <=> TypeBetween(s, i + 3, l, a - 1, b - 1)
        BY <1>4, <1>5, <2>3 DEF TypeDecided
    <2> QED
        BY <2>4, <2>5
<1> HIDE DEF t, e, a, b
<1>10. e # 0 /\ i + 2 <= n /\ y < MaxStructDepth =>
            e \in Nat /\ e > 0 /\ (At(s, e) = "}" <=> e <= n /\ s[e] = "}")
    <2>1. e # 0 /\ i + 2 <= n /\ y < MaxStructDepth => e \in Nat /\ e > 0
        BY <1>9
    <2>2. e \in Nat /\ e > 0 /\ At(s, e) # "end" => e <= n
        BY AtFacts
    <2>3. e \in Nat /\ e > 0 /\ e <= n => At(s, e) = s[e]
        BY AtFacts
    <2>4. At(s, e) = "}" => At(s, e) # "end"
        OBVIOUS
    <2> QED
        BY Zenon, <2>1, <2>2, <2>3, <2>4
<1>11. ASSUME t = j PROVE reads
    <2>1. j # 0
        OBVIOUS
    <2>2. ends /\ j = e + 1
        BY Zenon, <1>0, <1>a, <1>11, <2>1
    <2>3. i + 2 <= n /\ s[i + 2] \in Basic /\ y < MaxStructDepth /\ b > 0 /\ e > 0
        BY Zenon, <1>5, <1>8, <2>2
    <2>4. e # 0
        BY <2>3
    <2>5. e <= n /\ s[e] = "}" /\ e \in i + 3 + 1 .. n + 1
        BY Zenon, <1>9, <1>10, <2>2, <2>3, <2>4
    <2> HIDE DEF ends, reads
    <2>8. j = e + 1 /\ e \in i + 3 + 1 .. n + 1
        BY Zenon, <2>2, <2>5
    <2>6. j - 1 = e /\ j > i + 4 /\ e \in i + 3 .. n + 1
        BY <2>8
    <2>7. TypeBetween(s, i + 3, e, a - 1, b - 1)
        BY <1>9, <2>3, <2>6
    <2> QED
        BY <2>3, <2>5, <2>6, <2>7 DEF reads
<1>12. ASSUME reads PROVE t = j
    <2>1. j > i + 4 /\ s[j - 1] = "}" /\ s[i + 2] \in Basic /\ y < MaxStructDepth
            /\ TypeBetween(s, i + 3, j - 1, a - 1, b - 1)
        BY Zenon, <1>5, <1>12
    <2> HIDE DEF ends, reads
    <2>2. j > i + 4 => i + 2 <= n /\ j - 1 \in i + 3 .. n + 1 /\ j - 1 <= n /\ j - 1 # 0
                        /\ j - 1 > 0 /\ j - 1 + 1 = j
        OBVIOUS
    <2>3. i + 2 <= n /\ j - 1 \in i + 3 .. n + 1 /\ j - 1 <= n /\ j - 1 # 0
            /\ j - 1 > 0 /\ j - 1 + 1 = j
        BY Zenon, <2>1, <2>2
    <2>4. e = j - 1
        BY <1>9, <2>1, <2>3
    <2>5. At(s, e) = "}" /\ e > 0
        BY Zenon, <1>10, <2>1, <2>3, <2>4
    <2>6. At(s, i + 2) \in Basic
        BY Zenon, <1>8, <2>1, <2>3
    <2>7. ends
        BY Zenon, <2>1, <2>5, <2>6 DEF ends
    <2>8. t = e + 1
        BY Zenon, <1>0, <1>a, <2>7
    <2> QED
        BY Zenon, <2>3, <2>4, <2>8
<1> QED
    BY Zenon, <1>7, <1>11, <1>12

\* What a list starts with.
LEMMA ListStart ==
    ASSUME NEW s \in Seq(Chars), NEW i \in 1 .. Len(s) + 1, NEW j \in i .. Len(s) + 1,
           NEW a \in Nat, NEW b \in Nat
    PROVE  /\ ListBetween(s, i, i, a, b)
           /\ j # i /\ ListBetween(s, i, j, a, b) => s[i] \in Basic \cup {"v", "a", "("}
<1>1. i \in i .. Len(s) + 1
    OBVIOUS
<1>2. ListBetween(s, i, i, a, b)
    BY <1>1, ListParts
<1>3. ASSUME j # i, ListBetween(s, i, j, a, b) PROVE s[i] \in Basic \cup {"v", "a", "("}
    <2>1. PICK k \in i + 1 .. j : TypeBetween(s, i, k, a, b)
        BY <1>3, ListParts
    <2>2. k \in i .. Len(s) + 1
        OBVIOUS
    <2> QED
        BY <2>1, <2>2, TypeStart
<1> QED
    BY <1>2, <1>3

\* Where nothing starts.
LEMMA OtherDecided ==
    ASSUME NEW s \in Seq(Chars), NEW n \in Nat, n = Len(s), NEW i \in 1 .. n + 1,
           NEW x \in 0 .. MaxArrayDepth, NEW y \in 0 .. MaxStructDepth,
           ~(At(s, i) \in Basic \cup {"v"}), ~(At(s, i) = "a" /\ x < MaxArrayDepth),
           ~(At(s, i) = "(" /\ y < MaxStructDepth /\ At(s, i + 1) # ")")
    PROVE  TypeDecided(s, i, x, y)
<1> DEFINE t == TypeEnd(s, i, x, y)
           a == MaxArrayDepth - x
           b == MaxStructDepth - y
<1>0. SUFFICES ASSUME NEW j \in i .. n + 1 PROVE ~(t = j) /\ ~TypeBetween(s, i, j, a, b)
    BY DEF TypeDecided
<1>1. t = 0
    BY Zenon, NothingEndIs DEF t
<1>2. j # 0
    OBVIOUS
<1>3. a \in Nat /\ b \in Nat /\ (a > 0 <=> x < MaxArrayDepth) /\ (b > 0 <=> y < MaxStructDepth)
    BY LimitsLeft
<1> HIDE DEF t, a, b
<1>4. TypeBetween(s, i, j, a, b) =>
        \/ s[i] \in Basic \cup {"v"}
        \/ s[i] = "a" /\ a > 0
        \/ /\ j > i + 2 /\ s[i] = "(" /\ b > 0
           /\ \E c \in Nat : ListBetween(s, i + 1, j - 1, a, c)
    <2>1. TypeBetween(s, i, j, a, b) =>
            \/ s[i] \in Basic \cup {"v"}
            \/ s[i] = "a" /\ a > 0
            \/ j > i + 2 /\ s[i] = "(" /\ b > 0 /\ ListBetween(s, i + 1, j - 1, a, b - 1)
        BY <1>3, TypeParts
    <2>2. b > 0 => b - 1 \in Nat
        BY <1>3
    <2> QED
        BY Zenon, <2>1, <2>2
<1>5. TypeBetween(s, i, j, a, b) => j > i
    BY <1>3, TypeStart
<1>6. j > i => At(s, i) = s[i]
    <2>1. j > i => i \in Nat /\ i > 0 /\ i <= n
        OBVIOUS
    <2> QED
        BY <2>1, AtFacts
<1>7. ASSUME NEW c \in Nat, j > i + 2, ListBetween(s, i + 1, j - 1, a, c)
      PROVE  At(s, i + 1) # ")"
    <2>1. /\ i + 1 \in 1 .. n + 1 /\ j - 1 \in i + 1 .. n + 1 /\ j - 1 # i + 1
          /\ i + 1 \in Nat /\ i + 1 > 0 /\ i + 1 <= n
        BY <1>7
    <2>2. s[i + 1] \in Basic \cup {"v", "a", "("}
        BY <1>3, <1>7, <2>1, ListStart
    <2>3. At(s, i + 1) = s[i + 1]
        BY <2>1, AtFacts
    <2> QED
        BY <2>2, <2>3, CharFacts
<1>8. TypeBetween(s, i, j, a, b) =>
        \/ At(s, i) \in Basic \cup {"v"}
        \/ At(s, i) = "a" /\ x < MaxArrayDepth
        \/ At(s, i) = "(" /\ y < MaxStructDepth /\ At(s, i + 1) # ")"
    BY Zenon, <1>3, <1>4, <1>5, <1>6, <1>7
<1> QED
    BY Zenon, <1>1, <1>2, <1>8

\* At the end of a struct, or at a field of it.
LEMMA StructEndDecided ==
    ASSUME NEW s \in Seq(Chars), NEW n \in Nat, n = Len(s), NEW i \in 1 .. n + 1,
           NEW x \in 0 .. MaxArrayDepth, NEW y \in 0 .. MaxStructDepth,
           DecidedFrom(s, i + 1 .. n + 1), TypeDecided(s, i, x, y)
    PROVE  FieldsDecided(s, i, x, y)
<1> DEFINE f == FieldsEnd(s, i, x, y)
           e == TypeEnd(s, i, x, y)
           a == MaxArrayDepth - x
           b == MaxStructDepth - y
           closes(j) == s[j - 1] = ")"
           closed == At(s, i) = ")"
<1>1. SUFFICES ASSUME NEW j \in i + 1 .. n + 1
               PROVE  f = j <=> closes(j) /\ ListBetween(s, i, j - 1, a, b)
    BY DEF FieldsDecided
<1>2. a \in Nat /\ b \in Nat
    BY LimitsLeft
<1>3. /\ e = 0 \/ e \in i + 1 .. n + 1
      /\ closed => f = i + 1
      /\ ~closed /\ e = 0 => f = 0
      /\ ~closed /\ e # 0 => f = FieldsEnd(s, e, x, y)
    BY FieldsEndIs, EndRange
<1>4. \A k \in i .. n + 1 : e = k <=> TypeBetween(s, i, k, a, b)
    BY DEF TypeDecided
<1>5. ASSUME NEW k \in i + 1 .. n + 1
      PROVE  /\ FieldsEnd(s, k, x, y) = 0 \/ FieldsEnd(s, k, x, y) \in k + 1 .. n + 1
             /\ \A l \in k + 1 .. n + 1 :
                    FieldsEnd(s, k, x, y) = l <=> closes(l) /\ ListBetween(s, k, l - 1, a, b)
    <2>1. FieldsDecided(s, k, x, y)
        BY <1>5 DEF DecidedFrom
    <2>2. FieldsEnd(s, k, x, y) = 0 \/ FieldsEnd(s, k, x, y) \in k + 1 .. n + 1
        <3>1. k \in 1 .. n + 1
            OBVIOUS
        <3> QED
            BY <3>1, EndRange
    <2>3. \A l \in k + 1 .. n + 1 :
                FieldsEnd(s, k, x, y) = l <=> closes(l) /\ ListBetween(s, k, l - 1, a, b)
        BY <2>1 DEF FieldsDecided
    <2> QED
        BY <2>2, <2>3
<1>6. j - 1 = i => (closed <=> closes(j))
    <2>1. j - 1 = i => i \in Nat /\ i > 0 /\ i <= n
        OBVIOUS
    <2>2. j - 1 = i => At(s, i) = s[j - 1]
        BY <2>1, AtFacts
    <2> QED
        BY Zenon, <2>2
<1>7. j - 1 # i /\ ListBetween(s, i, j - 1, a, b) => ~closed
    <2> HIDE DEF a, b
    <2>1. j - 1 \in i .. n + 1 /\ (j - 1 # i => i \in Nat /\ i > 0 /\ i <= n)
        OBVIOUS
    <2>2. j - 1 # i => At(s, i) = s[i]
        BY <2>1, AtFacts
    <2>3. j - 1 # i /\ ListBetween(s, i, j - 1, a, b) => s[i] \in Basic \cup {"v", "a", "("}
        BY <1>2, <2>1, ListStart
    <2>4. ")" \notin Basic \cup {"v", "a", "("}
        BY CharFacts
    <2> QED
        BY Zenon, <2>2, <2>3, <2>4
<1> HIDE DEF f, e, a, b, closes, closed
<1>8. ListBetween(s, i, i, a, b)
    BY <1>2, ListStart
<1>9. ListBetween(s, i, j - 1, a, b) <=>
        \/ i = j - 1
        \/ \E k \in i + 1 .. j - 1 : TypeBetween(s, i, k, a, b) /\ ListBetween(s, k, j - 1, a, b)
    <2>1. j - 1 \in i .. n + 1
        OBVIOUS
    <2> QED
        BY <1>2, <2>1, ListParts
<1>10. CASE closed
    <2>1. f = i + 1
        BY <1>3, <1>10
    <2>2. f = j <=> j - 1 = i
        BY <2>1
    <2> QED
        BY <1>6, <1>7, <1>9, <1>10, <2>2
<1>11. CASE ~closed /\ e = 0
    <2>1. \A k \in i + 1 .. j - 1 : ~TypeBetween(s, i, k, a, b)
        BY <1>4, <1>11
    <2>2. ~(closes(j) /\ ListBetween(s, i, j - 1, a, b))
        BY <1>6, <1>9, <1>11, <2>1
    <2>3. f = 0 /\ j # 0
        BY <1>3, <1>11
    <2> QED
        BY <2>2, <2>3
<1>12. CASE ~closed /\ e # 0
    <2>1. e \in i + 1 .. n + 1 /\ f = FieldsEnd(s, e, x, y)
        BY <1>3, <1>12
    <2>2. f = 0 \/ f \in e + 1 .. n + 1
        BY <1>5, <2>1
    <2>3. \A l \in e + 1 .. n + 1 : f = l <=> closes(l) /\ ListBetween(s, e, l - 1, a, b)
        BY <1>5, <2>1
    <2>4. ASSUME f = j PROVE closes(j) /\ ListBetween(s, i, j - 1, a, b)
        <3>1. j \in e + 1 .. n + 1 /\ e \in i + 1 .. j - 1 /\ e \in i .. n + 1
            BY <2>1, <2>2, <2>4
        <3>2. closes(j) /\ ListBetween(s, e, j - 1, a, b)
            BY <2>3, <2>4, <3>1
        <3>3. TypeBetween(s, i, e, a, b)
            BY <1>4, <3>1
        <3> QED
            BY <1>9, <3>1, <3>2, <3>3
    <2>5. ASSUME closes(j), ListBetween(s, i, j - 1, a, b) PROVE f = j
        <3>1. i # j - 1
            BY <1>6, <1>12, <2>5
        <3>2. PICK k \in i + 1 .. j - 1 :
                TypeBetween(s, i, k, a, b) /\ ListBetween(s, k, j - 1, a, b)
            BY <1>9, <2>5, <3>1
        <3>3. e = k
            BY <1>4, <3>2
        <3>4. j \in e + 1 .. n + 1 /\ ListBetween(s, e, j - 1, a, b)
            BY <3>2, <3>3
        <3> QED
            BY <2>3, <2>5, <3>4
    <2> QED
        BY <2>4, <2>5
<1> QED
    BY <1>10, <1>11, <1>12

\* The scanner decides at every place of a text.
LEMMA AllDecided ==
    ASSUME NEW s \in Seq(Chars)
    PROVE  DecidedFrom(s, 1 .. Len(s) + 1)
<1>1. PICK n \in Nat : n = Len(s)
    OBVIOUS
<1> DEFINE Q == {m \in Nat : m <= n + 1 => DecidedFrom(s, n + 2 - m .. n + 1)}
<1>2. 0 \in Q
    <2>1. n + 2 - 0 .. n + 1 = {}
        OBVIOUS
    <2> QED
        BY <2>1 DEF DecidedFrom
<1>3. ASSUME NEW m \in Q PROVE m + 1 \in Q
    <2> SUFFICES ASSUME m + 1 <= n + 1 PROVE DecidedFrom(s, n + 2 - (m + 1) .. n + 1)
        OBVIOUS
    <2>1. PICK i \in 1 .. n + 1 : i = n + 2 - (m + 1)
        OBVIOUS
    <2>2. n + 2 - m = i + 1 /\ m <= n + 1
        BY <2>1
    <2>3. DecidedFrom(s, i + 1 .. n + 1)
        BY <2>2
    <2>4. ASSUME NEW x \in 0 .. MaxArrayDepth, NEW y \in 0 .. MaxStructDepth
          PROVE  TypeDecided(s, i, x, y)
        <3>1. At(s, i) \in Basic \cup {"v"} => TypeDecided(s, i, x, y)
            BY <1>1, BasicDecided
        <3>2. At(s, i) = "a" /\ x < MaxArrayDepth /\ At(s, i + 1) # "{" => TypeDecided(s, i, x, y)
            BY <1>1, <2>3, ElementDecided
        <3>3. At(s, i) = "a" /\ x < MaxArrayDepth /\ At(s, i + 1) = "{" => TypeDecided(s, i, x, y)
            BY <1>1, <2>3, EntryDecided
        <3>4. At(s, i) = "(" /\ y < MaxStructDepth /\ At(s, i + 1) # ")" => TypeDecided(s, i, x, y)
            BY <1>1, <2>3, StructDecided
        <3>5. ASSUME ~(At(s, i) \in Basic \cup {"v"}), ~(At(s, i) = "a" /\ x < MaxArrayDepth),
                     ~(At(s, i) = "(" /\ y < MaxStructDepth /\ At(s, i + 1) # ")")
              PROVE  TypeDecided(s, i, x, y)
            BY <1>1, <3>5, OtherDecided
        <3> QED
            BY Zenon, <3>1, <3>2, <3>3, <3>4, <3>5
    <2>5. ASSUME NEW x \in 0 .. MaxArrayDepth, NEW y \in 0 .. MaxStructDepth
          PROVE  FieldsDecided(s, i, x, y)
        BY <1>1, <2>3, <2>4, StructEndDecided
    <2>6. \A k \in i .. n + 1 : k = i \/ k \in i + 1 .. n + 1
        OBVIOUS
    <2>7. DecidedFrom(s, i .. n + 1)
        BY Zenon, <2>3, <2>4, <2>5, <2>6 DEF DecidedFrom
    <2> QED
        BY <2>1, <2>7
<1>4. Q = Nat
    <2>1. Q \in SUBSET Nat
        OBVIOUS
    <2> HIDE DEF Q
    <2> QED
        BY <1>2, <1>3, <2>1, SetInduction
<1>5. n + 1 \in Nat /\ n + 1 <= n + 1 /\ n + 2 - (n + 1) = 1
    OBVIOUS
<1>6. DecidedFrom(s, 1 .. n + 1)
    <2>1. n + 1 \in Q
        BY <1>4, <1>5
    <2>2. DecidedFrom(s, n + 2 - (n + 1) .. n + 1)
        BY <1>5, <2>1
    <2> QED
        BY Zenon, <1>5, <2>2
<1> QED
    BY <1>1, <1>6

\* f repeats a step.
IsIteration(T, first, step, f) ==
    f \in [Nat -> T] /\ f = [n \in Nat |-> IF n = 0 THEN first ELSE step[f[n - 1]]]

\* There is a function that repeats a step.
LEMMA IterationExists ==
    ASSUME NEW T, NEW first \in T, NEW step \in [T -> T]
    PROVE  \E f : IsIteration(T, first, step, f)
<1> DEFINE F == [p \in Nat \X [Nat -> T] |-> IF p[1] = 0 THEN first ELSE step[p[2][p[1] - 1]]]
           rank == [n \in Nat |-> n]
<1>1. \A n \in Nat : n # 0 => n - 1 \in Nat /\ n - 1 < n
    OBVIOUS
<1>2. \A n \in Nat, g \in [Nat -> T] :
        F[<<n, g>>] = IF n = 0 THEN first ELSE step[g[n - 1]]
    OBVIOUS
<1>3. F \in [Nat \X [Nat -> T] -> T]
    <2>1. ASSUME NEW n \in Nat, NEW g \in [Nat -> T] PROVE F[<<n, g>>] \in T
        <3>1. n # 0 => step[g[n - 1]] \in T
            BY <1>1
        <3> HIDE DEF F
        <3> QED
            BY <1>2, <3>1
    <2> QED
        BY <2>1
<1>4. rank \in [Nat -> Nat] /\ \A n \in Nat : rank[n] = n
    OBVIOUS
<1>5. ASSUME NEW n \in Nat, NEW g \in [Nat -> T], NEW h \in [Nat -> T],
             \A m \in Nat : rank[m] < rank[n] => g[m] = h[m]
      PROVE  F[<<n, g>>] = F[<<n, h>>]
    <2>1. \A m \in Nat : m < n => g[m] = h[m]
        BY <1>4, <1>5
    <2> HIDE DEF F
    <2>2. n # 0 => g[n - 1] = h[n - 1]
        BY <1>1, <2>1
    <2> QED
        BY <1>2, <2>2
<1> HIDE DEF F, rank
<1>6. IsRecursion(Nat, T, rank, F)
    BY <1>3, <1>4, <1>5 DEF IsRecursion
<1>7. PICK f \in [Nat -> T] : \A n \in Nat : f[n] = F[<<n, f>>]
    BY <1>6, RecursionExists
<1>8. f = [n \in Nat |-> IF n = 0 THEN first ELSE step[f[n - 1]]]
    BY <1>2, <1>7
<1> QED
    BY <1>7, <1>8 DEF IsIteration

\* Two texts, one after the other.
Joined(s, t) == s \o t

\* f[i] is the first i texts of a sequence, one after the other.
IsFlattening(S, ts, n, f) ==
    /\ f \in [1 .. n -> Seq(S)]
    /\ FlattenSeq(ts) = f[n] /\ f[1] = ts[1]
    /\ \A i \in 1 .. n : i # 1 => f[i] = Joined(f[i - 1], ts[i])

\* What the texts of a sequence are, one after the other.
LEMMA FlattenIs ==
    ASSUME NEW S, NEW ts \in Seq(Seq(S)), NEW n \in Nat, n = Len(ts), n > 0
    PROVE  \E f : IsFlattening(S, ts, n, f)
<1> DEFINE D == 1 .. n
           F == [p \in D \X [D -> Seq(S)] |-> IF p[1] = 1 THEN ts[p[1]] ELSE Joined(p[2][p[1] - 1], ts[p[1]])]
           rank == [i \in D |-> i]
<1>1. \A i \in D : ts[i] \in Seq(S) /\ (i # 1 => i - 1 \in D /\ i - 1 < i)
    OBVIOUS
<1>2. \A i \in D, g \in [D -> Seq(S)] :
        F[<<i, g>>] = IF i = 1 THEN ts[i] ELSE Joined(g[i - 1], ts[i])
    OBVIOUS
<1>3. F \in [D \X [D -> Seq(S)] -> Seq(S)]
    <2>1. ASSUME NEW i \in D, NEW g \in [D -> Seq(S)] PROVE F[<<i, g>>] \in Seq(S)
        <3>1. i # 1 => Joined(g[i - 1], ts[i]) \in Seq(S)
            <4> SUFFICES ASSUME i # 1 PROVE Joined(g[i - 1], ts[i]) \in Seq(S)
                OBVIOUS
            <4>1. g[i - 1] \in Seq(S) /\ ts[i] \in Seq(S)
                BY <1>1
            <4> QED
                BY <4>1, ConcatProperties DEF Joined
        <3> HIDE DEF F
        <3> QED
            BY <1>1, <1>2, <3>1
    <2> QED
        BY <2>1
<1>4. rank \in [D -> Nat] /\ \A i \in D : rank[i] = i
    OBVIOUS
<1>5. ASSUME NEW i \in D, NEW g \in [D -> Seq(S)], NEW h \in [D -> Seq(S)],
             \A j \in D : rank[j] < rank[i] => g[j] = h[j]
      PROVE  F[<<i, g>>] = F[<<i, h>>]
    <2>1. \A j \in D : j < i => g[j] = h[j]
        BY <1>4, <1>5
    <2> HIDE DEF F, D
    <2>2. i # 1 => g[i - 1] = h[i - 1]
        BY <1>1, <2>1
    <2>3. CASE i = 1
        BY <1>2, <2>3
    <2>4. CASE i # 1
        <3>1. /\ F[<<i, g>>] = Joined(g[i - 1], ts[i])
              /\ F[<<i, h>>] = Joined(h[i - 1], ts[i])
            BY Zenon, <1>2, <2>4
        <3> QED
            BY Zenon, <2>2, <2>4, <3>1
    <2> QED
        BY <2>3, <2>4
<1>12. n \in D /\ 1 \in D
    OBVIOUS
<1> HIDE DEF F, rank, D
<1>6. IsRecursion(D, Seq(S), rank, F)
    <2>1. Seq(S) # {}
        BY EmptySeq
    <2> QED
        BY <1>3, <1>4, <1>5, <2>1 DEF IsRecursion
<1>7. PICK f \in [D -> Seq(S)] : \A i \in D : f[i] = F[<<i, f>>]
    BY <1>6, RecursionExists
<1>8. f = [i \in D |-> IF i = 1 THEN ts[i] ELSE Joined(f[i - 1], ts[i])]
    BY <1>2, <1>7
<1> DEFINE flat == CHOOSE g : g = [i \in 1 .. Len(ts) |-> IF i = 1 THEN ts[i] ELSE Joined(g[i - 1], ts[i])]
<1>9. FlattenSeq(ts) = flat[n]
    BY DEF FlattenSeq, Joined
<1>10. flat = [i \in D |-> IF i = 1 THEN ts[i] ELSE Joined(flat[i - 1], ts[i])]
    BY <1>8 DEF D
<1> HIDE DEF flat
<1>15. /\ flat[1] = ts[1] /\ f[1] = ts[1]
       /\ \A i \in D : i # 1 => /\ flat[i] = Joined(flat[i - 1], ts[i])
                               /\ f[i] = Joined(f[i - 1], ts[i])
    BY <1>8, <1>10, <1>12
<1>11. \A i \in D : flat[i] = f[i]
    <2> DEFINE Q == {m \in Nat : m + 1 \in D => flat[m + 1] = f[m + 1]}
    <2>1. 0 \in Q
        BY <1>15
    <2>2. ASSUME NEW m \in Q PROVE m + 1 \in Q
        <3>0. SUFFICES ASSUME m + 1 + 1 \in D PROVE flat[m + 1 + 1] = f[m + 1 + 1]
            OBVIOUS
        <3>1. PICK k \in D : k = m + 1 + 1
            BY <3>0
        <3>2. m + 1 \in D /\ k # 1 /\ k - 1 = m + 1
            BY <3>1 DEF D
        <3>3. flat[k - 1] = f[k - 1]
            BY <3>2
        <3>4. flat[k] = Joined(flat[k - 1], ts[k]) /\ f[k] = Joined(f[k - 1], ts[k])
            BY <1>15, <3>2
        <3> QED
            BY Zenon, <3>1, <3>3, <3>4
    <2>3. Q = Nat
        <3>1. Q \in SUBSET Nat
            OBVIOUS
        <3> HIDE DEF Q
        <3> QED
            BY <2>1, <2>2, <3>1, SetInduction
    <2> SUFFICES ASSUME NEW i \in D PROVE flat[i] = f[i]
        OBVIOUS
    <2>4. i - 1 \in Nat /\ i - 1 + 1 = i
        BY DEF D
    <2>5. i - 1 \in Q
        BY <2>3, <2>4
    <2> QED
        BY <2>4, <2>5
<1> QED
    BY <1>7, <1>9, <1>11, <1>12, <1>15 DEF IsFlattening, D

\* One text more.
LEMMA FlattenAppend ==
    ASSUME NEW S, NEW ts \in Seq(Seq(S)), NEW x \in Seq(S)
    PROVE  /\ FlattenSeq(ts) \in Seq(S)
           /\ FlattenSeq(Append(ts, x)) = Joined(FlattenSeq(ts), x)
<1>1. PICK n \in Nat : n = Len(ts)
    OBVIOUS
<1>2. PICK us : us = Append(ts, x)
    OBVIOUS
<1>3. us \in Seq(Seq(S)) /\ Len(us) = n + 1 /\ us[n + 1] = x /\ \A i \in 1 .. n : us[i] = ts[i]
    BY <1>1, <1>2
<1>4. n + 1 \in Nat /\ n + 1 > 0 /\ n + 1 \in 1 .. n + 1 /\ n + 1 - 1 = n
    OBVIOUS
<1>5. PICK g : IsFlattening(S, us, n + 1, g)
    BY <1>3, <1>4, FlattenIs
<1>6. /\ FlattenSeq(us) = g[n + 1] /\ g[1] = us[1]
      /\ \A i \in 1 .. n + 1 : i # 1 => g[i] = Joined(g[i - 1], us[i])
    BY <1>5 DEF IsFlattening
<1>7. CASE n = 0
    <2>1. ts = <<>> /\ FlattenSeq(us) = x
        <3>1. Len(ts) = 0
            BY <1>1, <1>7
        <3>2. ts = <<>>
            BY <3>1, EmptySeq
        <3>3. n + 1 = 1
            BY <1>7
        <3> QED
            BY <1>3, <1>6, <3>2, <3>3
    <2>2. FlattenSeq(ts) = <<>>
        BY <2>1, EmptySeq DEF FlattenSeq
    <2>3. <<>> \o x = x /\ <<>> \in Seq(S)
        BY ConcatEmptySeq, EmptySeq
    <2> QED
        BY <1>2, <2>1, <2>2, <2>3 DEF Joined
<1>8. CASE n > 0
    <2>1. PICK f : IsFlattening(S, ts, n, f)
        BY <1>1, <1>8, FlattenIs
    <2>2. /\ f \in [1 .. n -> Seq(S)] /\ FlattenSeq(ts) = f[n] /\ f[1] = ts[1]
          /\ \A i \in 1 .. n : i # 1 => f[i] = Joined(f[i - 1], ts[i])
        BY <2>1 DEF IsFlattening
    <2> DEFINE Q == {m \in Nat : m + 1 \in 1 .. n => f[m + 1] = g[m + 1]}
    <2>3. 0 \in Q
        <3>1. 1 \in 1 .. n /\ 0 + 1 = 1
            BY <1>8
        <3>2. f[1] = g[1]
            BY <1>3, <1>6, <2>2, <3>1
        <3> QED
            BY <3>1, <3>2
    <2>4. ASSUME NEW m \in Q PROVE m + 1 \in Q
        <3> SUFFICES ASSUME m + 1 + 1 \in 1 .. n PROVE f[m + 1 + 1] = g[m + 1 + 1]
            OBVIOUS
        <3>1. /\ m + 1 \in 1 .. n /\ m + 1 + 1 # 1 /\ m + 1 + 1 \in 1 .. n + 1
              /\ m + 1 + 1 - 1 = m + 1
            OBVIOUS
        <3>2. f[m + 1] = g[m + 1]
            BY <3>1
        <3>3. f[m + 1 + 1] = Joined(f[m + 1 + 1 - 1], ts[m + 1 + 1])
            BY <2>2, <3>1
        <3>4. g[m + 1 + 1] = Joined(g[m + 1 + 1 - 1], us[m + 1 + 1])
            BY <1>6, <3>1
        <3>5. us[m + 1 + 1] = ts[m + 1 + 1]
            BY <1>3
        <3> QED
            BY Zenon, <3>1, <3>2, <3>3, <3>4, <3>5
    <2>5. Q = Nat
        <3>1. Q \in SUBSET Nat
            OBVIOUS
        <3> HIDE DEF Q
        <3> QED
            BY <2>3, <2>4, <3>1, SetInduction
    <2>6. f[n] = g[n]
        <3>1. n - 1 \in Nat /\ n - 1 + 1 = n /\ n \in 1 .. n
            BY <1>8
        <3>2. n - 1 \in Q
            BY <2>5, <3>1
        <3> QED
            BY <3>1, <3>2
    <2>7. n + 1 # 1 /\ n \in 1 .. n
        BY <1>8
    <2>8. g[n + 1] = Joined(g[n + 1 - 1], us[n + 1])
        BY <1>4, <1>6, <2>7
    <2>9. FlattenSeq(us) = Joined(FlattenSeq(ts), x)
        BY Zenon, <1>3, <1>4, <1>6, <2>2, <2>6, <2>8
    <2>10. FlattenSeq(ts) \in Seq(S)
        BY <2>2, <2>7
    <2> QED
        BY <1>2, <2>9, <2>10
<1> QED
    BY <1>7, <1>8

\* A text is its first part and the rest.
LEMMA PartsJoined ==
    ASSUME NEW S, NEW s \in Seq(S), NEW i \in 1 .. Len(s) + 1, NEW j \in i - 1 .. Len(s)
    PROVE  Joined(SubSeq(s, 1, i - 1), SubSeq(s, i, j)) = SubSeq(s, 1, j)
<1>1. PICK n \in Nat : n = Len(s)
    OBVIOUS
<1>2. 1 \in 1 .. n + 1 /\ i - 1 \in 1 - 1 .. n /\ j \in i - 1 .. n /\ i - 1 + 1 = i
    BY <1>1
<1>3. SubSeq(s, 1, i - 1) \o SubSeq(s, i - 1 + 1, j) = SubSeq(s, 1, j)
    BY <1>1, <1>2, ConcatAdjacentSubSeq
<1> QED
    BY <1>2, <1>3 DEF Joined

\* What the loop of splitTypes() goes through.
Loops(s) == [next : 0 .. Len(s) + 1, types : Seq(Seq(Chars))]

\* The type at a place, outside any array and struct.
LEMMA TopType ==
    ASSUME NEW s \in Seq(Chars), NEW n \in Nat, n = Len(s), NEW i \in 1 .. n + 1
    PROVE  /\ TypeAt(s, i).end = 0 \/ TypeAt(s, i).end \in i + 1 .. n + 1
           /\ \A j \in i .. n + 1 :
                TypeAt(s, i).end = j <=> TypeBetween(s, i, j, MaxArrayDepth, MaxStructDepth)
<1>1. 0 \in 0 .. MaxArrayDepth /\ 0 \in 0 .. MaxStructDepth
        /\ MaxArrayDepth - 0 = MaxArrayDepth /\ MaxStructDepth - 0 = MaxStructDepth
    <2>1. MaxArrayDepth \in Nat /\ MaxStructDepth \in Nat
        BY SignaturesAssumption
    <2> QED
        BY <2>1
<1>2. TypeAt(s, i).end = TypeEnd(s, i, 0, 0)
    BY DEF TypeAt, TypeEnd
<1>3. TypeEnd(s, i, 0, 0) = 0 \/ TypeEnd(s, i, 0, 0) \in i + 1 .. n + 1
    BY <1>1, EndRange
<1>4. TypeDecided(s, i, 0, 0)
    BY <1>1, AllDecided DEF DecidedFrom
<1>5. \A j \in i .. n + 1 :
        TypeEnd(s, i, 0, 0) = j <=> TypeBetween(s, i, j, MaxArrayDepth, MaxStructDepth)
    BY <1>1, <1>4 DEF TypeDecided
<1> QED
    BY <1>2, <1>3, <1>5

\* What a turn of the loop makes of a place and the types before it.
IsTurn(s, n, i, ts, new) ==
    /\ i \notin 1 .. n => new = [next |-> i, types |-> ts]
    /\ i \in 1 .. n /\ TypeAt(s, i).end = 0 => new = [next |-> 0, types |-> <<>>]
    /\ \A e \in i + 1 .. n + 1 :
        i \in 1 .. n /\ TypeAt(s, i).end = e
            => new = [next |-> e, types |-> Append(ts, SubSeq(s, i, e - 1))]
    /\ new \in Loops(s)

\* What a turn of the loop does.
LEMMA SplitNextIs ==
    ASSUME NEW s \in Seq(Chars), NEW n \in Nat, n = Len(s), NEW i \in 0 .. n + 1,
           NEW ts \in Seq(Seq(Chars))
    PROVE  IsTurn(s, n, i, ts, SplitNext(s, [next |-> i, types |-> ts]))
<1> DEFINE loop == [next |-> i, types |-> ts]
           end == TypeAt(s, i).end
<1>1. SplitNext(s, loop) =
        IF i \notin 1 .. n THEN loop
        ELSE IF end = 0 THEN [next |-> 0, types |-> <<>>]
        ELSE [next |-> end, types |-> Append(ts, SubSeq(s, i, end - 1))]
    BY DEF SplitNext
<1>2. i \in 1 .. n => end = 0 \/ end \in i + 1 .. n + 1
    <2>1. i \in 1 .. n => i \in 1 .. n + 1
        OBVIOUS
    <2> QED
        BY <2>1, TopType
<1> HIDE DEF end
<1>3. CASE i \notin 1 .. n
    <2>1. loop \in Loops(s)
        BY DEF Loops
    <2> QED
        BY <1>1, <1>3, <2>1 DEF end, IsTurn
<1>4. CASE i \in 1 .. n /\ end = 0
    <2>1. [next |-> 0, types |-> <<>>] \in Loops(s)
        <3>1. 0 \in 0 .. n + 1 /\ <<>> \in Seq(Seq(Chars))
            OBVIOUS
        <3> QED
            BY <3>1 DEF Loops
    <2>2. SplitNext(s, loop) = [next |-> 0, types |-> <<>>]
        BY <1>1, <1>4
    <2>3. \A e \in i + 1 .. n + 1 : end # e
        BY <1>4
    <2> QED
        BY <1>4, <2>1, <2>2, <2>3 DEF end, IsTurn
<1>5. CASE i \in 1 .. n /\ end # 0
    <2>1. PICK e \in i + 1 .. n + 1 : e = end
        BY <1>2, <1>5
    <2>2. SplitNext(s, loop) = [next |-> e, types |-> Append(ts, SubSeq(s, i, e - 1))]
        BY <1>1, <1>5, <2>1
    <2>3. SubSeq(s, i, e - 1) \in Seq(Chars)
        <3>1. i \in 1 .. n + 1 /\ e - 1 \in i - 1 .. n
            BY <1>5
        <3> QED
            BY <3>1, PartFacts
    <2>4. Append(ts, SubSeq(s, i, e - 1)) \in Seq(Seq(Chars)) /\ e \in 0 .. n + 1
        BY <2>3
    <2>5. SplitNext(s, loop) \in Loops(s)
        <3>1. PICK us \in Seq(Seq(Chars)) : us = Append(ts, SubSeq(s, i, e - 1))
            BY <2>4
        <3>2. [next |-> e, types |-> us] \in Loops(s)
            BY <2>4 DEF Loops
        <3> QED
            BY Zenon, <2>2, <3>1, <3>2
    <2>6. \A d \in i + 1 .. n + 1 :
            end = d => SplitNext(s, loop) = [next |-> d, types |-> Append(ts, SubSeq(s, i, d - 1))]
        BY Zenon, <2>1, <2>2
    <2> QED
        BY Zenon, <1>5, <2>5, <2>6 DEF end, IsTurn
<1> QED
    BY <1>3, <1>4, <1>5

\* The loop starts at the first place, and goes on turn by turn.
LEMMA SplitsIs ==
    ASSUME NEW s \in Seq(Chars)
    PROVE  /\ Splits(s) \in [Nat -> Loops(s)]
           /\ Splits(s)[0] = [next |-> 1, types |-> <<>>]
           /\ \A n \in Nat : Splits(s)[n + 1] = SplitNext(s, Splits(s)[n])
<1> DEFINE T == Loops(s)
           first == [next |-> 1, types |-> <<>>]
           step == [loop \in T |-> SplitNext(s, loop)]
<1>1. first \in T
    <2>1. 1 \in 0 .. Len(s) + 1 /\ <<>> \in Seq(Seq(Chars))
        OBVIOUS
    <2> QED
        BY <2>1 DEF Loops
<1>2. step \in [T -> T]
    <2>1. ASSUME NEW loop \in T PROVE SplitNext(s, loop) \in T
        <3>1. PICK i \in 0 .. Len(s) + 1, ts \in Seq(Seq(Chars)) : loop = [next |-> i, types |-> ts]
            BY DEF Loops
        <3>2. IsTurn(s, Len(s), i, ts, SplitNext(s, loop))
            BY <3>1, SplitNextIs
        <3> QED
            BY <3>2 DEF IsTurn
    <2> QED
        BY <2>1
<1>3. \A loop \in T : step[loop] = SplitNext(s, loop)
    OBVIOUS
<1> HIDE DEF T, first, step
<1>4. PICK f : IsIteration(T, first, step, f)
    BY <1>1, <1>2, IterationExists
<1> USE <1>4 DEF IsIteration
<1>5. \A n \in Nat : n # 0 => f[n - 1] \in T
    <2>1. \A n \in Nat : n # 0 => n - 1 \in Nat
        OBVIOUS
    <2> QED
        BY <1>4, <2>1
<1>6. \A n \in Nat : f[n] = IF n = 0 THEN first ELSE SplitNext(s, f[n - 1])
    BY <1>3, <1>4, <1>5
<1>7. f = [n \in Nat |-> IF n = 0 THEN first ELSE SplitNext(s, f[n - 1])]
    BY <1>4, <1>6
<1>8. Splits(s) = CHOOSE g : g = [n \in Nat |-> IF n = 0 THEN first ELSE SplitNext(s, g[n - 1])]
    BY DEF Splits, first
<1>9. Splits(s) = [n \in Nat |-> IF n = 0 THEN first ELSE SplitNext(s, Splits(s)[n - 1])]
    BY <1>7, <1>8
<1>10. Splits(s)[0] = first
    BY <1>9
<1>11. \A n \in Nat : Splits(s)[n + 1] = SplitNext(s, Splits(s)[n])
    <2> SUFFICES ASSUME NEW n \in Nat PROVE Splits(s)[n + 1] = SplitNext(s, Splits(s)[n])
        OBVIOUS
    <2>1. PICK m \in Nat : m = n + 1
        OBVIOUS
    <2>2. m # 0 /\ m - 1 = n
        BY <2>1
    <2>3. Splits(s)[m] = SplitNext(s, Splits(s)[m - 1])
        BY <1>9, <2>2
    <2> QED
        BY Zenon, <2>1, <2>2, <2>3
<1>12. \A n \in Nat : Splits(s)[n] \in T
    <2> DEFINE Q == {n \in Nat : Splits(s)[n] \in T}
    <2>1. 0 \in Q
        BY <1>1, <1>10
    <2>2. ASSUME NEW n \in Q PROVE n + 1 \in Q
        <3>1. step[Splits(s)[n]] \in T
            BY <1>2
        <3>2. Splits(s)[n + 1] \in T
            BY <1>3, <1>11, <3>1
        <3> QED
            BY <3>2
    <2>3. Q = Nat
        <3>1. Q \in SUBSET Nat
            OBVIOUS
        <3> HIDE DEF Q
        <3> QED
            BY <2>1, <2>2, <3>1, SetInduction
    <2> QED
        BY <2>3
<1>13. Splits(s) \in [Nat -> T]
    BY <1>9, <1>12
<1> QED
    BY <1>10, <1>11, <1>13 DEF T, first

\* What the loop has read after n turns, and what is left to judge.
SplitOK(s, n, loop) ==
    \/ loop.next = 0 /\ loop.types = <<>> /\ ~InGrammar(s)
    \/ /\ loop.next \in 1 .. Len(s) + 1
       /\ InGrammar(s) <=> ListBetween(s, loop.next, Len(s) + 1, MaxArrayDepth, MaxStructDepth)
       /\ FlattenSeq(loop.types) = SubSeq(s, 1, loop.next - 1)
       /\ \A k \in 1 .. Len(loop.types) : IsType(loop.types[k], MaxArrayDepth, MaxStructDepth)
       /\ loop.next > n \/ loop.next = Len(s) + 1
       /\ loop.next > 1 => loop.types # <<>>

\* Before the first turn.
LEMMA SplitsStart ==
    ASSUME NEW s \in Seq(Chars)
    PROVE  SplitOK(s, 0, [next |-> 1, types |-> <<>>])
<1>1. PICK n \in Nat : n = Len(s)
    OBVIOUS
<1>2. n + 1 - 1 = n /\ 1 - 1 = 0 /\ 1 \in 1 .. n + 1 /\ 1 > 0 /\ ~(1 > 1)
    OBVIOUS
<1>3. SubSeq(s, 1, n) = s /\ SubSeq(s, 1, 0) = <<>>
    BY <1>1
<1>4. InGrammar(s) <=> ListBetween(s, 1, n + 1, MaxArrayDepth, MaxStructDepth)
    <2>1. SubSeq(s, 1, n + 1 - 1) = s
        BY Zenon, <1>2, <1>3
    <2> QED
        BY <2>1 DEF InGrammar, ListBetween
<1>5. FlattenSeq(<<>>) = <<>> /\ Len(<<>>) = 0
    BY DEF FlattenSeq
<1>6. \A k \in 1 .. 0 : FALSE
    OBVIOUS
<1>7. PICK loop : loop = [next |-> 1, types |-> <<>>]
    OBVIOUS
<1>8. loop.next = 1 /\ loop.types = <<>>
    BY <1>7
<1>9. /\ loop.next \in 1 .. Len(s) + 1
      /\ InGrammar(s) <=> ListBetween(s, loop.next, Len(s) + 1, MaxArrayDepth, MaxStructDepth)
      /\ loop.next > 0 /\ ~(loop.next > 1)
    BY <1>1, <1>2, <1>4, <1>8
<1>10. FlattenSeq(loop.types) = SubSeq(s, 1, loop.next - 1)
    BY Zenon, <1>2, <1>3, <1>5, <1>8
<1>11. \A k \in 1 .. Len(loop.types) : IsType(loop.types[k], MaxArrayDepth, MaxStructDepth)
    BY Zenon, <1>5, <1>6, <1>8
<1>12. SplitOK(s, 0, loop)
    BY Zenon, <1>9, <1>10, <1>11 DEF SplitOK
<1> QED
    BY Zenon, <1>7, <1>12

\* A turn of the loop.
LEMMA SplitsStep ==
    ASSUME NEW s \in Seq(Chars), NEW m \in Nat, NEW loop \in Loops(s), SplitOK(s, m, loop)
    PROVE  SplitOK(s, m + 1, SplitNext(s, loop))
<1>1. PICK n \in Nat : n = Len(s)
    OBVIOUS
<1>2. PICK i \in 0 .. n + 1, ts \in Seq(Seq(Chars)) : loop = [next |-> i, types |-> ts]
    BY <1>1 DEF Loops
<1> DEFINE new == SplitNext(s, loop)
<1>8. IsTurn(s, n, i, ts, new)
    BY <1>1, <1>2, SplitNextIs
<1> HIDE DEF new
<1>3. /\ i \notin 1 .. n => new = loop
      /\ i \in 1 .. n /\ TypeAt(s, i).end = 0 => new = [next |-> 0, types |-> <<>>]
      /\ \A e \in i + 1 .. n + 1 :
            i \in 1 .. n /\ TypeAt(s, i).end = e
                => new = [next |-> e, types |-> Append(ts, SubSeq(s, i, e - 1))]
    BY Zenon, <1>2, <1>8 DEF IsTurn
<1>4. CASE i = 0
    <2>1. new = loop
        BY <1>3, <1>4
    <2> QED
        BY <1>2, <1>4, <2>1 DEF SplitOK, new
<1>5. CASE i = n + 1
    <2>1. new = loop
        BY <1>3, <1>5
    <2> QED
        BY <1>1, <1>2, <1>5, <2>1 DEF SplitOK, new
<1>6. CASE i \in 1 .. n
    <2> DEFINE a == MaxArrayDepth
               b == MaxStructDepth
    <2>1. /\ InGrammar(s) <=> ListBetween(s, i, n + 1, a, b)
          /\ FlattenSeq(ts) = SubSeq(s, 1, i - 1)
          /\ \A k \in 1 .. Len(ts) : IsType(ts[k], a, b)
          /\ i > m
        BY <1>1, <1>2, <1>6 DEF SplitOK
    <2>2. i \in 1 .. n + 1 /\ n + 1 \in i .. n + 1 /\ i # n + 1 /\ a \in Nat /\ b \in Nat
        <3>1. a \in Nat /\ b \in Nat
            BY SignaturesAssumption
        <3> QED
            BY <1>6, <3>1
    <2>3. /\ TypeAt(s, i).end = 0 \/ TypeAt(s, i).end \in i + 1 .. n + 1
          /\ \A j \in i .. n + 1 : TypeAt(s, i).end = j <=> TypeBetween(s, i, j, a, b)
        BY <1>1, <2>2, TopType
    <2>4. InGrammar(s) <=>
            \E k \in i + 1 .. n + 1 : TypeBetween(s, i, k, a, b) /\ ListBetween(s, k, n + 1, a, b)
        BY <1>1, <2>1, <2>2, ListParts
    <2> HIDE DEF a, b
    <2>5. CASE TypeAt(s, i).end = 0
        <3>1. new = [next |-> 0, types |-> <<>>]
            BY <1>3, <1>6, <2>5
        <3>2. \A k \in i + 1 .. n + 1 : ~TypeBetween(s, i, k, a, b)
            BY <1>6, <2>3, <2>5
        <3>3. ~InGrammar(s)
            BY <2>4, <3>2
        <3> QED
            BY <3>1, <3>3 DEF SplitOK, new
    <2>6. CASE TypeAt(s, i).end # 0
        <3>1. PICK e \in i + 1 .. n + 1 : e = TypeAt(s, i).end
            BY <2>3, <2>6
        <3>9. PICK u \in Seq(Chars) : u = SubSeq(s, i, e - 1)
            <4>1. i \in 1 .. n + 1 /\ e - 1 \in i - 1 .. n
                BY <1>6
            <4> QED
                BY <1>1, <4>1, PartFacts
        <3>2. PICK us \in Seq(Seq(Chars)) : us = Append(ts, u)
            BY AppendProperties
        <3>3. new = [next |-> e, types |-> us]
            BY Zenon, <1>3, <1>6, <3>1, <3>2, <3>9
        <3>4. TypeBetween(s, i, e, a, b) /\ e \in 1 .. n + 1 /\ e > m + 1 /\ e > 1
            BY <1>6, <2>1, <2>3, <3>1
        <3>5. \A k \in i + 1 .. n + 1 : TypeBetween(s, i, k, a, b) => k = e
            BY <1>6, <2>3, <3>1
        <3>6. InGrammar(s) <=> ListBetween(s, e, n + 1, a, b)
            BY Zenon, <2>4, <3>4, <3>5
        <3>7. FlattenSeq(us) = SubSeq(s, 1, e - 1)
            <4>1. FlattenSeq(us) = Joined(FlattenSeq(ts), u)
                BY <3>2, FlattenAppend
            <4>2. e - 1 \in i - 1 .. n
                BY <1>6
            <4>3. Joined(SubSeq(s, 1, i - 1), SubSeq(s, i, e - 1)) = SubSeq(s, 1, e - 1)
                BY <1>1, <2>2, <4>2, PartsJoined
            <4> QED
                BY Zenon, <2>1, <3>9, <4>1, <4>3
        <3>8. us # <<>> /\ \A k \in 1 .. Len(us) : IsType(us[k], a, b)
            <4>1. IsType(u, a, b)
                BY Zenon, <3>4, <3>9 DEF TypeBetween
            <4>2. PICK l \in Nat : l = Len(ts)
                OBVIOUS
            <4>3. Len(us) = l + 1 /\ us[l + 1] = u /\ \A k \in 1 .. l : us[k] = ts[k]
                BY <3>2, <4>2
            <4>4. \A k \in 1 .. l + 1 : k \in 1 .. l \/ k = l + 1
                OBVIOUS
            <4>5. \A k \in 1 .. Len(us) : IsType(us[k], a, b)
                BY Zenon, <2>1, <4>1, <4>2, <4>3, <4>4
            <4>6. us # <<>>
                BY <4>3
            <4> QED
                BY <4>5, <4>6
        <3> QED
            BY <1>1, <3>3, <3>4, <3>6, <3>7, <3>8 DEF SplitOK, new, a, b
    <2> QED
        BY <2>5, <2>6
<1>7. i = 0 \/ i = n + 1 \/ i \in 1 .. n
    OBVIOUS
<1> QED
    BY <1>4, <1>5, <1>6, <1>7

\* After any number of turns.
LEMMA SplitsInvariant ==
    ASSUME NEW s \in Seq(Chars)
    PROVE  \A n \in Nat : SplitOK(s, n, Splits(s)[n])
<1> DEFINE Q == {n \in Nat : SplitOK(s, n, Splits(s)[n])}
<1>1. 0 \in Q
    BY SplitsIs, SplitsStart
<1>2. ASSUME NEW n \in Q PROVE n + 1 \in Q
    <2>1. Splits(s)[n] \in Loops(s) /\ Splits(s)[n + 1] = SplitNext(s, Splits(s)[n])
        BY SplitsIs
    <2>2. SplitOK(s, n + 1, Splits(s)[n + 1])
        BY <2>1, SplitsStep
    <2> QED
        BY <2>2
<1>3. Q = Nat
    <2>1. Q \in SUBSET Nat
        OBVIOUS
    <2> HIDE DEF Q
    <2> QED
        BY <1>1, <1>2, <2>1, SetInduction
<1> QED
    BY <1>3

\* Of any text, the types it is split into.
LEMMA SplitIsGrammar ==
    ASSUME NEW s \in Seq(Chars), s # <<>>
    PROVE  LET types == SplitTypes(s)
           IN  /\ types # <<>> <=> Len(s) <= MaxSignatureLength /\ InGrammar(s)
               /\ types # <<>> => FlattenSeq(types) = s
               /\ \A t \in ToSet(types) : IsType(t, MaxArrayDepth, MaxStructDepth)
<1>1. PICK n \in Nat : n = Len(s)
    OBVIOUS
<1>2. CASE n <= MaxSignatureLength
    <2>1. PICK loop \in Loops(s) : loop = Splits(s)[n]
        BY SplitsIs
    <2>2. SplitOK(s, n, loop)
        BY <2>1, SplitsInvariant
    <2>3. PICK i \in 0 .. n + 1, ts \in Seq(Seq(Chars)) : loop = [next |-> i, types |-> ts]
        BY <1>1 DEF Loops
    <2>4. SplitTypes(s) = ts
        BY <1>1, <1>2, <2>1, <2>3 DEF SplitTypes
    <2>5. CASE i = 0
        <3>1. ts = <<>> /\ ~InGrammar(s)
            BY <2>2, <2>3, <2>5 DEF SplitOK
        <3>2. ToSet(ts) = {}
            BY <3>1 DEF ToSet
        <3> QED
            BY <2>4, <3>1, <3>2
    <2>6. CASE i # 0
        <3>1. /\ i \in 1 .. n + 1
              /\ InGrammar(s) <=> ListBetween(s, i, n + 1, MaxArrayDepth, MaxStructDepth)
              /\ FlattenSeq(ts) = SubSeq(s, 1, i - 1)
              /\ \A k \in 1 .. Len(ts) : IsType(ts[k], MaxArrayDepth, MaxStructDepth)
              /\ i > n \/ i = n + 1
              /\ i > 1 => ts # <<>>
            BY <1>1, <2>2, <2>3, <2>6 DEF SplitOK
        <3>2. i = n + 1 /\ i - 1 = n /\ n # 0
            <4>1. n # 0
                BY <1>1, EmptySeq
            <4> QED
                BY <3>1, <4>1
        <3>3. ts # <<>>
            BY <3>1, <3>2
        <3>4. FlattenSeq(ts) = s
            <4>1. SubSeq(s, 1, n) = s
                BY <1>1
            <4> QED
                BY Zenon, <3>1, <3>2, <4>1
        <3>5. InGrammar(s)
            <4>1. n + 1 \in 1 .. n + 1 /\ n + 1 \in n + 1 .. n + 1
                OBVIOUS
            <4>2. MaxArrayDepth \in Nat /\ MaxStructDepth \in Nat
                BY SignaturesAssumption
            <4>3. ListBetween(s, n + 1, n + 1, MaxArrayDepth, MaxStructDepth)
                BY <1>1, <4>1, <4>2, ListStart
            <4> QED
                BY Zenon, <3>1, <3>2, <4>3
        <3>6. \A t \in ToSet(ts) : IsType(t, MaxArrayDepth, MaxStructDepth)
            <4>1. ToSet(ts) = {ts[k] : k \in 1 .. Len(ts)}
                BY DEF ToSet
            <4> QED
                BY Zenon, <3>1, <4>1
        <3> QED
            BY <1>1, <1>2, <2>4, <3>3, <3>4, <3>5, <3>6
    <2> QED
        BY <2>5, <2>6
<1>3. CASE ~(n <= MaxSignatureLength)
    <2>1. SplitTypes(s) = <<>>
        BY <1>1, <1>3 DEF SplitTypes
    <2>2. ToSet(<<>>) = {}
        BY DEF ToSet
    <2> QED
        BY <1>1, <1>3, <2>1, <2>2
<1> QED
    BY <1>2, <1>3

\* A signature is written with its characters.
LEMMA SignatureTyped == Spec => [](sig \in Seq(Chars))
<1>1. Init => sig \in Seq(Chars)
    BY DEF Init
<1>2. sig \in Seq(Chars) /\ [Next]_vars => (sig \in Seq(Chars))'
    BY DEF Next, WriteSignature, WriteRule, WriteDocument, vars
<1> QED
    BY <1>1, <1>2, PTL DEF Spec

\* What splitTypes() makes of a signature of any length, with any limits: the complete
\* types that the grammar of D-Bus sees in it, one after the other, and nothing at
\* all when the grammar takes no part of it or a limit is passed.
THEOREM SignaturesAreSplitByGrammar == Spec => []SplitsByGrammar
<1>1. sig \in Seq(Chars) => SplitsByGrammar
    BY SplitIsGrammar DEF SplitsByGrammar
<1> QED
    BY <1>1, SignatureTyped, PTL

-----------------------------------------------------------------------------
(* Parts of a signature: what the scan says of a type holds wherever the type *)
(* stands, and its depth stays within the limits.                             *)

\* More room takes nothing away from the grammar.
GrowsAt(s, i) ==
    \A j \in i .. Len(s) + 1, a, b, c, d \in Nat :
        a <= c /\ b <= d =>
            /\ TypeBetween(s, i, j, a, b) => TypeBetween(s, i, j, c, d)
            /\ ListBetween(s, i, j, a, b) => ListBetween(s, i, j, c, d)

\* GrowsAt, for one end and one pair of limits each.
LEMMA GrowsFrom ==
    ASSUME NEW s, NEW i, GrowsAt(s, i), NEW j \in i .. Len(s) + 1,
           NEW a \in Nat, NEW b \in Nat, NEW c \in Nat, NEW d \in Nat, a <= c, b <= d
    PROVE  /\ TypeBetween(s, i, j, a, b) => TypeBetween(s, i, j, c, d)
           /\ ListBetween(s, i, j, a, b) => ListBetween(s, i, j, c, d)
BY DEF GrowsAt

\* A type that fits in some limits fits in larger ones, when what starts
\* behind its first character does.
LEMMA TypeGrows ==
    ASSUME NEW s \in Seq(Chars), NEW i \in 1 .. Len(s) + 1,
           \A k \in i + 1 .. Len(s) + 1 : GrowsAt(s, k),
           NEW j \in i .. Len(s) + 1, NEW a \in Nat, NEW b \in Nat, NEW c \in Nat, NEW d \in Nat,
           a <= c, b <= d, TypeBetween(s, i, j, a, b)
    PROVE  TypeBetween(s, i, j, c, d)
<1>0. PICK n \in Nat : n = Len(s)
    OBVIOUS
<1>5. i \in Nat /\ j \in Nat /\ i > 0 /\ i <= n + 1 /\ j <= n + 1
    BY <1>0
<1>1. CASE j = i + 1 /\ s[i] \in Basic \cup {"v"}
    BY <1>1, TypeParts
<1>2. CASE j > i + 1 /\ s[i] = "a" /\ a > 0 /\ TypeBetween(s, i + 1, j, a - 1, b)
    <2>1. c > 0 /\ a - 1 \in Nat /\ c - 1 \in Nat /\ a - 1 <= c - 1
        BY <1>2
    <2>2. i + 1 \in i + 1 .. n + 1 /\ j \in i + 1 .. n + 1
        BY <1>0, <1>2
    <2>3. TypeBetween(s, i + 1, j, c - 1, d)
        BY <1>0, <1>2, <2>1, <2>2 DEF GrowsAt
    <2> QED
        BY <1>2, <2>1, <2>3, TypeParts
<1>3. CASE /\ j > i + 4 /\ s[i] = "a" /\ s[i + 1] = "{" /\ s[j - 1] = "}"
           /\ a > 0 /\ b > 0 /\ s[i + 2] \in Basic
           /\ TypeBetween(s, i + 3, j - 1, a - 1, b - 1)
    <2>0. a > 0 /\ b > 0 /\ j > i + 4
        BY Zenon, <1>3
    <2>1. c > 0 /\ a - 1 \in Nat /\ c - 1 \in Nat /\ a - 1 <= c - 1
          /\ d > 0 /\ b - 1 \in Nat /\ d - 1 \in Nat /\ b - 1 <= d - 1
        BY <2>0
    <2>2. i + 3 \in i + 1 .. n + 1 /\ j - 1 \in i + 3 .. n + 1
        <3>1. i + 3 <= n + 1 /\ i + 1 <= i + 3 /\ j - 1 <= n + 1 /\ i + 3 <= j - 1 /\ j - 1 \in Nat
            BY <1>0, <1>5, <2>0
        <3> QED
            BY <1>0, <1>5, <3>1
    <2>4. GrowsAt(s, i + 3) /\ j - 1 \in i + 3 .. Len(s) + 1
        BY <1>0, <2>2
    <2>5. TypeBetween(s, i + 3, j - 1, a - 1, b - 1)
        BY Zenon, <1>3
    <2>3. TypeBetween(s, i + 3, j - 1, c - 1, d - 1)
        <3> DEFINE p == j - 1  e == a - 1  f == b - 1  g == c - 1  h == d - 1  q == i + 3
        <3>1. GrowsAt(s, q) /\ p \in q .. Len(s) + 1 /\ e \in Nat /\ f \in Nat /\ g \in Nat
              /\ h \in Nat /\ e <= g /\ f <= h /\ TypeBetween(s, q, p, e, f)
            BY <2>1, <2>4, <2>5
        <3> HIDE DEF p, q, e, f, g, h
        <3>2. TypeBetween(s, q, p, g, h)
            BY <3>1, GrowsFrom
        <3> QED
            BY <3>2 DEF p, q, g, h
    <2> QED
        BY <1>3, <2>1, <2>3, TypeParts
<1>4. CASE /\ j > i + 2 /\ s[i] = "(" /\ s[j - 1] = ")" /\ b > 0
           /\ ListBetween(s, i + 1, j - 1, a, b - 1)
    <2>0. b > 0 /\ j > i + 2
        BY Zenon, <1>4
    <2>1. d > 0 /\ b - 1 \in Nat /\ d - 1 \in Nat /\ b - 1 <= d - 1
        BY <2>0
    <2>2. i + 1 \in i + 1 .. n + 1 /\ j - 1 \in i + 1 .. n + 1
        <3>1. i + 1 <= n + 1 /\ j - 1 <= n + 1 /\ i + 1 <= j - 1 /\ j - 1 \in Nat
            BY <1>0, <1>5, <2>0
        <3> QED
            BY <1>0, <1>5, <3>1
    <2>4. GrowsAt(s, i + 1) /\ j - 1 \in i + 1 .. Len(s) + 1
        BY <1>0, <2>2
    <2>5. ListBetween(s, i + 1, j - 1, a, b - 1)
        BY Zenon, <1>4
    <2>3. ListBetween(s, i + 1, j - 1, c, d - 1)
        <3> DEFINE p == j - 1  f == b - 1  h == d - 1  q == i + 1
        <3>1. GrowsAt(s, q) /\ p \in q .. Len(s) + 1 /\ f \in Nat
              /\ h \in Nat /\ f <= h /\ ListBetween(s, q, p, a, f)
            BY <2>1, <2>4, <2>5
        <3> HIDE DEF p, q, f, h
        <3>2. ListBetween(s, q, p, c, h)
            BY <3>1, GrowsFrom
        <3> QED
            BY <3>2 DEF p, q, h
    <2> QED
        BY <1>4, <2>1, <2>3, TypeParts
<1> QED
    BY <1>1, <1>2, <1>3, <1>4, TypeParts

\* The same of a list of types.
LEMMA ListGrows ==
    ASSUME NEW s \in Seq(Chars), NEW i \in 1 .. Len(s) + 1,
           \A k \in i + 1 .. Len(s) + 1 : GrowsAt(s, k),
           NEW j \in i .. Len(s) + 1, NEW a \in Nat, NEW b \in Nat, NEW c \in Nat, NEW d \in Nat,
           a <= c, b <= d, ListBetween(s, i, j, a, b)
    PROVE  ListBetween(s, i, j, c, d)
<1>0. Len(s) \in Nat
    OBVIOUS
<1>1. CASE i = j
    BY <1>1, ListParts
<1>2. CASE i # j
    <2>1. PICK k \in i + 1 .. j : TypeBetween(s, i, k, a, b) /\ ListBetween(s, k, j, a, b)
        BY <1>2, ListParts
    <2>2. k \in i + 1 .. Len(s) + 1 /\ k \in i .. Len(s) + 1 /\ j \in k .. Len(s) + 1
        BY <1>0, <2>1
    <2>3. TypeBetween(s, i, k, c, d)
        BY <2>1, <2>2, TypeGrows
    <2>4. ListBetween(s, k, j, c, d)
        BY <2>1, <2>2 DEF GrowsAt
    <2> QED
        BY <2>1, <2>3, <2>4, ListParts
<1> QED
    BY <1>1, <1>2

\* What the grammar takes within some limits it takes within wider ones.
LEMMA GrammarGrows ==
    ASSUME NEW s \in Seq(Chars)
    PROVE  \A i \in 1 .. Len(s) + 1 : GrowsAt(s, i)
<1> DEFINE n == Len(s)
           rank == [i \in 1 .. n + 1 |-> n + 1 - i]
           Q == {i \in 1 .. n + 1 : GrowsAt(s, i)}
<1>0. n \in Nat
    OBVIOUS
<1>1. rank \in [1 .. n + 1 -> Nat]
    BY <1>0
<1>2. ASSUME NEW i \in 1 .. n + 1, \A k \in 1 .. n + 1 : rank[k] < rank[i] => k \in Q
      PROVE  i \in Q
    <2>1. \A k \in i + 1 .. n + 1 : k \in 1 .. n + 1 /\ rank[k] < rank[i]
        BY <1>0
    <2>2. \A k \in i + 1 .. n + 1 : GrowsAt(s, k)
        BY <1>2, <2>1
    <2>3. GrowsAt(s, i)
        BY <2>2, TypeGrows, ListGrows DEF GrowsAt
    <2> QED
        BY <2>3
<1>3. Q \subseteq 1 .. n + 1
    OBVIOUS
<1> HIDE DEF rank, Q
<1>4. IsInductive(1 .. n + 1, rank, Q)
    BY <1>1, <1>2, <1>3 DEF IsInductive
<1>5. Q = 1 .. n + 1
    BY <1>4, RankInduction
<1> QED
    BY <1>5 DEF Q

\* Texts of types.
LEMMA SplitTyped ==
    ASSUME NEW s \in Seq(Chars)
    PROVE  SplitTypes(s) \in Seq(Seq(Chars))
<1>1. Splits(s)[Len(s)] \in Loops(s)
    BY SplitsIs
<1> QED
    BY <1>1 DEF SplitTypes, Loops

\* A whole text is its part from its first place to its end.
LEMMA WholeIsPart ==
    ASSUME NEW s \in Seq(Chars)
    PROVE  /\ SubSeq(s, 1, Len(s)) = s /\ SubSeq(s, 1, Len(s) + 1 - 1) = s
           /\ \A a, b : TypeBetween(s, 1, Len(s) + 1, a, b) <=> IsType(s, a, b)
           /\ \A a, b : ListBetween(s, 1, Len(s) + 1, a, b) <=> Grammar[<<"list", s, a, b>>]
<1>0. PICK n \in Nat : n = Len(s)
    OBVIOUS
<1>1. SubSeq(s, 1, n) = s
    BY <1>0
<1>2. n + 1 - 1 = n
    OBVIOUS
<1>3. SubSeq(s, 1, Len(s)) = s /\ SubSeq(s, 1, Len(s) + 1 - 1) = s
    BY <1>0, <1>1, <1>2
<1>4. ASSUME NEW a, NEW b PROVE TypeBetween(s, 1, Len(s) + 1, a, b) <=> IsType(s, a, b)
    BY <1>3 DEF TypeBetween, IsType
<1>5. ASSUME NEW a, NEW b
      PROVE  ListBetween(s, 1, Len(s) + 1, a, b) <=> Grammar[<<"list", s, a, b>>]
    BY <1>3 DEF ListBetween
<1> QED
    BY Zenon, <1>3, <1>4, <1>5

\* A single type is split at its end.
LEMMA SplitsOfType ==
    ASSUME NEW s \in Seq(Chars), NEW n \in Nat, n = Len(s), n > 0,
           TypeAt(s, 1).end = n + 1
    PROVE  Splits(s)[n] = [next |-> n + 1, types |-> <<s>>]
<1> DEFINE L == [next |-> n + 1, types |-> <<s>>]
           Q == {k \in Nat : Splits(s)[k + 1] = L}
<1>0. /\ Splits(s)[0] = [next |-> 1, types |-> <<>>]
      /\ \A k \in Nat : Splits(s)[k + 1] = SplitNext(s, Splits(s)[k])
    BY SplitsIs
<1>1. 0 \in Q
    <2>1. Splits(s)[0 + 1] = SplitNext(s, [next |-> 1, types |-> <<>>])
        BY <1>0
    <2>2. 1 \in 0 .. n + 1 /\ 1 \in 1 .. n /\ n + 1 \in 1 + 1 .. n + 1 /\ <<>> \in Seq(Seq(Chars))
        OBVIOUS
    <2>3. IsTurn(s, n, 1, <<>>, SplitNext(s, [next |-> 1, types |-> <<>>]))
        BY <2>2, SplitNextIs
    <2>4. SplitNext(s, [next |-> 1, types |-> <<>>])
            = [next |-> n + 1, types |-> Append(<<>>, SubSeq(s, 1, n + 1 - 1))]
        BY <2>2, <2>3 DEF IsTurn
    <2>5. SubSeq(s, 1, n + 1 - 1) = s
        BY WholeIsPart
    <2>6. Append(<<>>, s) = <<s>>
        OBVIOUS
    <2> QED
        BY <2>1, <2>4, <2>5, <2>6
<1>2. ASSUME NEW k \in Q PROVE k + 1 \in Q
    <2>0. k \in Nat /\ k + 1 \in Nat /\ Splits(s)[k + 1] = L
        OBVIOUS
    <2>1. k + 1 \in Nat /\ Splits(s)[k + 1 + 1] = SplitNext(s, L)
        BY Zenon, <1>0, <2>0
    <2>2. n + 1 \in 0 .. n + 1 /\ n + 1 \notin 1 .. n /\ <<s>> \in Seq(Seq(Chars))
        OBVIOUS
    <2>3. IsTurn(s, n, n + 1, <<s>>, SplitNext(s, L))
        BY <2>2, SplitNextIs
    <2>4. SplitNext(s, L) = L
        BY <2>2, <2>3 DEF IsTurn
    <2> QED
        BY <2>1, <2>4
<1>3. Q \in SUBSET Nat
    OBVIOUS
<1> HIDE DEF Q
<1>4. Q = Nat
    BY <1>1, <1>2, <1>3, SetInduction
<1>5. n - 1 \in Q /\ n - 1 + 1 = n
    BY <1>4
<1> QED
    BY <1>5 DEF Q

\* A single complete type is what the grammar takes as a type, within the limits.
LEMMA SingleIs ==
    ASSUME NEW s \in Seq(Chars)
    PROVE  /\ IsSingleCompleteType(s)
                <=> Len(s) <= MaxSignatureLength /\ IsType(s, MaxArrayDepth, MaxStructDepth)
           /\ IsSingleCompleteType(s) => s # <<>>
<1>0. PICK n \in Nat : n = Len(s)
    OBVIOUS
<1>l. MaxArrayDepth \in Nat /\ MaxStructDepth \in Nat
    BY SignaturesAssumption
<1>1. ASSUME IsSingleCompleteType(s)
      PROVE  /\ Len(s) <= MaxSignatureLength /\ IsType(s, MaxArrayDepth, MaxStructDepth)
             /\ s # <<>>
    <2> DEFINE types == SplitTypes(s)
    <2>1. types \in Seq(Seq(Chars)) /\ Len(types) = 1
        BY <1>1, SplitTyped DEF IsSingleCompleteType
    <2>2. s # <<>>
        <3> SUFFICES ASSUME s = <<>> PROVE FALSE
            OBVIOUS
        <3>1. Splits(s)[0] = [next |-> 1, types |-> <<>>] /\ Len(s) = 0
            BY SplitsIs
        <3>2. types = <<>>
            BY <3>1 DEF SplitTypes
        <3> QED
            BY <2>1, <3>2
    <2> HIDE DEF types
    <2>3. types # <<>> /\ types[1] \in ToSet(types)
        <3>0. \A ts \in Seq(Seq(Chars)) : DOMAIN ts = 1 .. Len(ts) /\ (ts = <<>> => Len(ts) = 0)
            OBVIOUS
        <3>1. types # <<>> /\ 1 \in DOMAIN types
            <4>1. 1 \in 1 .. 1 /\ 1 # 0
                OBVIOUS
            <4> QED
                BY Zenon, <2>1, <3>0, <4>1
        <3> QED
            BY Zenon, <3>1 DEF ToSet
    <2>4. /\ Len(s) <= MaxSignatureLength /\ FlattenSeq(types) = s
          /\ IsType(types[1], MaxArrayDepth, MaxStructDepth)
        <3>1. /\ types # <<>> => Len(s) <= MaxSignatureLength
              /\ types # <<>> => FlattenSeq(types) = s
              /\ \A t \in ToSet(types) : IsType(t, MaxArrayDepth, MaxStructDepth)
            BY <2>2, SplitIsGrammar DEF types
        <3> QED
            BY Zenon, <2>3, <3>1
    <2>5. PICK f : IsFlattening(Chars, types, 1, f)
        <3>1. 1 \in Nat /\ 1 > 0
            OBVIOUS
        <3> QED
            BY <2>1, <3>1, FlattenIs
    <2>6. FlattenSeq(types) = types[1]
        BY <2>5 DEF IsFlattening
    <2> QED
        BY <2>2, <2>4, <2>6
<1>2. ASSUME Len(s) <= MaxSignatureLength, IsType(s, MaxArrayDepth, MaxStructDepth)
      PROVE  IsSingleCompleteType(s)
    <2>1. TypeBetween(s, 1, n + 1, MaxArrayDepth, MaxStructDepth)
        BY <1>0, <1>2, WholeIsPart
    <2>2. 1 \in 1 .. n + 1 /\ n + 1 \in 1 .. n + 1
        OBVIOUS
    <2>3. n + 1 > 1
        BY <1>0, <1>l, <2>1, <2>2, TypeStart
    <2>4. TypeAt(s, 1).end = n + 1
        BY <1>0, <2>1, <2>2, TopType
    <2>5. Splits(s)[n] = [next |-> n + 1, types |-> <<s>>]
        BY <1>0, <2>3, <2>4, SplitsOfType
    <2>6. SplitTypes(s) = <<s>>
        BY <1>0, <1>2, <2>5 DEF SplitTypes
    <2> QED
        BY <2>6 DEF IsSingleCompleteType
<1> QED
    BY <1>1, <1>2

\* What is found of a type that is scanned to its end: r, from what is found of the value
\* of a dict entry, of an element or of the fields of a struct.
IsTypeFound(s, n, i, x, y, r, v, e, f) ==
    \/ At(s, i) \in Basic \cup {"v"} /\ r = [end |-> i + 1, depth |-> 0]
    \/ /\ At(s, i) = "a" /\ At(s, i + 1) = "{" /\ At(s, i + 2) \in Basic
       /\ i + 3 \in 1 .. n + 1 /\ x + 1 \in 0 .. MaxArrayDepth /\ y + 1 \in 0 .. MaxStructDepth
       /\ v.end > 0 /\ At(s, v.end) = "}" /\ r = [end |-> v.end + 1, depth |-> v.depth + 2]
    \/ /\ At(s, i) = "a" /\ At(s, i + 1) # "{"
       /\ i + 1 \in 1 .. n + 1 /\ x + 1 \in 0 .. MaxArrayDepth
       /\ e.end > 0 /\ r = [end |-> e.end, depth |-> e.depth + 1]
    \/ /\ At(s, i) = "(" /\ At(s, i + 1) # ")"
       /\ i + 1 \in 1 .. n + 1 /\ y + 1 \in 0 .. MaxStructDepth /\ r = f

\* The same of the fields of a struct from the field f on, with the others o.
IsFieldsFound(s, n, i, r, f, o) ==
    \/ At(s, i) = ")" /\ r = [end |-> i + 1, depth |-> 1]
    \/ /\ At(s, i) # ")" /\ f.end \in i + 1 .. n + 1 /\ o.end > 0
       /\ r = [end |-> o.end, depth |-> Max({f.depth + 1, o.depth})]

\* What the scan says of a place is what it says of the places behind it.
LEMMA TypeFound ==
    ASSUME NEW s \in Seq(Chars), NEW n \in Nat, n = Len(s), NEW g, g = Scan(s), NEW i \in 1 .. n + 1,
           NEW x \in 0 .. MaxArrayDepth, NEW y \in 0 .. MaxStructDepth,
           g[<<"type", i, x, y>>].end > 0
    PROVE  IsTypeFound(s, n, i, x, y, g[<<"type", i, x, y>>], g[<<"type", i + 3, x + 1, y + 1>>],
                       g[<<"type", i + 1, x + 1, y>>], g[<<"fields", i + 1, x, y + 1>>])
<1> USE DEF IsTypeFound
<1>0. \A p \in Places(s) : g[p] = ScanAt(g, s, p) /\ GetsAhead(s, g, p)
    BY ScanIs
<1>1. g[<<"type", i, x, y>>] = ScanType(g, s, i, x, y)
    BY <1>0, PlaceFacts DEF ScanAt
<1>2. Malformed.end = 0 /\ ~(0 > 0)
    BY DEF Malformed
<1>3. i \in Nat /\ i + 1 \in Nat /\ i + 2 \in Nat /\ i + 1 + 1 = i + 2 /\ i + 2 + 1 = i + 3
    OBVIOUS
<1>4. CASE At(s, i) \in Basic \cup {"v"}
    <2>1. ScanType(g, s, i, x, y) = [end |-> i + 1, depth |-> 0]
        BY <1>4, CharFacts DEF ScanType
    <2> QED
        BY Zenon, <1>1, <1>4, <2>1
<1>5. CASE At(s, i) = "a" /\ x < MaxArrayDepth /\ At(s, i + 1) = "{"
    <2>1. ScanType(g, s, i, x, y) = Entry(g, s, i + 2, x + 1, y)
        BY <1>5, CharFacts DEF ScanType
    <2> DEFINE v == g[<<"type", i + 3, x + 1, y + 1>>]
    <2>2. y < MaxStructDepth /\ At(s, i + 2) \in Basic /\ v.end > 0 /\ At(s, v.end) = "}"
        <3> SUFFICES ASSUME ~(y < MaxStructDepth /\ At(s, i + 2) \in Basic
                                /\ v.end > 0 /\ At(s, v.end) = "}")
                     PROVE FALSE
            BY Zenon
        <3>1. Entry(g, s, i + 2, x + 1, y) = Malformed
            BY Zenon, <1>3 DEF Entry
        <3> QED
            BY <1>1, <1>2, <2>1, <3>1
    <2>3. Entry(g, s, i + 2, x + 1, y) = [end |-> v.end + 1, depth |-> v.depth + 2]
        BY Zenon, <1>3, <2>2 DEF Entry
    <2>4. i + 2 <= n
        <3>1. At(s, i + 2) # "end"
            BY <2>2, CharFacts
        <3> QED
            BY <1>3, <3>1, AtFacts
    <2>5. i + 3 \in 1 .. n + 1
        BY <2>4
    <2>6. x + 1 \in 0 .. MaxArrayDepth /\ y + 1 \in 0 .. MaxStructDepth
        BY <1>5, <2>2, LimitFacts
    <2> QED
        BY Zenon, <1>1, <1>5, <2>1, <2>2, <2>3, <2>5, <2>6
<1>6. CASE At(s, i) = "a" /\ x < MaxArrayDepth /\ At(s, i + 1) # "{"
    <2>1. ScanType(g, s, i, x, y) = Element(g, i + 1, x + 1, y)
        BY <1>6, CharFacts DEF ScanType
    <2>2. i + 1 \in 1 .. n + 1 /\ x + 1 \in 0 .. MaxArrayDepth
        <3>1. At(s, i) # "end"
            BY <1>6
        <3>2. i <= n
            BY <1>3, <3>1, AtFacts
        <3>3. i + 1 \in 1 .. n + 1
            BY <3>2
        <3> QED
            BY <1>6, <3>3, LimitFacts
    <2>3. g[<<"type", i + 1, x + 1, y>>] \in TypeScans
        BY <1>0, <2>2, PlaceFacts DEF GetsAhead
    <2>4. PICK e \in Nat, d \in Nat : g[<<"type", i + 1, x + 1, y>>] = [end |-> e, depth |-> d]
        BY <2>3 DEF TypeScans
    <2>5. e # 0
        <3> SUFFICES ASSUME e = 0 PROVE FALSE
            OBVIOUS
        <3>1. Element(g, i + 1, x + 1, y) = Malformed
            BY <2>4 DEF Element
        <3> QED
            BY <1>1, <1>2, <2>1, <3>1
    <2>6. Element(g, i + 1, x + 1, y) = [end |-> e, depth |-> d + 1]
        BY <2>4, <2>5 DEF Element
    <2>7. e > 0
        BY <2>5
    <2>8. g[<<"type", i + 1, x + 1, y>>].end = e /\ g[<<"type", i + 1, x + 1, y>>].depth = d
        BY <2>4
    <2> QED
        BY Zenon, <1>1, <1>6, <2>1, <2>2, <2>6, <2>7, <2>8
<1>7. CASE At(s, i) = "(" /\ y < MaxStructDepth /\ At(s, i + 1) # ")"
    <2>1. ScanType(g, s, i, x, y) = g[<<"fields", i + 1, x, y + 1>>]
        BY <1>7, CharFacts DEF ScanType
    <2>2. i + 1 \in 1 .. n + 1 /\ y + 1 \in 0 .. MaxStructDepth
        <3>1. At(s, i) # "end"
            BY <1>7
        <3>2. i <= n
            BY <1>3, <3>1, AtFacts
        <3>3. i + 1 \in 1 .. n + 1
            BY <3>2
        <3> QED
            BY <1>7, <3>3, LimitFacts
    <2> QED
        BY Zenon, <1>1, <1>7, <2>1, <2>2
<1>8. CASE /\ At(s, i) \notin Basic \cup {"v"}
           /\ ~(At(s, i) = "a" /\ x < MaxArrayDepth)
           /\ ~(At(s, i) = "(" /\ y < MaxStructDepth /\ At(s, i + 1) # ")")
    <2>1. ScanType(g, s, i, x, y) = Malformed
        BY <1>8 DEF ScanType
    <2> QED
        BY <1>1, <1>2, <2>1
<1> QED
    BY Zenon, <1>4, <1>5, <1>6, <1>7, <1>8

\* What is found of the fields of a struct that are scanned to its end.
LEMMA FieldsFound ==
    ASSUME NEW s \in Seq(Chars), NEW n \in Nat, n = Len(s), NEW g, g = Scan(s), NEW i \in 1 .. n + 1,
           NEW x \in 0 .. MaxArrayDepth, NEW y \in 0 .. MaxStructDepth,
           g[<<"fields", i, x, y>>].end > 0
    PROVE  LET f == g[<<"type", i, x, y>>]
           IN  IsFieldsFound(s, n, i, g[<<"fields", i, x, y>>], f, g[<<"fields", f.end, x, y>>])
<1> USE DEF IsFieldsFound
<1>0. \A p \in Places(s) : g[p] = ScanAt(g, s, p) /\ GetsAhead(s, g, p)
    BY ScanIs
<1>1. g[<<"fields", i, x, y>>] = ScanFields(g, s, i, x, y)
    BY <1>0, PlaceFacts DEF ScanAt
<1>2. Malformed.end = 0 /\ ~(0 > 0)
    BY DEF Malformed
<1> DEFINE f == g[<<"type", i, x, y>>]
           o == g[<<"fields", f.end, x, y>>]
<1>3. CASE At(s, i) = ")"
    <2>1. ScanFields(g, s, i, x, y) = [end |-> i + 1, depth |-> 1]
        BY <1>3 DEF ScanFields
    <2> QED
        BY Zenon, <1>1, <1>3, <2>1
<1>4. CASE At(s, i) # ")" /\ (f.end = 0 \/ o.end = 0)
    <2>1. ScanFields(g, s, i, x, y) = Malformed
        BY Zenon, <1>4 DEF ScanFields
    <2> QED
        BY <1>1, <1>2, <2>1
<1>5. CASE At(s, i) # ")" /\ f.end # 0 /\ o.end # 0
    <2>1. ScanFields(g, s, i, x, y) = [end |-> o.end, depth |-> Max({f.depth + 1, o.depth})]
        BY Zenon, <1>5 DEF ScanFields
    <2>2. f.end \in i + 1 .. n + 1
        <3>1. GetsAhead(s, g, <<"type", i, x, y>>)
            BY <1>0, PlaceFacts
        <3>2. <<"type", i, x, y>>[2] = i
            OBVIOUS
        <3> QED
            BY Zenon, <1>5, <3>1, <3>2 DEF GetsAhead
    <2>3. o.end > 0
        <3>1. f.end \in 1 .. n + 1
            BY <2>2
        <3> HIDE DEF f
        <3>2. <<"fields", f.end, x, y>> \in Places(s)
            BY <3>1, PlaceFacts
        <3>3. o \in TypeScans
            BY <1>0, <3>2 DEF GetsAhead
        <3>4. o.end \in Nat
            BY <3>3 DEF TypeScans
        <3> QED
            BY <1>5, <3>4
    <2> QED
        BY Zenon, <1>1, <1>5, <2>1, <2>2, <2>3
<1> QED
    BY Zenon, <1>3, <1>4, <1>5

\* From the distance d on, t reads as s does between i and j.
Alike(s, t, d, i, j) == \A k \in i .. j - 1 : At(t, k + d) = At(s, k)

\* What is scanned at p in s is scanned in t too, where t reads alike.
ScannedAlike(s, t, d, p) ==
    \A x \in 0 .. MaxArrayDepth, y \in 0 .. MaxStructDepth :
        LET r == Scan(s)[p]
            q == <<p[1], p[2] + d, x, y>>
        IN  /\ r.end > 0 /\ q \in Places(t) /\ Scan(t)[q].end > 0 /\ Alike(s, t, d, p[2], r.end)
            => Scan(t)[q] = [end |-> r.end + d, depth |-> r.depth]

\* A scan is of two naturals.
LEMMA ScanTyped ==
    ASSUME NEW s \in Seq(Chars), NEW n \in Nat, n = Len(s), NEW w \in {"type", "fields"}, NEW i \in 1 .. n + 1,
           NEW x \in 0 .. MaxArrayDepth, NEW y \in 0 .. MaxStructDepth
    PROVE  /\ Scan(s)[<<w, i, x, y>>].end \in Nat /\ Scan(s)[<<w, i, x, y>>].depth \in Nat
           /\ Scan(s)[<<w, i, x, y>>] = [end |-> Scan(s)[<<w, i, x, y>>].end,
                                         depth |-> Scan(s)[<<w, i, x, y>>].depth]
           /\ Scan(s)[<<w, i, x, y>>].end > 0 => Scan(s)[<<w, i, x, y>>].end \in i + 1 .. n + 1
<1>1. <<w, i, x, y>> \in Places(s)
    BY PlaceFacts
<1>2. PICK r : r = Scan(s)[<<w, i, x, y>>]
    OBVIOUS
<1>3. r \in TypeScans /\ (r.end = 0 \/ r.end \in i + 1 .. n + 1)
    <2>1. GetsAhead(s, Scan(s), <<w, i, x, y>>)
        BY <1>1, ScanIs
    <2>2. <<w, i, x, y>>[2] = i
        OBVIOUS
    <2> QED
        BY <1>2, <2>1, <2>2 DEF GetsAhead
<1>4. PICK e \in Nat, d \in Nat : r = [end |-> e, depth |-> d]
    BY <1>3 DEF TypeScans
<1>5. r.end \in Nat /\ r.depth \in Nat /\ r = [end |-> r.end, depth |-> r.depth]
    BY <1>4
<1>6. r.end > 0 => r.end \in i + 1 .. n + 1
    BY <1>3, <1>5
<1> QED
    BY Zenon, <1>2, <1>5, <1>6

\* A place of a text further on.
LEMMA PlaceOf ==
    ASSUME NEW s \in Seq(Chars), NEW n \in Nat, n = Len(s), NEW w \in {"type", "fields"}, NEW i \in Nat,
           NEW x, NEW y, <<w, i, x, y>> \in Places(s)
    PROVE  i \in 1 .. n + 1 /\ x \in 0 .. MaxArrayDepth /\ y \in 0 .. MaxStructDepth
BY DEF Places

\* A scan r1 in t finds what r finds in s, at the distance d.
Found(r, r1, d) == r1 = [end |-> r.end + d, depth |-> r.depth]

\* A type is found in t when its parts are.
LEMMA TypeAlike ==
    ASSUME NEW s, NEW t, NEW n \in Nat, NEW m \in Nat, NEW d \in Int,
           NEW i \in 1 .. n + 1, NEW u \in 1 .. m + 1, u = i + d,
           NEW x, NEW y, NEW a, NEW b,
           NEW r, NEW v, NEW e, NEW f, NEW r1, NEW v1, NEW e1, NEW f1,
           IsTypeFound(s, n, i, x, y, r, v, e, f), IsTypeFound(t, m, u, a, b, r1, v1, e1, f1),
           r.end \in i + 1 .. n + 1,
           x + 1 \in 0 .. MaxArrayDepth /\ y + 1 \in 0 .. MaxStructDepth
              /\ i + 3 \in 1 .. n + 1 /\ v.end > 0 => v.end \in i + 3 + 1 .. n + 1,
           x + 1 \in 0 .. MaxArrayDepth
              /\ i + 1 \in 1 .. n + 1 /\ e.end > 0 => e.end \in i + 1 + 1 .. n + 1,
           \A k \in i .. r.end - 1 : At(t, k + d) = At(s, k),
           x + 1 \in 0 .. MaxArrayDepth /\ y + 1 \in 0 .. MaxStructDepth
              /\ a + 1 \in 0 .. MaxArrayDepth /\ b + 1 \in 0 .. MaxStructDepth
              /\ i + 3 \in 1 .. n + 1 /\ u + 3 \in 1 .. m + 1 /\ v.end <= r.end
              /\ v.end > 0 /\ v1.end > 0 => Found(v, v1, d),
           x + 1 \in 0 .. MaxArrayDepth /\ a + 1 \in 0 .. MaxArrayDepth
              /\ i + 1 \in 1 .. n + 1 /\ u + 1 \in 1 .. m + 1 /\ e.end <= r.end
              /\ e.end > 0 /\ e1.end > 0 => Found(e, e1, d),
           y + 1 \in 0 .. MaxStructDepth /\ b + 1 \in 0 .. MaxStructDepth /\ r = f /\ r1 = f1
              /\ i + 1 \in 1 .. n + 1 /\ u + 1 \in 1 .. m + 1 => Found(f, f1, d)
    PROVE  Found(r, r1, d)
<1>1. PICK j \in Nat : j = r.end /\ j > i
    OBVIOUS
<1>2. i \in Nat /\ u \in Nat /\ u = i + d
    OBVIOUS
<1>3. /\ At(t, u) = At(s, i)
      /\ i + 1 < j => At(t, u + 1) = At(s, i + 1)
      /\ i + 2 < j => At(t, u + 2) = At(s, i + 2)
    <2>1. i \in i .. j - 1 /\ (i + 1 < j => i + 1 \in i .. j - 1) /\ (i + 2 < j => i + 2 \in i .. j - 1)
        BY <1>1, <1>2
    <2>2. u = i + d /\ u + 1 = i + 1 + d /\ u + 2 = i + 2 + d
        BY <1>2
    <2>3. \A k \in i .. j - 1 : At(t, k + d) = At(s, k)
        BY <1>1
    <2> QED
        BY Zenon, <2>1, <2>2, <2>3
<1>4. CASE At(s, i) \in Basic \cup {"v"} /\ r = [end |-> i + 1, depth |-> 0]
    <2>1. r1 = [end |-> u + 1, depth |-> 0]
        BY Zenon, <1>3, <1>4, CharFacts DEF IsTypeFound
    <2>2. r.end + d = u + 1 /\ r.depth = 0
        <3>1. r.end = i + 1 /\ r.depth = 0
            BY <1>4
        <3>2. i + 1 + d = u + 1
            BY <1>2
        <3> QED
            BY Zenon, <3>1, <3>2
    <2> QED
        BY Zenon, <2>1, <2>2 DEF Found
<1>5. CASE /\ At(s, i) = "a" /\ At(s, i + 1) = "{" /\ At(s, i + 2) \in Basic
           /\ i + 3 \in 1 .. n + 1 /\ x + 1 \in 0 .. MaxArrayDepth /\ y + 1 \in 0 .. MaxStructDepth
           /\ v.end > 0 /\ At(s, v.end) = "}" /\ r = [end |-> v.end + 1, depth |-> v.depth + 2]
    <2>1. PICK k \in Nat : k = v.end /\ k \in i + 3 + 1 .. n + 1
        <3>1. v.end \in i + 3 + 1 .. n + 1
            BY Zenon, <1>5
        <3> QED
            BY <3>1
    <2>2. r.end = k + 1 /\ r.depth = v.depth + 2
        <3>1. r.end = v.end + 1 /\ r.depth = v.depth + 2
            BY <1>5
        <3> QED
            BY Zenon, <2>1, <3>1
    <2>3. i + 1 < j /\ i + 2 < j /\ k <= j /\ j = k + 1
        <3>1. j = k + 1
            BY Zenon, <1>1, <2>2
        <3> QED
            BY <1>2, <2>1, <3>1
    <2>4. /\ u + 3 \in 1 .. m + 1 /\ v1.end > 0
          /\ a + 1 \in 0 .. MaxArrayDepth /\ b + 1 \in 0 .. MaxStructDepth
          /\ r1 = [end |-> v1.end + 1, depth |-> v1.depth + 2]
        <3>1. At(t, u) = "a" /\ At(t, u + 1) = "{"
            BY Zenon, <1>3, <1>5, <2>3
        <3> QED
            BY Zenon, <3>1, CharFacts DEF IsTypeFound
    <2>5. v1 = [end |-> v.end + d, depth |-> v.depth]
        <3>1. v.end <= r.end
            BY Zenon, <1>1, <2>1, <2>3
        <3> QED
            BY Zenon, <1>5, <2>4, <3>1 DEF Found
    <2>6. v1.end = k + d /\ v1.depth = v.depth
        <3>1. v1.end = v.end + d /\ v1.depth = v.depth
            BY <2>5
        <3> QED
            BY Zenon, <2>1, <3>1
    <2>7. k + d + 1 = k + 1 + d
        BY <2>1
    <2> QED
        BY Zenon, <2>2, <2>4, <2>6, <2>7 DEF Found
<1>6. CASE /\ At(s, i) = "a" /\ At(s, i + 1) # "{"
           /\ i + 1 \in 1 .. n + 1 /\ x + 1 \in 0 .. MaxArrayDepth
           /\ e.end > 0 /\ r = [end |-> e.end, depth |-> e.depth + 1]
    <2>1. PICK k \in Nat : k = e.end /\ k \in i + 1 + 1 .. n + 1
        <3>1. e.end \in i + 1 + 1 .. n + 1
            BY Zenon, <1>6
        <3> QED
            BY <3>1
    <2>2. r.end = k /\ r.depth = e.depth + 1
        <3>1. r.end = e.end /\ r.depth = e.depth + 1
            BY <1>6
        <3> QED
            BY Zenon, <2>1, <3>1
    <2>3. i + 1 < j /\ j = k
        <3>1. j = k
            BY Zenon, <1>1, <2>2
        <3> QED
            BY <1>2, <2>1, <3>1
    <2>4. /\ u + 1 \in 1 .. m + 1 /\ e1.end > 0 /\ a + 1 \in 0 .. MaxArrayDepth
          /\ r1 = [end |-> e1.end, depth |-> e1.depth + 1]
        <3>1. At(t, u) = "a" /\ At(t, u + 1) # "{"
            BY Zenon, <1>3, <1>6, <2>3
        <3> QED
            BY Zenon, <3>1, CharFacts DEF IsTypeFound
    <2>5. e1 = [end |-> e.end + d, depth |-> e.depth]
        <3>1. e.end <= r.end
            BY <2>1, <2>2
        <3> QED
            BY Zenon, <1>6, <2>4, <3>1 DEF Found
    <2>6. e1.end = k + d /\ e1.depth = e.depth
        <3>1. e1.end = e.end + d /\ e1.depth = e.depth
            BY <2>5
        <3> QED
            BY Zenon, <2>1, <3>1
    <2> QED
        BY Zenon, <2>2, <2>4, <2>6 DEF Found
<1>7. CASE /\ At(s, i) = "(" /\ At(s, i + 1) # ")"
           /\ i + 1 \in 1 .. n + 1 /\ y + 1 \in 0 .. MaxStructDepth /\ r = f
    <2>1. u + 1 \in 1 .. m + 1 /\ b + 1 \in 0 .. MaxStructDepth /\ r1 = f1
        BY Zenon, <1>3, <1>7, CharFacts DEF IsTypeFound
    <2> QED
        BY Zenon, <1>7, <2>1
<1> QED
    BY Zenon, <1>4, <1>5, <1>6, <1>7 DEF IsTypeFound

\* The fields of a struct are found in t when they are one by one.
LEMMA FieldsAlike ==
    ASSUME NEW s, NEW t, NEW n \in Nat, NEW m \in Nat, NEW d \in Int,
           NEW i \in 1 .. n + 1, NEW u \in 1 .. m + 1, u = i + d,
           NEW r, NEW f, NEW o, NEW r1, NEW f1, NEW o1,
           IsFieldsFound(s, n, i, r, f, o), IsFieldsFound(t, m, u, r1, f1, o1),
           r.end \in i + 1 .. n + 1, At(t, u) = At(s, i),
           f.end \in i + 1 .. n + 1 /\ f.end <= r.end /\ f1.end \in u + 1 .. m + 1 => Found(f, f1, d),
           f.end \in i + 1 .. n + 1 /\ o.end > 0 => o.end \in f.end + 1 .. n + 1,
           f.end \in i + 1 .. n + 1 /\ f1.end \in u + 1 .. m + 1 /\ f1.end = f.end + d
              /\ o.end = r.end /\ o.end > 0 /\ o1.end > 0 => Found(o, o1, d)
    PROVE  Found(r, r1, d)
<1>1. CASE At(s, i) = ")" /\ r = [end |-> i + 1, depth |-> 1]
    <2>1. r1 = [end |-> u + 1, depth |-> 1]
        BY Zenon, <1>1 DEF IsFieldsFound
    <2>2. r.end + d = u + 1 /\ r.depth = 1
        <3>1. r.end = i + 1 /\ r.depth = 1
            BY <1>1
        <3>2. i + 1 + d = u + 1
            OBVIOUS
        <3> QED
            BY Zenon, <3>1, <3>2
    <2> QED
        BY Zenon, <2>1, <2>2 DEF Found
<1>2. CASE /\ At(s, i) # ")" /\ f.end \in i + 1 .. n + 1 /\ o.end > 0
           /\ r = [end |-> o.end, depth |-> Max({f.depth + 1, o.depth})]
    <2>1. r.end = o.end /\ r.depth = Max({f.depth + 1, o.depth})
        <3>1. PICK z : z = Max({f.depth + 1, o.depth})
            OBVIOUS
        <3>2. r = [end |-> o.end, depth |-> z]
            BY Zenon, <1>2, <3>1
        <3>3. r.end = o.end /\ r.depth = z
            BY <3>2
        <3> QED
            BY Zenon, <3>1, <3>3
    <2>2. /\ f1.end \in u + 1 .. m + 1 /\ o1.end > 0
          /\ r1 = [end |-> o1.end, depth |-> Max({f1.depth + 1, o1.depth})]
        BY Zenon, <1>2 DEF IsFieldsFound
    <2>3. f.end <= r.end
        BY <1>2, <2>1
    <2>4. f1 = [end |-> f.end + d, depth |-> f.depth]
        BY Zenon, <1>2, <2>2, <2>3 DEF Found
    <2>5. f1.end = f.end + d /\ f1.depth = f.depth
        BY <2>4
    <2>6. o1 = [end |-> o.end + d, depth |-> o.depth]
        BY Zenon, <1>2, <2>1, <2>2, <2>5 DEF Found
    <2>7. o1.end = o.end + d /\ o1.depth = o.depth
        BY <2>6
    <2> QED
        BY Zenon, <2>1, <2>2, <2>5, <2>7 DEF Found
<1> QED
    BY Zenon, <1>1, <1>2 DEF IsFieldsFound

\* Scans of texts that read alike.
LEMMA ScansAlike ==
    ASSUME NEW s \in Seq(Chars), NEW t \in Seq(Chars), NEW d \in Int
    PROVE  \A p \in Places(s) : ScannedAlike(s, t, d, p)
<1> DEFINE Q == {p \in Places(s) : ScannedAlike(s, t, d, p)}
           rank == [p \in Places(s) |-> Left(s, p)]
<1>1. PICK n \in Nat, m \in Nat : n = Len(s) /\ m = Len(t)
    OBVIOUS
<1>2. ASSUME NEW p \in Places(s), \A q \in Places(s) : rank[q] < rank[p] => q \in Q
      PROVE  p \in Q
    <2>1. PICK w \in {"type", "fields"}, i \in 1 .. n + 1,
               x \in 0 .. MaxArrayDepth, y \in 0 .. MaxStructDepth : p = <<w, i, x, y>>
        BY <1>1 DEF Places
    <2>2. \A q \in Places(s) : Left(s, q) < Left(s, p) => q \in Q
        BY <1>2
    <2>3. /\ \A k \in i + 1 .. n + 1, a \in 0 .. MaxArrayDepth, b \in 0 .. MaxStructDepth :
                <<"type", k, a, b>> \in Q /\ <<"fields", k, a, b>> \in Q
          /\ p[1] = "fields" => <<"type", i, x, y>> \in Q
        <3> HIDE DEF Q
        <3>1. p \in {<<"type", i, x, y>>, <<"fields", i, x, y>>}
            BY <2>1
        <3>2. /\ \A k \in i + 1 .. n + 1, a \in 0 .. MaxArrayDepth, b \in 0 .. MaxStructDepth :
                    /\ <<"type", k, a, b>> \in Places(s)
                    /\ Left(s, <<"type", k, a, b>>) < Left(s, p)
                    /\ <<"fields", k, a, b>> \in Places(s)
                    /\ Left(s, <<"fields", k, a, b>>) < Left(s, p)
              /\ p[1] = "fields" =>
                    /\ <<"type", i, x, y>> \in Places(s)
                    /\ Left(s, <<"type", i, x, y>>) < Left(s, p)
            BY <1>1, <3>1, PlacesAhead
        <3> QED
            BY <2>2, <3>2
    <2>5. ASSUME NEW a \in 0 .. MaxArrayDepth, NEW b \in 0 .. MaxStructDepth,
                 Scan(s)[p].end > 0, <<w, i + d, a, b>> \in Places(t),
                 Scan(t)[<<w, i + d, a, b>>].end > 0, Alike(s, t, d, i, Scan(s)[p].end)
          PROVE  Found(Scan(s)[p], Scan(t)[<<w, i + d, a, b>>], d)
        <3> HIDE DEF Q
        <3>1. PICK u \in Nat : u = i + d /\ u \in 1 .. m + 1
            BY <1>1, <2>5 DEF Places
        <3>2. PICK g, h : g = Scan(s) /\ h = Scan(t)
            OBVIOUS
        <3>3. PICK j \in Nat : j = g[<<w, i, x, y>>].end /\ j \in i + 1 .. n + 1
            BY <1>1, <2>1, <2>5, <3>2, ScanTyped
        <3>4. Alike(s, t, d, i, j) /\ g[<<w, i, x, y>>].end > 0 /\ h[<<w, u, a, b>>].end > 0
            BY Zenon, <2>1, <2>5, <3>1, <3>2, <3>3
        <3>5. \A k \in i .. g[<<w, i, x, y>>].end - 1 : At(t, k + d) = At(s, k)
            BY Zenon, <3>3, <3>4 DEF Alike
        <3>6. ASSUME NEW v \in {"type", "fields"}, NEW k \in 1 .. n + 1, NEW c \in 1 .. m + 1,
                     NEW a1 \in 0 .. MaxArrayDepth, NEW b1 \in 0 .. MaxStructDepth,
                     NEW a2 \in 0 .. MaxArrayDepth, NEW b2 \in 0 .. MaxStructDepth,
                     k > i \/ (v = "type" /\ k = i /\ w = "fields" /\ a1 = x /\ b1 = y),
                     c = k + d, g[<<v, k, a1, b1>>].end > 0, h[<<v, c, a2, b2>>].end > 0,
                     g[<<v, k, a1, b1>>].end <= j
              PROVE  Found(g[<<v, k, a1, b1>>], h[<<v, c, a2, b2>>], d)
            <4>1. <<v, k, a1, b1>> \in Q
                <5>1. CASE k > i
                    <6>1. k \in i + 1 .. n + 1
                        BY <5>1
                    <6> QED
                        BY <2>3, <6>1
                <5>2. CASE v = "type" /\ k = i /\ w = "fields" /\ a1 = x /\ b1 = y
                    <6>1. p[1] = "fields"
                        BY <2>1, <5>2
                    <6> QED
                        BY Zenon, <2>3, <5>2, <6>1
                <5> QED
                    BY Zenon, <3>6, <5>1, <5>2
            <4>2. ScannedAlike(s, t, d, <<v, k, a1, b1>>)
                BY <4>1 DEF Q
            <4>3. <<v, c, a2, b2>> \in Places(t)
                BY <1>1, PlaceFacts
            <4>4. PICK l \in Nat : l = g[<<v, k, a1, b1>>].end
                BY <1>1, <3>2, ScanTyped
            <4>5. Alike(s, t, d, k, l)
                <5>1. k >= i /\ l <= j
                    <6>1. k > i \/ k = i
                        BY Zenon, <3>6
                    <6>2. l <= j
                        BY Zenon, <3>6, <4>4
                    <6> QED
                        BY <6>1, <6>2
                <5>2. \A z \in k .. l - 1 : z \in i .. j - 1
                    BY <5>1
                <5> QED
                    BY Zenon, <3>4, <5>2 DEF Alike
            <4>6. <<v, k, a1, b1>>[1] = v /\ <<v, k, a1, b1>>[2] = k
                OBVIOUS
            <4> QED
                BY Zenon, <3>2, <3>6, <4>2, <4>3, <4>4, <4>5, <4>6 DEF ScannedAlike, Found
        <3>7. ASSUME w = "type" PROVE Found(g[<<w, i, x, y>>], h[<<w, u, a, b>>], d)
            <4> DEFINE r == g[<<"type", i, x, y>>]
                       v == g[<<"type", i + 3, x + 1, y + 1>>]
                       e == g[<<"type", i + 1, x + 1, y>>]
                       f == g[<<"fields", i + 1, x, y + 1>>]
                       r1 == h[<<"type", u, a, b>>]
                       v1 == h[<<"type", u + 3, a + 1, b + 1>>]
                       e1 == h[<<"type", u + 1, a + 1, b>>]
                       f1 == h[<<"fields", u + 1, a, b + 1>>]
            <4>1. IsTypeFound(s, n, i, x, y, r, v, e, f)
                BY <1>1, <3>2, <3>4, <3>7, TypeFound
            <4>2. IsTypeFound(t, m, u, a, b, r1, v1, e1, f1)
                BY <1>1, <3>1, <3>2, <3>4, <3>7, TypeFound
            <4>3. r.end = j /\ r.end \in i + 1 .. n + 1 /\ r.end > 0 /\ r1.end > 0
                BY Zenon, <3>3, <3>4, <3>7
            <4>4. u + 1 = i + 1 + d /\ u + 3 = i + 3 + d /\ i + 1 > i /\ i + 3 > i
                <5>1. i \in Nat /\ u = i + d
                    BY <3>1
                <5> QED
                    BY <5>1
            <4>5. /\ x + 1 \in 0 .. MaxArrayDepth /\ y + 1 \in 0 .. MaxStructDepth
                     /\ i + 3 \in 1 .. n + 1 /\ v.end > 0
                        => v.end \in i + 3 + 1 .. n + 1
                  /\ x + 1 \in 0 .. MaxArrayDepth /\ i + 1 \in 1 .. n + 1 /\ e.end > 0
                        => e.end \in i + 1 + 1 .. n + 1
                BY <1>1, <3>2, ScanTyped
            <4>6. x + 1 \in 0 .. MaxArrayDepth /\ y + 1 \in 0 .. MaxStructDepth
                    /\ a + 1 \in 0 .. MaxArrayDepth /\ b + 1 \in 0 .. MaxStructDepth
                    /\ i + 3 \in 1 .. n + 1 /\ u + 3 \in 1 .. m + 1 /\ v.end <= r.end
                    /\ v.end > 0 /\ v1.end > 0 => Found(v, v1, d)
                BY Zenon, <3>6, <4>3, <4>4
            <4>7. x + 1 \in 0 .. MaxArrayDepth /\ a + 1 \in 0 .. MaxArrayDepth
                    /\ i + 1 \in 1 .. n + 1 /\ u + 1 \in 1 .. m + 1 /\ e.end <= r.end
                    /\ e.end > 0 /\ e1.end > 0 => Found(e, e1, d)
                BY Zenon, <3>6, <4>3, <4>4
            <4>8. y + 1 \in 0 .. MaxStructDepth /\ b + 1 \in 0 .. MaxStructDepth
                    /\ r = f /\ r1 = f1 /\ i + 1 \in 1 .. n + 1 /\ u + 1 \in 1 .. m + 1 => Found(f, f1, d)
                <5>1. r.end <= j
                    BY <4>3
                <5> QED
                    BY Zenon, <3>6, <4>3, <4>4, <5>1
            <4>9. \A k \in i .. r.end - 1 : At(t, k + d) = At(s, k)
                BY Zenon, <3>5, <3>7
            <4> HIDE DEF r, v, e, f, r1, v1, e1, f1
            <4>10. Found(r, r1, d)
                BY <3>1, <4>1, <4>2, <4>3, <4>5, <4>6, <4>7, <4>8, <4>9, TypeAlike, SMTT(60)
            <4> QED
                BY Zenon, <3>7, <4>10 DEF r, r1
        <3>8. ASSUME w = "fields" PROVE Found(g[<<w, i, x, y>>], h[<<w, u, a, b>>], d)
            <4> DEFINE r == g[<<"fields", i, x, y>>]
                       f == g[<<"type", i, x, y>>]
                       o == g[<<"fields", f.end, x, y>>]
                       r1 == h[<<"fields", u, a, b>>]
                       f1 == h[<<"type", u, a, b>>]
                       o1 == h[<<"fields", f1.end, a, b>>]
            <4>1. IsFieldsFound(s, n, i, r, f, o)
                BY <1>1, <3>2, <3>4, <3>8, FieldsFound
            <4>2. IsFieldsFound(t, m, u, r1, f1, o1)
                BY <1>1, <3>1, <3>2, <3>4, <3>8, FieldsFound
            <4>3. r.end = j /\ r.end \in i + 1 .. n + 1
                BY Zenon, <3>3, <3>8
            <4>4. At(t, u) = At(s, i)
                <5>1. i \in i .. j - 1
                    <6>1. j > i
                        BY <3>3
                    <6> QED
                        BY <6>1
                <5> QED
                    BY Zenon, <3>1, <3>4, <5>1 DEF Alike
            <4>5. f.end \in i + 1 .. n + 1 /\ f.end <= r.end /\ f1.end \in u + 1 .. m + 1 => Found(f, f1, d)
                <5> SUFFICES ASSUME f.end \in i + 1 .. n + 1, f.end <= r.end, f1.end \in u + 1 .. m + 1
                             PROVE  Found(f, f1, d)
                    BY Zenon
                <5>1. f.end > 0 /\ f1.end > 0 /\ f.end <= j
                    <6>1. \A z \in i + 1 .. n + 1 : z > 0
                        OBVIOUS
                    <6>2. \A z \in u + 1 .. m + 1 : z > 0
                        OBVIOUS
                    <6> QED
                        BY Zenon, <4>3, <6>1, <6>2
                <5> QED
                    BY Zenon, <3>1, <3>6, <3>8, <5>1
            <4>6. f.end \in i + 1 .. n + 1 /\ o.end > 0 => o.end \in f.end + 1 .. n + 1
                <5>1. f.end \in i + 1 .. n + 1 => f.end \in 1 .. n + 1
                    <6>1. \A z \in i + 1 .. n + 1 : z \in 1 .. n + 1
                        OBVIOUS
                    <6> QED
                        BY Zenon, <6>1
                <5> HIDE DEF f
                <5> QED
                    BY <1>1, <3>2, <5>1, ScanTyped
            <4>7. f.end \in i + 1 .. n + 1 /\ f1.end \in u + 1 .. m + 1 /\ f1.end = f.end + d
                    /\ o.end = r.end /\ o.end > 0 /\ o1.end > 0 => Found(o, o1, d)
                <5>1. \A z \in i + 1 .. n + 1 : z \in 1 .. n + 1 /\ z > i
                    OBVIOUS
                <5>2. \A z \in u + 1 .. m + 1 : z \in 1 .. m + 1
                    OBVIOUS
                <5>3. r.end <= j
                    BY <4>3
                <5> QED
                    BY Zenon, <3>6, <5>1, <5>2, <5>3
            <4> HIDE DEF r, f, o, r1, f1, o1
            <4>8. Found(r, r1, d)
                BY Zenon, <3>1, <4>1, <4>2, <4>3, <4>4, <4>5, <4>6, <4>7, FieldsAlike
            <4> QED
                BY Zenon, <3>8, <4>8 DEF r, r1
        <3>9. Found(g[<<w, i, x, y>>], h[<<w, u, a, b>>], d)
            BY <3>7, <3>8
        <3> QED
            BY Zenon, <2>1, <3>1, <3>2, <3>9
    <2>6. p[1] = w /\ p[2] = i
        BY <2>1
    <2>7. ScannedAlike(s, t, d, p)
        BY Zenon, <2>5, <2>6 DEF ScannedAlike, Found
    <2> QED
        BY <2>7
<1>3. rank \in [Places(s) -> Nat]
    BY PlaceRank
<1>4. Q \subseteq Places(s)
    OBVIOUS
<1>5. IsInductive(Places(s), rank, Q)
    <2> HIDE DEF rank, Q
    <2> QED
        BY <1>2, <1>3, <1>4 DEF IsInductive
<1>6. Q = Places(s)
    BY <1>5, RankInduction
<1> QED
    BY <1>6

\* The greater of two naturals.
LEMMA MaxOfTwo ==
    ASSUME NEW a \in Nat, NEW b \in Nat
    PROVE  Max({a, b}) \in {a, b} /\ a <= Max({a, b}) /\ b <= Max({a, b})
<1>1. PICK S : S = {a, b}
    OBVIOUS
<1>2. S \in SUBSET Nat /\ S # {} /\ a + b \in Nat /\ \A k \in S : k <= a + b
    BY <1>1
<1>3. Max(S) \in S /\ \A k \in S : k <= Max(S)
    BY <1>2, GreatestElement
<1> QED
    BY <1>1, <1>3

\* A type nests no more containers than the limits leave.
Bounded(s, p) ==
    Scan(s)[p].end > 0 =>
        Scan(s)[p].depth + p[3] + p[4]
            <= MaxArrayDepth + MaxStructDepth + (IF p[1] = "fields" THEN 1 ELSE 0)

\* The depth the scan gives a type, with the containers around it, stays
\* within the limits.
LEMMA DepthBounded ==
    ASSUME NEW s \in Seq(Chars)
    PROVE  \A p \in Places(s) : Bounded(s, p)
<1> DEFINE Q == {p \in Places(s) : Bounded(s, p)}
           rank == [p \in Places(s) |-> Left(s, p)]
<1>1. PICK n \in Nat : n = Len(s)
    OBVIOUS
<1>0. MaxArrayDepth \in Nat /\ MaxStructDepth \in Nat
    BY SignaturesAssumption
<1>2. ASSUME NEW p \in Places(s), \A q \in Places(s) : rank[q] < rank[p] => q \in Q
      PROVE  p \in Q
    <2>1. PICK w \in {"type", "fields"}, i \in 1 .. n + 1,
               x \in 0 .. MaxArrayDepth, y \in 0 .. MaxStructDepth : p = <<w, i, x, y>>
        BY <1>1 DEF Places
    <2>2. \A q \in Places(s) : Left(s, q) < Left(s, p) => q \in Q
        BY <1>2
    <2>3. /\ \A k \in i + 1 .. n + 1, a \in 0 .. MaxArrayDepth, b \in 0 .. MaxStructDepth :
                <<"type", k, a, b>> \in Q /\ <<"fields", k, a, b>> \in Q
          /\ p[1] = "fields" => <<"type", i, x, y>> \in Q
        <3> HIDE DEF Q
        <3>1. p \in {<<"type", i, x, y>>, <<"fields", i, x, y>>}
            BY <2>1
        <3>2. /\ \A k \in i + 1 .. n + 1, a \in 0 .. MaxArrayDepth, b \in 0 .. MaxStructDepth :
                    /\ <<"type", k, a, b>> \in Places(s)
                    /\ Left(s, <<"type", k, a, b>>) < Left(s, p)
                    /\ <<"fields", k, a, b>> \in Places(s)
                    /\ Left(s, <<"fields", k, a, b>>) < Left(s, p)
              /\ p[1] = "fields" =>
                    /\ <<"type", i, x, y>> \in Places(s)
                    /\ Left(s, <<"type", i, x, y>>) < Left(s, p)
            BY <1>1, <3>1, PlacesAhead
        <3> QED
            BY <2>2, <3>2
    <2>4. PICK g : g = Scan(s)
        OBVIOUS
    <2>5. /\ \A k \in i + 1 .. n + 1, a \in 0 .. MaxArrayDepth, b \in 0 .. MaxStructDepth :
                /\ g[<<"type", k, a, b>>].end > 0 =>
                        g[<<"type", k, a, b>>].depth + a + b <= MaxArrayDepth + MaxStructDepth
                /\ g[<<"fields", k, a, b>>].end > 0 =>
                        g[<<"fields", k, a, b>>].depth + a + b <= MaxArrayDepth + MaxStructDepth + 1
          /\ w = "fields" /\ g[<<"type", i, x, y>>].end > 0 =>
                        g[<<"type", i, x, y>>].depth + x + y <= MaxArrayDepth + MaxStructDepth
        <3>1. ASSUME NEW k, NEW a, NEW b, <<"type", k, a, b>> \in Q, g[<<"type", k, a, b>>].end > 0
              PROVE  g[<<"type", k, a, b>>].depth + a + b <= MaxArrayDepth + MaxStructDepth + 0
            BY <2>4, <3>1 DEF Bounded
        <3>2. ASSUME NEW k, NEW a, NEW b, <<"fields", k, a, b>> \in Q, g[<<"fields", k, a, b>>].end > 0
              PROVE  g[<<"fields", k, a, b>>].depth + a + b <= MaxArrayDepth + MaxStructDepth + 1
            BY <2>4, <3>2 DEF Bounded
        <3>3. MaxArrayDepth + MaxStructDepth + 0 = MaxArrayDepth + MaxStructDepth
            BY <1>0
        <3>4. w = "fields" => p[1] = "fields"
            BY <2>1
        <3> HIDE DEF Q
        <3> QED
            BY Zenon, <2>3, <3>1, <3>2, <3>3, <3>4
    <2>6. MaxArrayDepth \in Nat /\ MaxStructDepth \in Nat /\ i \in Nat /\ x \in Nat /\ y \in Nat
          /\ x <= MaxArrayDepth /\ y <= MaxStructDepth
        BY <1>0
    <2>7. ASSUME w = "type", g[p].end > 0
          PROVE  g[p].depth + x + y <= MaxArrayDepth + MaxStructDepth
        <3> DEFINE r == g[<<"type", i, x, y>>]
                   v == g[<<"type", i + 3, x + 1, y + 1>>]
                   e == g[<<"type", i + 1, x + 1, y>>]
                   f == g[<<"fields", i + 1, x, y + 1>>]
        <3>1. IsTypeFound(s, n, i, x, y, r, v, e, f)
            BY <1>1, <2>1, <2>4, <2>7, TypeFound
        <3>2. g[p] = r /\ r.end > 0
            BY Zenon, <2>1, <2>7
        <3>3. /\ i + 3 \in 1 .. n + 1 /\ x + 1 \in 0 .. MaxArrayDepth /\ y + 1 \in 0 .. MaxStructDepth
                    /\ v.end > 0 => v.depth \in Nat /\ v.depth + (x + 1) + (y + 1) <= MaxArrayDepth + MaxStructDepth
              /\ i + 1 \in 1 .. n + 1 /\ x + 1 \in 0 .. MaxArrayDepth
                    /\ e.end > 0 => e.depth \in Nat /\ e.depth + (x + 1) + y <= MaxArrayDepth + MaxStructDepth
              /\ i + 1 \in 1 .. n + 1 /\ y + 1 \in 0 .. MaxStructDepth
                    /\ f.end > 0 => f.depth \in Nat /\ f.depth + x + (y + 1) <= MaxArrayDepth + MaxStructDepth + 1
            <4>1. \A z \in 1 .. n + 1 : z > i => z \in i + 1 .. n + 1
                OBVIOUS
            <4>2. i + 3 > i /\ i + 1 > i
                OBVIOUS
            <4>3. /\ i + 3 \in 1 .. n + 1 /\ x + 1 \in 0 .. MaxArrayDepth /\ y + 1 \in 0 .. MaxStructDepth
                        => v.depth \in Nat
                  /\ i + 1 \in 1 .. n + 1 /\ x + 1 \in 0 .. MaxArrayDepth => e.depth \in Nat
                  /\ i + 1 \in 1 .. n + 1 /\ y + 1 \in 0 .. MaxStructDepth => f.depth \in Nat
                BY <1>1, <2>4, ScanTyped
            <4> QED
                BY Zenon, <2>5, <4>1, <4>2, <4>3
        <3> HIDE DEF r, v, e, f
        <3>4. CASE At(s, i) \in Basic \cup {"v"} /\ r = [end |-> i + 1, depth |-> 0]
            <4>1. r.depth = 0
                BY <3>4
            <4> QED
                BY <2>6, <3>2, <4>1
        <3>5. CASE /\ i + 3 \in 1 .. n + 1 /\ x + 1 \in 0 .. MaxArrayDepth /\ y + 1 \in 0 .. MaxStructDepth
                   /\ v.end > 0 /\ r = [end |-> v.end + 1, depth |-> v.depth + 2]
            <4>1. r.depth = v.depth + 2
                BY <3>5
            <4>2. v.depth \in Nat /\ v.depth + (x + 1) + (y + 1) <= MaxArrayDepth + MaxStructDepth
                BY Zenon, <3>3, <3>5
            <4> QED
                BY <2>6, <3>2, <4>1, <4>2
        <3>6. CASE /\ i + 1 \in 1 .. n + 1 /\ x + 1 \in 0 .. MaxArrayDepth
                   /\ e.end > 0 /\ r = [end |-> e.end, depth |-> e.depth + 1]
            <4>1. r.depth = e.depth + 1
                BY <3>6
            <4>2. e.depth \in Nat /\ e.depth + (x + 1) + y <= MaxArrayDepth + MaxStructDepth
                BY Zenon, <3>3, <3>6
            <4> QED
                BY <2>6, <3>2, <4>1, <4>2
        <3>7. CASE i + 1 \in 1 .. n + 1 /\ y + 1 \in 0 .. MaxStructDepth /\ r = f
            <4>2. f.depth \in Nat /\ f.depth + x + (y + 1) <= MaxArrayDepth + MaxStructDepth + 1
                BY Zenon, <3>2, <3>3, <3>7
            <4> QED
                BY <2>6, <3>2, <3>7, <4>2
        <3> QED
            BY Zenon, <3>1, <3>4, <3>5, <3>6, <3>7 DEF IsTypeFound
    <2>8. ASSUME w = "fields", g[p].end > 0
          PROVE  g[p].depth + x + y <= MaxArrayDepth + MaxStructDepth + 1
        <3> DEFINE r == g[<<"fields", i, x, y>>]
                   f == g[<<"type", i, x, y>>]
                   o == g[<<"fields", f.end, x, y>>]
        <3>1. IsFieldsFound(s, n, i, r, f, o)
            BY <1>1, <2>1, <2>4, <2>8, FieldsFound
        <3>2. g[p] = r
            BY Zenon, <2>1, <2>8
        <3>3. f.end \in i + 1 .. n + 1 =>
                /\ f.depth \in Nat /\ f.depth + x + y <= MaxArrayDepth + MaxStructDepth
                /\ o.depth \in Nat
                /\ o.end > 0 => o.depth + x + y <= MaxArrayDepth + MaxStructDepth + 1
            <4> SUFFICES ASSUME f.end \in i + 1 .. n + 1
                         PROVE  /\ f.depth \in Nat /\ f.depth + x + y <= MaxArrayDepth + MaxStructDepth
                                /\ o.depth \in Nat
                                /\ o.end > 0 => o.depth + x + y <= MaxArrayDepth + MaxStructDepth + 1
                BY Zenon
            <4>1. f.end \in 1 .. n + 1 /\ f.end > 0
                <5>1. \A z \in i + 1 .. n + 1 : z \in 1 .. n + 1 /\ z > 0
                    OBVIOUS
                <5> QED
                    BY Zenon, <5>1
            <4>2. f.depth \in Nat
                BY <1>1, <2>4, ScanTyped
            <4>3. PICK z \in 1 .. n + 1 : z = f.end
                BY Zenon, <4>1
            <4>4. g[<<"fields", z, x, y>>].depth \in Nat
                BY <1>1, <2>4, ScanTyped
            <4> QED
                BY Zenon, <2>5, <2>8, <4>1, <4>2, <4>3, <4>4
        <3> HIDE DEF r, f, o
        <3>4. CASE r = [end |-> i + 1, depth |-> 1]
            <4>1. r.depth = 1
                BY <3>4
            <4> QED
                BY <2>6, <3>2, <4>1
        <3>5. CASE /\ f.end \in i + 1 .. n + 1 /\ o.end > 0
                   /\ r = [end |-> o.end, depth |-> Max({f.depth + 1, o.depth})]
            <4>1. PICK a \in Nat : a = f.depth + 1 /\ a + x + y <= MaxArrayDepth + MaxStructDepth + 1
                <5>1. f.depth \in Nat /\ f.depth + x + y <= MaxArrayDepth + MaxStructDepth
                    BY Zenon, <3>3, <3>5
                <5> QED
                    BY <2>6, <5>1
            <4>2. PICK b \in Nat : b = o.depth /\ b + x + y <= MaxArrayDepth + MaxStructDepth + 1
                BY Zenon, <3>3, <3>5
            <4>3. PICK z : z = Max({a, b})
                OBVIOUS
            <4>4. r = [end |-> o.end, depth |-> z]
                BY Zenon, <3>5, <4>1, <4>2, <4>3
            <4>5. r.depth = z
                BY <4>4
            <4>6. z \in {a, b}
                BY Zenon, <4>3, MaxOfTwo
            <4> QED
                BY Zenon, <3>2, <4>1, <4>2, <4>5, <4>6
        <3> QED
            BY Zenon, <3>1, <3>4, <3>5 DEF IsFieldsFound
    <2>9. p[1] = w /\ p[3] = x /\ p[4] = y
        BY <2>1
    <2>10. MaxArrayDepth + MaxStructDepth + 0 = MaxArrayDepth + MaxStructDepth
        BY <1>0
    <2>11. Bounded(s, p)
        <3>1. CASE w = "type"
            <4>1. w # "fields"
                BY <3>1
            <4> QED
                BY Zenon, <2>4, <2>7, <2>9, <2>10, <3>1, <4>1 DEF Bounded
        <3>2. CASE w = "fields"
            BY Zenon, <2>4, <2>8, <2>9, <3>2 DEF Bounded
        <3> QED
            BY <3>1, <3>2
    <2> QED
        BY <2>11
<1>3. rank \in [Places(s) -> Nat]
    BY PlaceRank
<1>4. Q \subseteq Places(s)
    OBVIOUS
<1>5. IsInductive(Places(s), rank, Q)
    <2> HIDE DEF rank, Q
    <2> QED
        BY <1>2, <1>3, <1>4 DEF IsInductive
<1>6. Q = Places(s)
    BY <1>5, RankInduction
<1> QED
    BY <1>6

\* A part of a text that is scanned as a type is a single type, as deep as it is there.
LEMMA ScannedPart ==
    ASSUME NEW s \in Seq(Chars), NEW n \in Nat, n = Len(s), n <= MaxSignatureLength,
           NEW i \in 1 .. n + 1, NEW x \in 0 .. MaxArrayDepth, NEW y \in 0 .. MaxStructDepth,
           NEW j \in i + 1 .. n + 1, Scan(s)[<<"type", i, x, y>>].end = j
    PROVE  /\ SubSeq(s, i, j - 1) \in Seq(Chars)
           /\ IsType(SubSeq(s, i, j - 1), MaxArrayDepth, MaxStructDepth)
           /\ IsSingleCompleteType(SubSeq(s, i, j - 1))
           /\ TypeDepth(SubSeq(s, i, j - 1)) = Scan(s)[<<"type", i, x, y>>].depth
<1>0. MaxArrayDepth \in Nat /\ MaxStructDepth \in Nat
    BY SignaturesAssumption
<1> DEFINE t == SubSeq(s, i, j - 1)
<1>1. j \in i .. n + 1 /\ j - 1 \in i - 1 .. n /\ j - 1 - i + 1 = j - i /\ j - i \in Nat /\ i \in Nat
      /\ j > i /\ j \in Nat /\ j - i <= n
    OBVIOUS
<1>2. t \in Seq(Chars) /\ Len(t) = j - i /\ \A k \in 1 .. j - i : t[k] = s[i + k - 1]
    <2>1. t \in Seq(Chars) /\ Len(t) = j - 1 - i + 1 /\ \A k \in 1 .. j - 1 - i + 1 : t[k] = s[i + k - 1]
        <3>1. i \in 1 .. Len(s) + 1 /\ j - 1 \in i - 1 .. Len(s)
            BY Zenon, <1>1
        <3> QED
            BY Zenon, <3>1, PartFacts
    <2> QED
        BY Zenon, <1>1, <2>1
<1>3. TypeBetween(s, i, j, MaxArrayDepth - x, MaxStructDepth - y)
    <2>1. TypeDecided(s, i, x, y)
        BY AllDecided DEF DecidedFrom
    <2>2. TypeEnd(s, i, x, y) = j
        BY DEF TypeEnd
    <2> QED
        BY <1>1, <2>1, <2>2 DEF TypeDecided
<1>4. TypeBetween(s, i, j, MaxArrayDepth, MaxStructDepth)
    <2>1. GrowsAt(s, i)
        BY GrammarGrows
    <2>2. /\ MaxArrayDepth - x \in Nat /\ MaxStructDepth - y \in Nat
          /\ MaxArrayDepth - x <= MaxArrayDepth /\ MaxStructDepth - y <= MaxStructDepth
        BY <1>0
    <2>3. j \in i .. Len(s) + 1
        BY <1>1
    <2> QED
        BY Zenon, <1>0, <1>3, <2>1, <2>2, <2>3, GrowsFrom
<1>5. IsType(t, MaxArrayDepth, MaxStructDepth)
    BY Zenon, <1>4 DEF TypeBetween
<1>6. IsSingleCompleteType(t)
    <2> HIDE DEF t
    <2>1. Len(t) <= MaxSignatureLength
        <3>1. MaxSignatureLength \in Nat
            BY SignaturesAssumption
        <3>2. PICK l \in Nat : l = Len(t) /\ l <= n
            BY <1>1, <1>2
        <3> QED
            BY <3>1, <3>2
    <2> QED
        BY Zenon, <1>2, <1>5, <2>1, SingleIs
<1>7. TypeDepth(t) = Scan(s)[<<"type", i, x, y>>].depth
    <2> HIDE DEF t
    <2>0. PICK l \in Nat : l = Len(t) /\ l = j - i
        BY <1>1, <1>2
    <2>1. 1 \in 1 .. l + 1 /\ l + 1 \in 1 .. l + 1 /\ l > 0
          /\ 0 \in 0 .. MaxArrayDepth /\ 0 \in 0 .. MaxStructDepth
        BY <1>0, <1>1, <2>0
    <2>2. TypeBetween(t, 1, l + 1, MaxArrayDepth, MaxStructDepth)
        BY Zenon, <1>2, <1>5, <2>0, WholeIsPart
    <2>3. TypeAt(t, 1).end = l + 1
        BY <1>2, <2>0, <2>1, <2>2, TopType
    <2>4. Scan(t)[<<"type", 1, 0, 0>>].end > 0
        BY <2>3 DEF TypeAt
    <2>5. Alike(s, t, 1 - i, i, j)
        <3> SUFFICES ASSUME NEW k \in i .. j - 1 PROVE At(t, k + (1 - i)) = At(s, k)
            BY DEF Alike
        <3>1. PICK m \in 1 .. l : m = k + (1 - i)
            BY <2>0
        <3>2. i + m - 1 = k /\ k \in 1 .. n
            BY <3>1
        <3>3. t[m] = s[k]
            BY <1>2, <2>0, <3>1, <3>2
        <3>4. At(t, m) = t[m]
            <4>1. m \in Nat /\ m > 0 /\ m <= l
                OBVIOUS
            <4> QED
                BY <1>2, <2>0, <4>1, AtFacts
        <3>5. At(s, k) = s[k]
            <4>1. k \in Nat /\ k > 0 /\ k <= n
                BY <3>2
            <4> QED
                BY <4>1, AtFacts
        <3> QED
            BY Zenon, <3>1, <3>3, <3>4, <3>5
    <2> DEFINE p == <<"type", i, x, y>>
    <2>6. p \in Places(s) /\ <<"type", 1, 0, 0>> \in Places(t) /\ i + (1 - i) = 1 /\ 1 - i \in Int
        <3>1. p \in Places(s)
            BY PlaceFacts
        <3>2. <<"type", 1, 0, 0>> \in Places(t)
            BY <1>2, <2>0, <2>1, PlaceFacts
        <3>3. i + (1 - i) = 1 /\ 1 - i \in Int
            BY <1>1
        <3> QED
            BY <3>1, <3>2, <3>3
    <2>7. ScannedAlike(s, t, 1 - i, p)
        BY Zenon, <1>2, <2>6, ScansAlike
    <2>8. p[1] = "type" /\ p[2] = i /\ Scan(s)[p].end = j /\ j > 0
        BY <1>1
    <2> HIDE DEF p
    <2>9. Scan(t)[<<"type", 1, 0, 0>>] = [end |-> Scan(s)[p].end + (1 - i), depth |-> Scan(s)[p].depth]
        BY Zenon, <2>1, <2>4, <2>5, <2>6, <2>7, <2>8 DEF ScannedAlike
    <2>10. Scan(t)[<<"type", 1, 0, 0>>].depth = Scan(s)[p].depth
        BY <2>9
    <2> QED
        BY Zenon, <2>10 DEF TypeDepth, TypeAt, p
<1> QED
    BY Zenon, <1>2, <1>5, <1>6, <1>7

\* A type inside another, at that depth at least.
Inside(t, s, k) ==
    t \in Seq(Chars) /\ IsSingleCompleteType(t)
        /\ TypeDepth(t) \in Nat /\ TypeDepth(t) + k <= TypeDepth(s)

\* The scan of a text from its first place.
LEMMA SingleScan ==
    ASSUME NEW s \in Seq(Chars), NEW n \in Nat, n = Len(s), IsSingleCompleteType(s)
    PROVE  /\ n > 0 /\ n <= MaxSignatureLength
           /\ Scan(s)[<<"type", 1, 0, 0>>].end = n + 1
           /\ TypeDepth(s) = Scan(s)[<<"type", 1, 0, 0>>].depth
           /\ TypeDepth(s) \in Nat /\ TypeDepth(s) <= MaxArrayDepth + MaxStructDepth
           /\ 0 \in 0 .. MaxArrayDepth /\ 0 \in 0 .. MaxStructDepth /\ 1 \in 1 .. n + 1
<1>0. MaxArrayDepth \in Nat /\ MaxStructDepth \in Nat
    BY SignaturesAssumption
<1>1. n <= MaxSignatureLength /\ IsType(s, MaxArrayDepth, MaxStructDepth) /\ s # <<>>
    BY SingleIs
<1>2. n > 0
    BY <1>1
<1>3. 1 \in 1 .. n + 1 /\ n + 1 \in 1 .. n + 1 /\ 0 \in 0 .. MaxArrayDepth /\ 0 \in 0 .. MaxStructDepth
    BY <1>0
<1>4. TypeBetween(s, 1, n + 1, MaxArrayDepth, MaxStructDepth)
    BY Zenon, <1>1, WholeIsPart
<1>5. Scan(s)[<<"type", 1, 0, 0>>].end = n + 1
    <2>1. TypeAt(s, 1).end = n + 1
        BY <1>3, <1>4, TopType
    <2> QED
        BY <2>1 DEF TypeAt
<1>6. TypeDepth(s) = Scan(s)[<<"type", 1, 0, 0>>].depth
    BY DEF TypeDepth, TypeAt
<1>7. TypeDepth(s) \in Nat
    <2>1. Scan(s)[<<"type", 1, 0, 0>>].depth \in Nat
        BY <1>3, ScanTyped
    <2> QED
        BY Zenon, <1>6, <2>1
<1>8. TypeDepth(s) <= MaxArrayDepth + MaxStructDepth
    <2> DEFINE p == <<"type", 1, 0, 0>>
    <2>1. p \in Places(s) /\ p[1] # "fields" /\ p[3] = 0 /\ p[4] = 0
        BY <1>3, PlaceFacts
    <2>2. Bounded(s, p)
        BY <2>1, DepthBounded
    <2>3. Scan(s)[p].end > 0
        BY <1>5
    <2> HIDE DEF p
    <2>4. Scan(s)[p].depth + 0 + 0 <= MaxArrayDepth + MaxStructDepth + 0
        BY Zenon, <2>1, <2>2, <2>3 DEF Bounded
    <2>5. TypeDepth(s) = Scan(s)[p].depth
        BY <1>6 DEF p
    <2> QED
        BY <1>0, <1>7, <2>4, <2>5
<1> QED
    BY Zenon, <1>1, <1>2, <1>3, <1>5, <1>6, <1>7, <1>8

-----------------------------------------------------------------------------
(* The depth of a type, as the scan reckons it, and the containers that are  *)
(* open in it.  The arrays around a position are found by their types, so    *)
(* what begins a type must end it once: then the containers around each      *)
(* character of a type are those of its parts, and one or two more.          *)

\* From a place on, a type of the grammar has one end, whatever the limits, and so has a
\* list that a brace follows.
EndsOnce(s, i) ==
    \A j, k \in i .. Len(s) + 1, a, b, c, d \in Nat :
        /\ TypeBetween(s, i, j, a, b) /\ TypeBetween(s, i, k, c, d) => j = k
        /\ /\ ListBetween(s, i, j, a, b) /\ ListBetween(s, i, k, c, d)
           /\ j <= Len(s) /\ s[j] = ")" /\ k <= Len(s) /\ s[k] = ")"
           => j = k

\* EndsOnce, for two types or two lists.
LEMMA EndsOnceFrom ==
    ASSUME NEW s, NEW i, EndsOnce(s, i), NEW j \in i .. Len(s) + 1, NEW k \in i .. Len(s) + 1,
           NEW a \in Nat, NEW b \in Nat, NEW c \in Nat, NEW d \in Nat
    PROVE  /\ TypeBetween(s, i, j, a, b) /\ TypeBetween(s, i, k, c, d) => j = k
           /\ /\ ListBetween(s, i, j, a, b) /\ ListBetween(s, i, k, c, d)
              /\ j <= Len(s) /\ s[j] = ")" /\ k <= Len(s) /\ s[k] = ")"
              => j = k
BY DEF EndsOnce

\* The ways a type is written, told apart by its first two characters.
TypeForm(s, i, j, a, b) ==
    \/ j = i + 1 /\ s[i] \in Basic \cup {"v"}
    \/ /\ i + 1 <= j /\ s[i] = "a" /\ s[i + 1] # "{" /\ a - 1 \in Nat
       /\ TypeBetween(s, i + 1, j, a - 1, b)
    \/ /\ i + 3 <= j - 1 /\ s[i] = "a" /\ s[i + 1] = "{" /\ s[j - 1] = "}" /\ s[i + 2] \in Basic
       /\ a - 1 \in Nat /\ b - 1 \in Nat
       /\ TypeBetween(s, i + 3, j - 1, a - 1, b - 1)
    \/ /\ i + 1 <= j - 1 /\ s[i] = "(" /\ s[j - 1] = ")" /\ b - 1 \in Nat
       /\ ListBetween(s, i + 1, j - 1, a, b - 1)

\* A type of the grammar is written in one of them.
LEMMA TypeForms ==
    ASSUME NEW s \in Seq(Chars), NEW i \in 1 .. Len(s) + 1, NEW j \in i .. Len(s) + 1,
           NEW a \in Nat, NEW b \in Nat, TypeBetween(s, i, j, a, b)
    PROVE  TypeForm(s, i, j, a, b)
<1>0. PICK n \in Nat : n = Len(s)
    OBVIOUS
<1>1. CASE j = i + 1 /\ s[i] \in Basic \cup {"v"}
    BY <1>1 DEF TypeForm
<1>2. CASE j > i + 1 /\ s[i] = "a" /\ a > 0 /\ TypeBetween(s, i + 1, j, a - 1, b)
    <2>1. i + 1 <= j /\ a - 1 \in Nat
        BY <1>2
    <2>2. s[i + 1] \in Basic \cup {"v", "a", "("}
        <3>1. i + 1 \in 1 .. Len(s) + 1 /\ j \in i + 1 .. Len(s) + 1
            BY <1>0, <1>2
        <3>2. TypeBetween(s, i + 1, j, a - 1, b)
            BY Zenon, <1>2
        <3> QED
            BY <2>1, <3>1, <3>2, TypeStart
    <2>3. s[i + 1] # "{"
        BY <2>2, CharFacts
    <2> QED
        BY Zenon, <1>2, <2>1, <2>3 DEF TypeForm
<1>3. CASE /\ j > i + 4 /\ s[i] = "a" /\ s[i + 1] = "{" /\ s[j - 1] = "}"
           /\ a > 0 /\ b > 0 /\ s[i + 2] \in Basic
           /\ TypeBetween(s, i + 3, j - 1, a - 1, b - 1)
    <2>1. a > 0 /\ b > 0 /\ j > i + 4
        BY Zenon, <1>3
    <2>2. i + 3 <= j - 1 /\ a - 1 \in Nat /\ b - 1 \in Nat
        BY <2>1
    <2> QED
        BY Zenon, <1>3, <2>2 DEF TypeForm
<1>4. CASE /\ j > i + 2 /\ s[i] = "(" /\ s[j - 1] = ")" /\ b > 0
           /\ ListBetween(s, i + 1, j - 1, a, b - 1)
    <2>1. b > 0 /\ j > i + 2
        BY Zenon, <1>4
    <2>2. i + 1 <= j - 1 /\ b - 1 \in Nat
        BY <2>1
    <2> QED
        BY Zenon, <1>4, <2>2 DEF TypeForm
<1>5. \/ j = i + 1 /\ s[i] \in Basic \cup {"v"}
      \/ j > i + 1 /\ s[i] = "a" /\ a > 0 /\ TypeBetween(s, i + 1, j, a - 1, b)
      \/ /\ j > i + 4 /\ s[i] = "a" /\ s[i + 1] = "{" /\ s[j - 1] = "}"
         /\ a > 0 /\ b > 0 /\ s[i + 2] \in Basic
         /\ TypeBetween(s, i + 3, j - 1, a - 1, b - 1)
      \/ /\ j > i + 2 /\ s[i] = "(" /\ s[j - 1] = ")" /\ b > 0
         /\ ListBetween(s, i + 1, j - 1, a, b - 1)
    BY Zenon, TypeParts
<1> QED
    BY Zenon, <1>1, <1>2, <1>3, <1>4, <1>5

\* Two types from one place are written in one way, and end together.
LEMMA TypeEndsOnce ==
    ASSUME NEW s \in Seq(Chars), NEW i \in 1 .. Len(s) + 1,
           \A m \in i + 1 .. Len(s) + 1 : EndsOnce(s, m),
           NEW j \in i .. Len(s) + 1, NEW k \in i .. Len(s) + 1,
           NEW a \in Nat, NEW b \in Nat, NEW c \in Nat, NEW d \in Nat,
           TypeBetween(s, i, j, a, b), TypeBetween(s, i, k, c, d)
    PROVE  j = k
<1>0. PICK n \in Nat : n = Len(s)
    OBVIOUS
<1>1. i \in Nat /\ j \in Nat /\ k \in Nat /\ j <= n + 1 /\ k <= n + 1 /\ i > 0 /\ i <= n + 1
    BY <1>0
<1>2. TypeForm(s, i, j, a, b) /\ TypeForm(s, i, k, c, d)
    BY TypeForms
<1>3. CASE s[i] \in Basic \cup {"v"}
    <2>1. s[i] \notin {"a", "("}
        BY <1>3, CharFacts
    <2> QED
        BY Zenon, <1>2, <2>1 DEF TypeForm
<1>4. CASE s[i] = "a" /\ s[i + 1] # "{"
    <2>1. s[i] \notin Basic \cup {"v"} /\ s[i] # "("
        BY <1>4, CharFacts
    <2>2. /\ i + 1 <= j /\ a - 1 \in Nat /\ TypeBetween(s, i + 1, j, a - 1, b)
          /\ i + 1 <= k /\ c - 1 \in Nat /\ TypeBetween(s, i + 1, k, c - 1, d)
        BY Zenon, <1>2, <1>4, <2>1 DEF TypeForm
    <2>3. i + 1 \in i + 1 .. n + 1 /\ j \in i + 1 .. n + 1 /\ k \in i + 1 .. n + 1
        BY <1>1, <2>2
    <2>4. EndsOnce(s, i + 1)
        BY <1>0, <2>3
    <2> QED
        BY Zenon, <1>0, <2>2, <2>3, <2>4, EndsOnceFrom
<1>5. CASE s[i] = "a" /\ s[i + 1] = "{"
    <2>1. s[i] \notin Basic \cup {"v"} /\ s[i] # "("
        BY <1>5, CharFacts
    <2>2. /\ i + 3 <= j - 1 /\ a - 1 \in Nat /\ b - 1 \in Nat /\ TypeBetween(s, i + 3, j - 1, a - 1, b - 1)
          /\ i + 3 <= k - 1 /\ c - 1 \in Nat /\ d - 1 \in Nat /\ TypeBetween(s, i + 3, k - 1, c - 1, d - 1)
        BY Zenon, <1>2, <1>5, <2>1 DEF TypeForm
    <2>3. i + 3 \in i + 1 .. n + 1 /\ j - 1 \in i + 3 .. n + 1 /\ k - 1 \in i + 3 .. n + 1
        <3>1. i + 3 <= j - 1 /\ i + 3 <= k - 1
            BY Zenon, <2>2
        <3> QED
            BY <1>1, <3>1
    <2>4. EndsOnce(s, i + 3)
        BY <1>0, <2>3
    <2>5. j - 1 = k - 1
        BY Zenon, <1>0, <2>2, <2>3, <2>4, EndsOnceFrom
    <2> QED
        BY <1>1, <2>5
<1>6. CASE s[i] = "("
    <2>1. s[i] \notin Basic \cup {"v"} /\ s[i] # "a"
        BY <1>6, CharFacts
    <2>2. /\ i + 1 <= j - 1 /\ s[j - 1] = ")" /\ b - 1 \in Nat /\ ListBetween(s, i + 1, j - 1, a, b - 1)
          /\ i + 1 <= k - 1 /\ s[k - 1] = ")" /\ d - 1 \in Nat /\ ListBetween(s, i + 1, k - 1, c, d - 1)
        BY Zenon, <1>2, <1>6, <2>1 DEF TypeForm
    <2>3. /\ i + 1 \in i + 1 .. n + 1 /\ j - 1 \in i + 1 .. n + 1 /\ k - 1 \in i + 1 .. n + 1
          /\ j - 1 <= n /\ k - 1 <= n
        <3>1. i + 1 <= j - 1 /\ i + 1 <= k - 1
            BY Zenon, <2>2
        <3> QED
            BY <1>1, <3>1
    <2>4. EndsOnce(s, i + 1)
        BY <1>0, <2>3
    <2>5. j - 1 = k - 1
        BY Zenon, <1>0, <2>2, <2>3, <2>4, EndsOnceFrom
    <2> QED
        BY <1>1, <2>5
<1> QED
    BY Zenon, <1>2, <1>3, <1>4, <1>5, <1>6 DEF TypeForm

\* Two lists before a brace have the same types, and end together.
LEMMA ListEndsOnce ==
    ASSUME NEW s \in Seq(Chars), NEW i \in 1 .. Len(s) + 1,
           \A m \in i + 1 .. Len(s) + 1 : EndsOnce(s, m),
           NEW j \in i .. Len(s) + 1, NEW k \in i .. Len(s) + 1,
           NEW a \in Nat, NEW b \in Nat, NEW c \in Nat, NEW d \in Nat,
           ListBetween(s, i, j, a, b), ListBetween(s, i, k, c, d),
           j <= Len(s), s[j] = ")", k <= Len(s), s[k] = ")"
    PROVE  j = k
<1>0. PICK n \in Nat : n = Len(s)
    OBVIOUS
<1>1. \A e, f \in Nat : \A m \in i .. Len(s) + 1 : TypeBetween(s, i, m, e, f) => s[i] # ")"
    <2> SUFFICES ASSUME NEW e \in Nat, NEW f \in Nat, NEW m \in i .. Len(s) + 1, TypeBetween(s, i, m, e, f)
                 PROVE  s[i] # ")"
        OBVIOUS
    <2>1. s[i] \in Basic \cup {"v", "a", "("}
        BY TypeStart
    <2> QED
        BY <2>1, CharFacts
<1>2. i = j \/ \E m \in i + 1 .. j : TypeBetween(s, i, m, a, b) /\ ListBetween(s, m, j, a, b)
    BY ListParts
<1>3. i = k \/ \E m \in i + 1 .. k : TypeBetween(s, i, m, c, d) /\ ListBetween(s, m, k, c, d)
    BY ListParts
<1>4. \A m \in i + 1 .. j : m \in i .. Len(s) + 1 /\ j \in m .. Len(s) + 1 /\ m \in i + 1 .. Len(s) + 1
    BY <1>0
<1>5. \A m \in i + 1 .. k : m \in i .. Len(s) + 1 /\ k \in m .. Len(s) + 1
    BY <1>0
<1>6. CASE i = j \/ i = k
    <2>1. s[i] = ")"
        BY <1>6
    <2>2. ~(\E m \in i + 1 .. j : TypeBetween(s, i, m, a, b)) /\ ~(\E m \in i + 1 .. k : TypeBetween(s, i, m, c, d))
        BY Zenon, <1>1, <1>4, <1>5, <2>1
    <2> QED
        BY <1>2, <1>3, <2>2
<1>7. CASE i # j /\ i # k
    <2>1. PICK m \in i + 1 .. j : TypeBetween(s, i, m, a, b) /\ ListBetween(s, m, j, a, b)
        BY <1>2, <1>7
    <2>2. PICK l \in i + 1 .. k : TypeBetween(s, i, l, c, d) /\ ListBetween(s, l, k, c, d)
        BY <1>3, <1>7
    <2>3. m = l
        BY <1>4, <1>5, <2>1, <2>2, TypeEndsOnce
    <2>4. EndsOnce(s, m) /\ j \in m .. Len(s) + 1 /\ k \in m .. Len(s) + 1 /\ ListBetween(s, m, k, c, d)
        BY <1>4, <1>5, <2>2, <2>3
    <2> QED
        BY Zenon, <2>1, <2>4, EndsOnceFrom
<1> QED
    BY <1>6, <1>7

\* A complete type is never the beginning of another.
LEMMA TypesEndOnce ==
    ASSUME NEW s \in Seq(Chars)
    PROVE  \A i \in 1 .. Len(s) + 1 : EndsOnce(s, i)
<1> DEFINE n == Len(s)
           rank == [i \in 1 .. n + 1 |-> n + 1 - i]
           Q == {i \in 1 .. n + 1 : EndsOnce(s, i)}
<1>0. n \in Nat
    OBVIOUS
<1>1. rank \in [1 .. n + 1 -> Nat]
    BY <1>0
<1>2. ASSUME NEW i \in 1 .. n + 1, \A k \in 1 .. n + 1 : rank[k] < rank[i] => k \in Q
      PROVE  i \in Q
    <2>1. \A k \in i + 1 .. n + 1 : k \in 1 .. n + 1 /\ rank[k] < rank[i]
        BY <1>0
    <2>2. \A k \in i + 1 .. n + 1 : EndsOnce(s, k)
        BY <1>2, <2>1
    <2>3. \A m \in i + 1 .. Len(s) + 1 : EndsOnce(s, m)
        BY Zenon, <2>2
    <2>4. EndsOnce(s, i)
        <3> SUFFICES ASSUME NEW j \in i .. Len(s) + 1, NEW k \in i .. Len(s) + 1,
                            NEW a \in Nat, NEW b \in Nat, NEW c \in Nat, NEW d \in Nat
                     PROVE  /\ TypeBetween(s, i, j, a, b) /\ TypeBetween(s, i, k, c, d) => j = k
                            /\ /\ ListBetween(s, i, j, a, b) /\ ListBetween(s, i, k, c, d)
                               /\ j <= Len(s) /\ s[j] = ")" /\ k <= Len(s) /\ s[k] = ")"
                               => j = k
            BY Zenon DEF EndsOnce
        <3>1. i \in 1 .. Len(s) + 1
            OBVIOUS
        <3>2. TypeBetween(s, i, j, a, b) /\ TypeBetween(s, i, k, c, d) => j = k
            BY Zenon, <2>3, <3>1, TypeEndsOnce
        <3>3. /\ ListBetween(s, i, j, a, b) /\ ListBetween(s, i, k, c, d)
              /\ j <= Len(s) /\ s[j] = ")" /\ k <= Len(s) /\ s[k] = ")"
              => j = k
            BY Zenon, <2>3, <3>1, ListEndsOnce
        <3> QED
            BY Zenon, <3>2, <3>3
    <2> QED
        BY <2>4
<1>3. Q \subseteq 1 .. n + 1
    OBVIOUS
<1> HIDE DEF rank, Q
<1>4. IsInductive(1 .. n + 1, rank, Q)
    BY <1>1, <1>2, <1>3 DEF IsInductive
<1>5. Q = 1 .. n + 1
    BY <1>4, RankInduction
<1> QED
    BY <1>5 DEF Q

\* Nothing taken away.
LEMMA NothingTaken == \A a, b \in Nat : a + b - 0 = a + b
OBVIOUS

\* The positions in T between i and n are counted before m and from m on.
Apart(T, i, m, n) ==
    /\ Cardinality((i .. n) \cap T) \in Nat
    /\ Cardinality((i .. m - 1) \cap T) \in Nat /\ Cardinality((m .. n) \cap T) \in Nat
    /\ Cardinality((i .. n) \cap T)
         = Cardinality((i .. m - 1) \cap T) + Cardinality((m .. n) \cap T)

\* Between i and n, the positions in T are those before m and those from m on.
LEMMA CountedApart ==
    ASSUME NEW T, NEW i \in Int, NEW m \in Int, NEW n \in Int, i <= m, m <= n + 1
    PROVE  Apart(T, i, m, n)
<1> DEFINE A == (i .. m - 1) \cap T
           B == (m .. n) \cap T
<1>1. IsFiniteSet(A) /\ IsFiniteSet(B)
    <2>1. IsFiniteSet(i .. m - 1) /\ IsFiniteSet(m .. n)
        BY FS_Interval
    <2> QED
        BY Zenon, <2>1, FS_Intersection
<1>2. A \cup B = (i .. n) \cap T /\ A \cap B = {}
    OBVIOUS
<1> HIDE DEF A, B
<1>3. IsFiniteSet(A \cup B) /\ Cardinality(A \cup B) = Cardinality(A) + Cardinality(B) - Cardinality(A \cap B)
    BY Zenon, <1>1, FS_Union
<1>4. Cardinality(A) \in Nat /\ Cardinality(B) \in Nat /\ Cardinality(A \cup B) \in Nat
    BY Zenon, <1>1, <1>3, FS_CardinalityType
<1>5. Cardinality({}) = 0
    BY FS_EmptySet
<1>6. Cardinality((i .. n) \cap T) = Cardinality(A) + Cardinality(B)
    <2>1. Cardinality((i .. n) \cap T) = Cardinality(A) + Cardinality(B) - 0
        BY Zenon, <1>2, <1>3, <1>5
    <2> QED
        BY Zenon, <1>4, <2>1, NothingTaken
<1> QED
    BY Zenon, <1>2, <1>4, <1>6 DEF A, B, Apart

\* A position is in T or it is not.
LEMMA CountedAlone ==
    ASSUME NEW T, NEW i \in Int
    PROVE  Cardinality((i .. i) \cap T) = IF i \in T THEN 1 ELSE 0
<1>1. i .. i = {i}
    OBVIOUS
<1>2. Cardinality({i}) = 1 /\ Cardinality({}) = 0
    BY FS_Singleton, FS_EmptySet
<1>3. CASE i \in T
    <2>1. (i .. i) \cap T = {i}
        BY <1>1, <1>3
    <2> QED
        BY Zenon, <1>2, <1>3, <2>1
<1>4. CASE i \notin T
    <2>1. (i .. i) \cap T = {}
        BY <1>1, <1>4
    <2> QED
        BY Zenon, <1>2, <1>4, <2>1
<1> QED
    BY Zenon, <1>3, <1>4

\* The structs and dict entries that open, and that close, between two positions.
Opening(s, i, n) == {k \in i .. n : s[k] \in {"(", "{"}}
Closing(s, i, n) == {k \in i .. n : s[k] \in {")", "}"}}
OpenIn(s, i, n) == Cardinality(Opening(s, i, n)) - Cardinality(Closing(s, i, n))

\* What one character opens.
OpenedBy(c) == IF c \in {"(", "{"} THEN 1 ELSE IF c \in {")", "}"} THEN -1 ELSE 0

\* What is open between two positions adds up.
LEMMA OpenApart ==
    ASSUME NEW s, NEW i \in Int, NEW m \in Int, NEW n \in Int, i <= m, m <= n + 1
    PROVE  /\ OpenIn(s, i, n) \in Int /\ OpenIn(s, i, m - 1) \in Int /\ OpenIn(s, m, n) \in Int
           /\ OpenIn(s, i, n) = OpenIn(s, i, m - 1) + OpenIn(s, m, n)
<1> DEFINE P == {k \in Int : s[k] \in {"(", "{"}}
           Q == {k \in Int : s[k] \in {")", "}"}}
<1>1. \A a, b \in Int : Opening(s, a, b) = (a .. b) \cap P /\ Closing(s, a, b) = (a .. b) \cap Q
    <2> SUFFICES ASSUME NEW a \in Int, NEW b \in Int
                 PROVE  Opening(s, a, b) = (a .. b) \cap P /\ Closing(s, a, b) = (a .. b) \cap Q
        BY Zenon
    <2>1. \A k \in a .. b : k \in Int
        OBVIOUS
    <2> QED
        BY Zenon, <2>1 DEF Opening, Closing
<1>2. m - 1 \in Int
    OBVIOUS
<1> HIDE DEF P, Q
<1> DEFINE p == Cardinality((i .. n) \cap P)
           p1 == Cardinality((i .. m - 1) \cap P)
           p2 == Cardinality((m .. n) \cap P)
           q == Cardinality((i .. n) \cap Q)
           q1 == Cardinality((i .. m - 1) \cap Q)
           q2 == Cardinality((m .. n) \cap Q)
<1>3. /\ p \in Nat /\ p1 \in Nat /\ p2 \in Nat /\ p = p1 + p2
      /\ q \in Nat /\ q1 \in Nat /\ q2 \in Nat /\ q = q1 + q2
    <2>1. p \in Nat /\ p1 \in Nat /\ p2 \in Nat /\ p = p1 + p2
        <3>1. Apart(P, i, m, n)
            BY Zenon, CountedApart
        <3> QED
            BY Zenon, <3>1 DEF Apart
    <2>2. q \in Nat /\ q1 \in Nat /\ q2 \in Nat /\ q = q1 + q2
        <3>1. Apart(Q, i, m, n)
            BY Zenon, CountedApart
        <3> QED
            BY Zenon, <3>1 DEF Apart
    <2> QED
        BY Zenon, <2>1, <2>2
<1>4. OpenIn(s, i, n) = p - q /\ OpenIn(s, i, m - 1) = p1 - q1 /\ OpenIn(s, m, n) = p2 - q2
    BY Zenon, <1>1, <1>2 DEF OpenIn
<1> HIDE DEF p, p1, p2, q, q1, q2
<1> QED
    BY <1>3, <1>4

\* What one character opens, at its position.
LEMMA OpenAlone ==
    ASSUME NEW s, NEW i \in Int
    PROVE  OpenIn(s, i, i) = OpenedBy(s[i])
<1> DEFINE P == {k \in Int : s[k] \in {"(", "{"}}
           Q == {k \in Int : s[k] \in {")", "}"}}
<1>1. Opening(s, i, i) = (i .. i) \cap P /\ Closing(s, i, i) = (i .. i) \cap Q
    <2>1. \A k \in i .. i : k \in Int
        OBVIOUS
    <2> QED
        BY Zenon, <2>1 DEF Opening, Closing
<1>2. (i \in P <=> s[i] \in {"(", "{"}) /\ (i \in Q <=> s[i] \in {")", "}"})
    OBVIOUS
<1>3. s[i] \in {"(", "{"} => s[i] \notin {")", "}"}
    OBVIOUS
<1> HIDE DEF P, Q
<1>4. /\ Cardinality((i .. i) \cap P) = IF i \in P THEN 1 ELSE 0
      /\ Cardinality((i .. i) \cap Q) = IF i \in Q THEN 1 ELSE 0
    BY CountedAlone
<1>5. OpenIn(s, i, i) = (IF i \in P THEN 1 ELSE 0) - (IF i \in Q THEN 1 ELSE 0)
    BY Zenon, <1>1, <1>4 DEF OpenIn
<1>6. CASE i \in P
    <2>1. OpenIn(s, i, i) = 1 - 0
        BY Zenon, <1>2, <1>3, <1>5, <1>6
    <2>2. OpenedBy(s[i]) = 1
        BY Zenon, <1>2, <1>6 DEF OpenedBy
    <2> QED
        BY <2>1, <2>2
<1>7. CASE i \notin P /\ i \in Q
    <2>1. OpenIn(s, i, i) = 0 - 1
        BY Zenon, <1>5, <1>7
    <2>2. OpenedBy(s[i]) = -1
        BY Zenon, <1>2, <1>7 DEF OpenedBy
    <2> QED
        BY <2>1, <2>2
<1>8. CASE i \notin P /\ i \notin Q
    <2>1. OpenIn(s, i, i) = 0 - 0
        BY Zenon, <1>5, <1>8
    <2>2. OpenedBy(s[i]) = 0
        BY Zenon, <1>2, <1>8 DEF OpenedBy
    <2> QED
        BY <2>1, <2>2
<1> QED
    BY Zenon, <1>6, <1>7, <1>8

\* The array at k is around the position n: its type covers it.
Covers(s, k, n) == s[k] = "a" /\ \E m \in n .. Len(s) : TypeBetween(s, k, m + 1, Len(s), Len(s))

\* The arrays around n that begin at i or later, before m.
Before(s, i, m, n) == {k \in i .. m - 1 : Covers(s, k, n)}

\* The containers open at n that begin at i or later.
HeightIn(s, i, n) == OpenIn(s, i, n) + Cardinality(Before(s, i, n, n))

\* They are those that begin before m, and those that begin at m or later.
LEMMA HeightApart ==
    ASSUME NEW s, NEW i \in Int, NEW m \in Int, NEW n \in Int, i <= m, m <= n
    PROVE  /\ HeightIn(s, i, n) \in Int /\ HeightIn(s, m, n) \in Int
           /\ OpenIn(s, i, m - 1) \in Int /\ Cardinality(Before(s, i, m, n)) \in Nat
           /\ HeightIn(s, i, n)
                = OpenIn(s, i, m - 1) + Cardinality(Before(s, i, m, n)) + HeightIn(s, m, n)
<1> DEFINE T == {k \in Int : Covers(s, k, n)}
<1>1. \A a, b \in Int : Before(s, a, b, n) = (a .. b - 1) \cap T
    BY DEF Before
<1> HIDE DEF T
<1> DEFINE p == Cardinality((i .. n - 1) \cap T)
           p1 == Cardinality((i .. m - 1) \cap T)
           p2 == Cardinality((m .. n - 1) \cap T)
<1>2. p \in Nat /\ p1 \in Nat /\ p2 \in Nat /\ p = p1 + p2
    <2> DEFINE l == n - 1
    <2>1. l \in Int /\ m <= l + 1
        OBVIOUS
    <2> HIDE DEF l
    <2>2. Apart(T, i, m, l)
        BY Zenon, <2>1, CountedApart
    <2> QED
        BY Zenon, <2>2 DEF l, Apart
<1> DEFINE o == OpenIn(s, i, n)
           o1 == OpenIn(s, i, m - 1)
           o2 == OpenIn(s, m, n)
<1>3. o \in Int /\ o1 \in Int /\ o2 \in Int /\ o = o1 + o2
    BY OpenApart
<1>4. HeightIn(s, i, n) = o + p /\ HeightIn(s, m, n) = o2 + p2 /\ Cardinality(Before(s, i, m, n)) = p1
    BY Zenon, <1>1 DEF HeightIn
<1> HIDE DEF p, p1, p2, o, o1, o2
<1>5. HeightIn(s, i, n) = o1 + p1 + HeightIn(s, m, n) /\ HeightIn(s, i, n) \in Int /\ HeightIn(s, m, n) \in Int
    BY <1>2, <1>3, <1>4
<1> QED
    BY Zenon, <1>2, <1>3, <1>4, <1>5 DEF o1

\* At its own position, a character is only inside what it opens.
LEMMA HeightAlone ==
    ASSUME NEW s, NEW i \in Int
    PROVE  HeightIn(s, i, i) = OpenedBy(s[i])
<1>1. Before(s, i, i, i) = {}
    BY DEF Before
<1>2. Cardinality({}) = 0
    BY FS_EmptySet
<1>3. HeightIn(s, i, i) = OpenedBy(s[i]) + 0
    BY Zenon, <1>1, <1>2, OpenAlone DEF HeightIn
<1>4. OpenedBy(s[i]) \in Int
    BY DEF OpenedBy
<1> QED
    BY <1>3, <1>4

\* One array is around n, of those that begin before m.
LEMMA OneBefore ==
    ASSUME NEW s, NEW i \in Int, NEW m \in Int, NEW n \in Int, i < m, Covers(s, i, n),
           \A k \in i + 1 .. m - 1 : s[k] # "a"
    PROVE  Cardinality(Before(s, i, m, n)) = 1
<1>1. Before(s, i, m, n) = {i}
    <2>1. \A k \in i .. m - 1 : k = i \/ k \in i + 1 .. m - 1
        OBVIOUS
    <2>2. \A k \in i .. m - 1 : Covers(s, k, n) => k = i
        BY Zenon, <2>1 DEF Covers
    <2>3. i \in i .. m - 1
        OBVIOUS
    <2> QED
        BY <2>2, <2>3 DEF Before
<1> QED
    BY <1>1, FS_Singleton

\* The arrays that begin between i and m end at j at the latest.
EndedBy(s, i, m, j) ==
    \A k \in i .. m - 1 : s[k] = "a" => \E e \in k + 1 .. j : TypeBetween(s, k, e, Len(s), Len(s))

\* Behind their ends, they are around nothing.
LEMMA NothingBefore ==
    ASSUME NEW s \in Seq(Chars), NEW i \in 1 .. Len(s) + 1, NEW m \in i .. Len(s) + 1, EndedBy(s, i, m, m),
           NEW n \in m .. Len(s)
    PROVE  Cardinality(Before(s, i, m, n)) = 0
<1>0. PICK l \in Nat : l = Len(s)
    OBVIOUS
<1>1. ASSUME NEW k \in i .. m - 1, Covers(s, k, n)
      PROVE  FALSE
    <2>1. PICK q \in n .. l : TypeBetween(s, k, q + 1, l, l)
        BY Zenon, <1>0, <1>1 DEF Covers
    <2>2. PICK e \in k + 1 .. m : TypeBetween(s, k, e, l, l)
        BY Zenon, <1>0, <1>1 DEF EndedBy, Covers
    <2>3. k \in 1 .. l + 1 /\ q + 1 \in k .. l + 1 /\ e \in k .. l + 1 /\ q + 1 # e
        BY <1>0
    <2>4. EndsOnce(s, k)
        BY Zenon, <1>0, <2>3, TypesEndOnce
    <2>5. q + 1 = e
        BY Zenon, <1>0, <2>1, <2>2, <2>3, <2>4, EndsOnceFrom
    <2> QED
        BY Zenon, <2>3, <2>5
<1>2. Before(s, i, m, n) = {}
    BY <1>1 DEF Before
<1> QED
    BY <1>2, FS_EmptySet

\* An array is around what its type covers.
LEMMA CoversItself ==
    ASSUME NEW s \in Seq(Chars), NEW i \in 1 .. Len(s) + 1, NEW j \in i + 1 .. Len(s) + 1,
           s[i] = "a", TypeBetween(s, i, j, Len(s), Len(s))
    PROVE  \A n \in i .. j - 1 : Covers(s, i, n)
<1>0. PICK l \in Nat : l = Len(s)
    OBVIOUS
<1> SUFFICES ASSUME NEW n \in i .. j - 1 PROVE Covers(s, i, n)
    OBVIOUS
<1>1. j - 1 \in n .. l /\ (j - 1) + 1 = j
    BY <1>0
<1> QED
    BY Zenon, <1>0, <1>1 DEF Covers

\* Arrays that end before m, and then before j.
LEMMA EndedOn ==
    ASSUME NEW s, NEW i \in Int, NEW m \in Int, NEW e \in Int, NEW j \in Int, i <= m, m <= j, e <= j,
           EndedBy(s, i, m, e), EndedBy(s, m, j, j)
    PROVE  EndedBy(s, i, j, j)
<1> SUFFICES ASSUME NEW k \in i .. j - 1, s[k] = "a"
             PROVE  \E f \in k + 1 .. j : TypeBetween(s, k, f, Len(s), Len(s))
    BY Zenon DEF EndedBy
<1>1. CASE k \in i .. m - 1
    <2>1. PICK f \in k + 1 .. e : TypeBetween(s, k, f, Len(s), Len(s))
        BY Zenon, <1>1 DEF EndedBy
    <2>2. f \in k + 1 .. j
        OBVIOUS
    <2> QED
        BY Zenon, <2>1, <2>2
<1>2. CASE k \in m .. j - 1
    BY Zenon, <1>2 DEF EndedBy
<1> QED
    BY <1>1, <1>2

\* A type from i to j nests d containers: as many are open at its innermost character,
\* and never more.  Its arrays end in it, and it closes what it opens.
TypeNests(s, i, j, d) ==
    /\ TypeBetween(s, i, j, j - i, j - i)
    /\ OpenIn(s, i, j - 1) = 0
    /\ EndedBy(s, i, j, j)
    /\ \A n \in i .. j - 1 : HeightIn(s, i, n) <= d
    /\ \E n \in i .. j - 1 : HeightIn(s, i, n) = d

\* The same of the fields of a struct from i on, and its brace, with the struct around them.
FieldsNest(s, i, j, d) ==
    /\ ListBetween(s, i, j - 1, j - i, j - i)
    /\ s[j - 1] = ")"
    /\ OpenIn(s, i, j - 1) = -1
    /\ EndedBy(s, i, j, j)
    /\ d >= 1 /\ \A n \in i .. j - 1 : HeightIn(s, i, n) + 1 <= d
    /\ d = 1 \/ \E n \in i .. j - 1 : HeightIn(s, i, n) + 1 = d

\* A basic type is inside nothing of its own.
LEMMA BasicNests ==
    ASSUME NEW s \in Seq(Chars), NEW i \in 1 .. Len(s), s[i] \in Basic \cup {"v"}
    PROVE  TypeNests(s, i, i + 1, 0)
<1>1. PICK j \in Int : j = i + 1 /\ j - 1 = i /\ j - i = 1 /\ i \in 1 .. Len(s) + 1 /\ j \in i .. Len(s) + 1
    OBVIOUS
<1>2. TypeBetween(s, i, j, 1, 1)
    BY <1>1, TypeParts
<1>3. s[i] \notin {"(", "{"} /\ s[i] \notin {")", "}"} /\ s[i] # "a"
    BY CharFacts
<1>4. OpenIn(s, i, i) = 0 /\ HeightIn(s, i, i) = 0
    <2>1. i \in Int
        OBVIOUS
    <2> QED
        BY Zenon, <1>3, <2>1, OpenAlone, HeightAlone DEF OpenedBy
<1>5. EndedBy(s, i, j, j)
    <2>1. \A k \in i .. j - 1 : k = i
        BY <1>1
    <2> QED
        BY Zenon, <1>3, <2>1 DEF EndedBy
<1>6. \A n \in i .. j - 1 : HeightIn(s, i, n) = 0
    <2>1. \A n \in i .. j - 1 : n = i
        BY <1>1
    <2> QED
        BY Zenon, <1>4, <2>1
<1>7. i \in i .. j - 1 /\ 0 <= 0
    BY <1>1
<1> QED
    BY Zenon, <1>1, <1>2, <1>4, <1>5, <1>6, <1>7 DEF TypeNests

\* Nor is the brace that ends a struct.
LEMMA EndNests ==
    ASSUME NEW s \in Seq(Chars), NEW i \in 1 .. Len(s), s[i] = ")"
    PROVE  FieldsNest(s, i, i + 1, 1)
<1>1. PICK j \in Int : j = i + 1 /\ j - 1 = i /\ j - i = 1 /\ i \in 1 .. Len(s) + 1 /\ i \in i .. Len(s) + 1
    OBVIOUS
<1>2. ListBetween(s, i, i, 1, 1)
    BY <1>1, ListParts
<1>3. s[i] \notin {"(", "{"} /\ s[i] \in {")", "}"} /\ s[i] # "a"
    OBVIOUS
<1>4. OpenIn(s, i, i) = -1 /\ HeightIn(s, i, i) = -1
    <2>1. i \in Int
        OBVIOUS
    <2> QED
        BY Zenon, <1>3, <2>1, OpenAlone, HeightAlone DEF OpenedBy
<1>5. EndedBy(s, i, j, j)
    <2>1. \A k \in i .. j - 1 : k = i
        BY <1>1
    <2> QED
        BY Zenon, <1>3, <2>1 DEF EndedBy
<1>6. \A n \in i .. j - 1 : HeightIn(s, i, n) = -1
    <2>1. \A n \in i .. j - 1 : n = i
        BY <1>1
    <2> QED
        BY Zenon, <1>4, <2>1
<1>7. -1 + 1 <= 1 /\ 1 >= 1
    OBVIOUS
<1> QED
    BY Zenon, <1>1, <1>2, <1>4, <1>5, <1>6, <1>7 DEF FieldsNest

\* The type of an array is around its element.
LEMMA ArrayNests ==
    ASSUME NEW s \in Seq(Chars), NEW i \in 1 .. Len(s), NEW j \in i + 2 .. Len(s) + 1, NEW d \in Nat,
           s[i] = "a", TypeNests(s, i + 1, j, d)
    PROVE  TypeNests(s, i, j, d + 1)
<1>0. PICK l \in Nat : l = Len(s)
    OBVIOUS
<1>1. PICK m \in Int : m = i + 1 /\ m - 1 = i /\ m > i
    OBVIOUS
<1> DEFINE w == j - i
<1>2. w \in Nat /\ w - 1 = j - m /\ w > 0 /\ w - 1 <= w /\ w <= l /\ w - 1 \in Nat /\ j > i + 1
    BY <1>0, <1>1
<1> HIDE DEF w
<1>3. i \in 1 .. l + 1 /\ m \in 1 .. l + 1 /\ j \in i .. l + 1 /\ j \in m .. l + 1 /\ j \in i + 1 .. l + 1
    BY <1>0, <1>1
<1>4. TypeNests(s, m, j, d)
    BY Zenon, <1>1
<1>5. TypeBetween(s, i, j, w, w)
    <2>1. TypeBetween(s, m, j, w - 1, w - 1)
        BY Zenon, <1>2, <1>4 DEF TypeNests
    <2>2. GrowsAt(s, m)
        BY Zenon, <1>0, <1>3, GrammarGrows
    <2>3. w - 1 <= w - 1
        BY <1>2
    <2>4. TypeBetween(s, m, j, w - 1, w)
        BY Zenon, <1>0, <1>2, <1>3, <2>1, <2>2, <2>3, GrowsFrom
    <2> QED
        BY Zenon, <1>0, <1>1, <1>2, <1>3, <2>4, TypeParts
<1>6. TypeBetween(s, i, j, l, l)
    <2>1. GrowsAt(s, i)
        BY Zenon, <1>0, <1>3, GrammarGrows
    <2> QED
        BY Zenon, <1>0, <1>2, <1>3, <1>5, <2>1, GrowsFrom
<1>7. OpenIn(s, i, i) = 0 /\ HeightIn(s, i, i) = 0
    <2>1. s[i] \notin {"(", "{"} /\ s[i] \notin {")", "}"} /\ i \in Int
        OBVIOUS
    <2> QED
        BY Zenon, <2>1, OpenAlone, HeightAlone DEF OpenedBy
<1>8. OpenIn(s, i, j - 1) = 0
    <2>1. i <= m /\ m <= (j - 1) + 1 /\ j - 1 \in Int
        BY <1>1, <1>2
    <2>2. OpenIn(s, i, j - 1) = OpenIn(s, i, m - 1) + OpenIn(s, m, j - 1)
        BY <2>1, OpenApart
    <2>3. OpenIn(s, m, j - 1) = 0
        BY Zenon, <1>4 DEF TypeNests
    <2> QED
        BY <1>1, <1>7, <2>2, <2>3
<1>9. EndedBy(s, i, j, j)
    <2>1. EndedBy(s, i, m, j)
        <3>1. \A k \in i .. m - 1 : k = i
            BY <1>1
        <3>2. j \in i + 1 .. j
            BY <1>2
        <3> QED
            BY Zenon, <1>0, <1>6, <3>1, <3>2 DEF EndedBy
    <2>2. EndedBy(s, m, j, j)
        BY Zenon, <1>4 DEF TypeNests
    <2>3. i \in Int /\ j \in Int /\ i <= m /\ m <= j /\ j <= j
        BY <1>1, <1>2
    <2> QED
        BY Zenon, <2>1, <2>2, <2>3, EndedOn
<1>10. ASSUME NEW n \in m .. j - 1
       PROVE  HeightIn(s, i, n) = HeightIn(s, m, n) + 1 /\ HeightIn(s, m, n) \in Int
    <2>1. i <= m /\ m <= n /\ i < m /\ n \in i .. j - 1
        BY <1>1
    <2>2. Covers(s, i, n)
        BY Zenon, <1>0, <1>3, <1>6, <2>1, CoversItself
    <2>3. \A k \in i + 1 .. m - 1 : s[k] # "a"
        BY <1>1
    <2>4. Cardinality(Before(s, i, m, n)) = 1
        BY <2>1, <2>2, <2>3, OneBefore
    <2>5. /\ HeightIn(s, i, n) = OpenIn(s, i, m - 1) + Cardinality(Before(s, i, m, n)) + HeightIn(s, m, n)
          /\ HeightIn(s, m, n) \in Int
        BY <2>1, HeightApart
    <2> QED
        BY <1>1, <1>7, <2>4, <2>5
<1>11. \A n \in i .. j - 1 : HeightIn(s, i, n) <= d + 1
    <2> SUFFICES ASSUME NEW n \in i .. j - 1 PROVE HeightIn(s, i, n) <= d + 1
        OBVIOUS
    <2>1. CASE n = i
        BY <1>7, <2>1
    <2>2. CASE n \in m .. j - 1
        <3>1. HeightIn(s, m, n) <= d
            BY Zenon, <1>4, <2>2 DEF TypeNests
        <3> QED
            BY <1>10, <2>2, <3>1
    <2> QED
        BY <1>1, <2>1, <2>2
<1>12. \E n \in i .. j - 1 : HeightIn(s, i, n) = d + 1
    <2>1. PICK n \in m .. j - 1 : HeightIn(s, m, n) = d
        BY Zenon, <1>4 DEF TypeNests
    <2>2. n \in i .. j - 1
        BY <1>1
    <2> QED
        BY Zenon, <1>10, <2>1, <2>2
<1> QED
    BY Zenon, <1>5, <1>8, <1>9, <1>11, <1>12 DEF TypeNests, w

\* A struct is around its fields.
LEMMA StructNests ==
    ASSUME NEW s \in Seq(Chars), NEW i \in 1 .. Len(s), NEW j \in i + 2 .. Len(s) + 1, NEW d \in Nat,
           s[i] = "(", s[i + 1] # ")", FieldsNest(s, i + 1, j, d)
    PROVE  TypeNests(s, i, j, d)
<1>0. PICK l \in Nat : l = Len(s)
    OBVIOUS
<1>1. PICK m \in Int : m = i + 1 /\ m - 1 = i /\ m > i
    OBVIOUS
<1>4. FieldsNest(s, m, j, d) /\ s[m] # ")"
    BY Zenon, <1>1
<1> DEFINE w == j - i
           e == j - 1
<1>2. j # i + 2
    <2>1. s[j - 1] = ")"
        BY Zenon, <1>4 DEF FieldsNest
    <2>2. j = i + 2 => j - 1 = m
        BY <1>1
    <2> QED
        BY Zenon, <1>4, <2>1, <2>2
<1>3. /\ w \in Nat /\ w - 1 = j - m /\ w > 0 /\ w - 1 <= w /\ w - 1 <= w - 1 /\ w <= l /\ w - 1 \in Nat
      /\ j > i + 2 /\ e \in Int /\ m <= e + 1
    BY <1>0, <1>1, <1>2
<1>5. i \in 1 .. l + 1 /\ m \in 1 .. l + 1 /\ j \in i .. l + 1 /\ e \in m .. l + 1 /\ i \in Int /\ j \in Int
    BY <1>0, <1>1, <1>2
<1>6. TypeBetween(s, i, j, w, w)
    <2>1. ListBetween(s, m, e, w - 1, w - 1) /\ s[e] = ")"
        BY Zenon, <1>3, <1>4 DEF FieldsNest
    <2>2. GrowsAt(s, m)
        BY Zenon, <1>0, <1>5, GrammarGrows
    <2>3. ListBetween(s, m, e, w, w - 1)
        BY Zenon, <1>0, <1>3, <1>5, <2>1, <2>2, GrowsFrom
    <2> HIDE DEF w
    <2>4. /\ j > i + 2 /\ s[i] = "(" /\ s[j - 1] = ")" /\ w > 0
          /\ ListBetween(s, i + 1, j - 1, w, w - 1)
        BY Zenon, <1>1, <1>3, <2>1, <2>3
    <2> QED
        BY <1>0, <1>3, <1>5, <2>4, TypeParts
<1> HIDE DEF w
<1>7. s[i] \in {"(", "{"} /\ s[i] # "a"
    OBVIOUS
<1>8. OpenIn(s, i, i) = 1 /\ HeightIn(s, i, i) = 1
    BY Zenon, <1>5, <1>7, OpenAlone, HeightAlone DEF OpenedBy
<1>9. OpenIn(s, i, j - 1) = 0
    <2>1. i <= m
        BY <1>1
    <2>2. OpenIn(s, i, e) = OpenIn(s, i, m - 1) + OpenIn(s, m, e)
        BY <1>3, <2>1, OpenApart
    <2>3. OpenIn(s, m, e) = -1
        BY Zenon, <1>4 DEF FieldsNest
    <2> QED
        BY <1>1, <1>8, <2>2, <2>3
<1>10. EndedBy(s, i, m, m)
    <2>1. \A k \in i .. m - 1 : k = i
        BY <1>1
    <2> QED
        BY Zenon, <1>7, <2>1 DEF EndedBy
<1>11. EndedBy(s, i, j, j)
    <2>1. EndedBy(s, m, j, j)
        BY Zenon, <1>4 DEF FieldsNest
    <2>2. i <= m /\ m <= j
        BY <1>1, <1>3
    <2> QED
        BY Zenon, <1>5, <1>10, <2>1, <2>2, EndedOn
<1>12. ASSUME NEW n \in m .. j - 1
       PROVE  HeightIn(s, i, n) = HeightIn(s, m, n) + 1 /\ HeightIn(s, m, n) \in Int
    <2>1. i <= m /\ m <= n /\ n \in m .. l /\ m \in i .. l + 1
        BY <1>0, <1>1, <1>5
    <2>2. Cardinality(Before(s, i, m, n)) = 0
        BY Zenon, <1>0, <1>5, <1>10, <2>1, NothingBefore
    <2>3. /\ HeightIn(s, i, n) = OpenIn(s, i, m - 1) + Cardinality(Before(s, i, m, n)) + HeightIn(s, m, n)
          /\ HeightIn(s, m, n) \in Int
        BY <2>1, HeightApart
    <2> QED
        BY <1>1, <1>8, <2>2, <2>3
<1>13. \A n \in i .. j - 1 : HeightIn(s, i, n) <= d
    <2> SUFFICES ASSUME NEW n \in i .. j - 1 PROVE HeightIn(s, i, n) <= d
        OBVIOUS
    <2>1. CASE n = i
        <3>1. d >= 1
            BY Zenon, <1>4 DEF FieldsNest
        <3> QED
            BY <1>8, <2>1, <3>1
    <2>2. CASE n \in m .. j - 1
        <3>1. HeightIn(s, m, n) + 1 <= d
            BY Zenon, <1>4, <2>2 DEF FieldsNest
        <3> QED
            BY Zenon, <1>12, <2>2, <3>1
    <2> QED
        BY <1>1, <2>1, <2>2
<1>14. \E n \in i .. j - 1 : HeightIn(s, i, n) = d
    <2>1. d = 1 \/ \E n \in m .. j - 1 : HeightIn(s, m, n) + 1 = d
        BY Zenon, <1>4 DEF FieldsNest
    <2>2. CASE d = 1
        <3>1. i \in i .. j - 1
            BY <1>3
        <3> QED
            BY Zenon, <1>8, <2>2, <3>1
    <2>3. CASE \E n \in m .. j - 1 : HeightIn(s, m, n) + 1 = d
        <3>1. PICK n \in m .. j - 1 : HeightIn(s, m, n) + 1 = d
            BY <2>3
        <3>2. n \in i .. j - 1
            BY <1>1
        <3> QED
            BY Zenon, <1>12, <3>1, <3>2
    <2> QED
        BY Zenon, <2>1, <2>2, <2>3
<1> QED
    BY Zenon, <1>6, <1>9, <1>11, <1>13, <1>14 DEF TypeNests, w

\* A field is in the struct that the fields after it are in.
LEMMA FieldNests ==
    ASSUME NEW s \in Seq(Chars), NEW i \in 1 .. Len(s), NEW m \in i + 1 .. Len(s) + 1,
           NEW j \in m + 1 .. Len(s) + 1, NEW f \in Nat, NEW o \in Nat,
           TypeNests(s, i, m, f), FieldsNest(s, m, j, o)
    PROVE  FieldsNest(s, i, j, Max({f + 1, o}))
<1>0. PICK l \in Nat : l = Len(s)
    OBVIOUS
<1> DEFINE w == j - i
           u == m - i
           v == j - m
           e == j - 1
<1>1. /\ w \in Nat /\ u \in Nat /\ v \in Nat /\ u <= w /\ v <= w /\ w <= l /\ u <= l /\ e \in Int /\ m <= e + 1 /\ i <= m
      /\ m <= j /\ j <= j
    BY <1>0
<1>2. /\ i \in 1 .. l + 1 /\ m \in 1 .. l + 1 /\ m \in i .. l + 1 /\ m \in i + 1 .. e /\ e \in m .. l + 1
      /\ e \in i .. l + 1 /\ i \in Int /\ j \in Int /\ m \in Int
    BY <1>0
<1>3. ListBetween(s, i, e, w, w)
    <2>1. TypeBetween(s, i, m, u, u) /\ ListBetween(s, m, e, v, v)
        BY Zenon DEF TypeNests, FieldsNest
    <2>2. GrowsAt(s, i) /\ GrowsAt(s, m)
        BY Zenon, <1>0, <1>2, GrammarGrows
    <2>3. TypeBetween(s, i, m, w, w)
        BY Zenon, <1>0, <1>1, <1>2, <2>1, <2>2, GrowsFrom
    <2>4. ListBetween(s, m, e, w, w)
        BY Zenon, <1>0, <1>1, <1>2, <2>1, <2>2, GrowsFrom
    <2> HIDE DEF w, e
    <2> QED
        BY <1>0, <1>1, <1>2, <2>3, <2>4, ListParts
<1> HIDE DEF w, u, v
<1>4. OpenIn(s, i, m - 1) = 0
    BY Zenon DEF TypeNests
<1>5. OpenIn(s, i, j - 1) = -1
    <2>1. OpenIn(s, i, e) = OpenIn(s, i, m - 1) + OpenIn(s, m, e)
        BY <1>1, <1>2, OpenApart
    <2>2. OpenIn(s, m, e) = -1
        BY Zenon DEF FieldsNest
    <2> QED
        BY <1>4, <2>1, <2>2
<1>6. EndedBy(s, i, m, m)
    BY Zenon DEF TypeNests
<1>7. EndedBy(s, i, j, j)
    <2>1. EndedBy(s, m, j, j)
        BY Zenon DEF FieldsNest
    <2> QED
        BY Zenon, <1>1, <1>2, <1>6, <2>1, EndedOn
<1>8. ASSUME NEW n \in m .. j - 1
      PROVE  HeightIn(s, i, n) = HeightIn(s, m, n)
    <2>1. m <= n /\ n \in m .. l
        BY <1>0, <1>2
    <2>2. Cardinality(Before(s, i, m, n)) = 0
        BY Zenon, <1>0, <1>2, <1>6, <2>1, NothingBefore
    <2>3. /\ HeightIn(s, i, n) = OpenIn(s, i, m - 1) + Cardinality(Before(s, i, m, n)) + HeightIn(s, m, n)
          /\ HeightIn(s, m, n) \in Int
        BY <1>1, <1>2, <2>1, HeightApart
    <2> QED
        BY <1>4, <2>2, <2>3
<1>9. PICK d \in Nat : d = Max({f + 1, o}) /\ d \in {f + 1, o} /\ f + 1 <= d /\ o <= d
    <2>1. f + 1 \in Nat
        OBVIOUS
    <2> QED
        BY <2>1, MaxOfTwo
<1>10. ASSUME NEW n \in i .. j - 1
       PROVE  HeightIn(s, i, n) + 1 <= d
    <2>0. HeightIn(s, i, n) \in Int
        <3>1. n \in Int /\ i <= i /\ i <= n
            BY <1>2
        <3> QED
            BY <1>2, <3>1, HeightApart
    <2>1. CASE n \in i .. m - 1
        <3>1. HeightIn(s, i, n) <= f
            BY Zenon, <2>1 DEF TypeNests
        <3> QED
            BY <1>9, <2>0, <3>1
    <2>2. CASE n \in m .. j - 1
        <3>1. HeightIn(s, m, n) + 1 <= o
            BY Zenon, <2>2 DEF FieldsNest
        <3>2. HeightIn(s, i, n) = HeightIn(s, m, n)
            BY Zenon, <1>8, <2>2
        <3> QED
            BY <1>9, <2>0, <3>1, <3>2
    <2> QED
        BY <1>2, <2>1, <2>2
<1>11. d = 1 \/ \E n \in i .. j - 1 : HeightIn(s, i, n) + 1 = d
    <2>1. CASE d = f + 1
        <3>1. PICK n \in i .. m - 1 : HeightIn(s, i, n) = f
            BY Zenon DEF TypeNests
        <3>2. n \in i .. j - 1
            BY <1>1
        <3> QED
            BY Zenon, <2>1, <3>1, <3>2
    <2>2. CASE d = o
        <3>1. o = 1 \/ \E n \in m .. j - 1 : HeightIn(s, m, n) + 1 = o
            BY Zenon DEF FieldsNest
        <3>2. \A n \in m .. j - 1 : n \in i .. j - 1
            BY <1>1
        <3> QED
            BY Zenon, <1>8, <2>2, <3>1, <3>2
    <2> QED
        BY Zenon, <1>9, <2>1, <2>2
<1>12. s[j - 1] = ")"
    BY Zenon DEF FieldsNest
<1>13. d >= 1
    <2>1. o >= 1
        BY Zenon DEF FieldsNest
    <2> QED
        BY <1>9, <2>1
<1>14. FieldsNest(s, i, j, d)
    BY Zenon, <1>3, <1>5, <1>7, <1>10, <1>11, <1>12, <1>13 DEF FieldsNest, w
<1> QED
    BY Zenon, <1>9, <1>14

\* An array of dict entries begins at i, and its brace is at v.
IsEntry(s, i, v) == s[i] = "a" /\ s[i + 1] = "{" /\ s[i + 2] \in Basic /\ s[v] = "}"

\* An array of dict entries, and its entry, are around the value.
LEMMA EntryNests ==
    ASSUME NEW s \in Seq(Chars), NEW i \in 1 .. Len(s), NEW v \in i + 4 .. Len(s), NEW d \in Nat,
           IsEntry(s, i, v), TypeNests(s, i + 3, v, d)
    PROVE  TypeNests(s, i, v + 1, d + 2)
<1>0. PICK l \in Nat : l = Len(s)
    OBVIOUS
<1>1. PICK a \in Int, b \in Int, m \in Int, j \in Int :
        a = i + 1 /\ b = i + 2 /\ m = i + 3 /\ j = v + 1
    <2>1. i + 1 \in Int /\ i + 2 \in Int /\ i + 3 \in Int /\ v + 1 \in Int
        OBVIOUS
    <2> QED
        BY Zenon, <2>1
<1>2. /\ a - 1 = i /\ b - 1 = a /\ m - 1 = b /\ j - 1 = v /\ i \in Int /\ v \in Int
      /\ i < a /\ i < b /\ i < m /\ i <= i /\ i <= a /\ i <= b /\ i <= m /\ i <= v /\ m <= v /\ v <= v /\ v <= j /\ m <= j /\ j <= j
      /\ j > i + 4 /\ a <= (b - 1) + 1 /\ a <= b /\ a <= a /\ b <= b
      /\ m <= (v - 1) + 1 /\ v <= v + 1 /\ b <= (m - 1) + 1
    BY <1>1
<1>3. TypeNests(s, m, v, d) /\ s[i] = "a" /\ s[a] = "{" /\ s[b] \in Basic /\ s[v] = "}"
    BY Zenon, <1>1 DEF IsEntry
<1> DEFINE w == j - i
           u == v - m
<1>4. /\ w \in Nat /\ u \in Nat /\ w - 1 \in Nat /\ w <= l /\ u <= w - 1 /\ w > 0
    BY <1>0, <1>1
<1>5. i \in 1 .. l + 1 /\ m \in 1 .. l + 1 /\ v \in m .. l + 1 /\ j \in i .. l + 1 /\ j \in i + 1 .. l + 1
    BY <1>0, <1>1
<1> HIDE DEF w, u
<1>6. TypeBetween(s, i, j, w, w)
    <2>1. TypeBetween(s, m, v, u, u)
        BY Zenon, <1>3 DEF TypeNests, u
    <2>2. GrowsAt(s, m)
        BY Zenon, <1>0, <1>5, GrammarGrows
    <2>3. TypeBetween(s, m, v, w - 1, w - 1)
        <3>1. PICK y \in Nat : y = w - 1 /\ u <= y
            BY Zenon, <1>4
        <3>2. u \in Nat /\ v \in m .. Len(s) + 1 /\ u <= y
            BY Zenon, <1>0, <1>4, <1>5, <3>1
        <3>3. TypeBetween(s, m, v, y, y)
            BY <2>1, <2>2, <3>2, GrowsFrom
        <3> QED
            BY Zenon, <3>1, <3>3
    <2>4. /\ j > i + 4 /\ s[i] = "a" /\ s[i + 1] = "{" /\ s[j - 1] = "}"
          /\ w > 0 /\ w > 0 /\ s[i + 2] \in Basic
          /\ TypeBetween(s, i + 3, j - 1, w - 1, w - 1)
        BY Zenon, <1>1, <1>2, <1>3, <1>4, <2>3
    <2> QED
        BY <1>0, <1>4, <1>5, <2>4, TypeParts
<1>7. TypeBetween(s, i, j, l, l)
    <2>1. GrowsAt(s, i)
        BY Zenon, <1>0, <1>5, GrammarGrows
    <2> QED
        BY Zenon, <1>0, <1>4, <1>5, <1>6, <2>1, GrowsFrom
<1>8. /\ s[i] \notin {"(", "{"} /\ s[i] \notin {")", "}"}
      /\ s[a] \in {"(", "{"} /\ s[a] # "a"
      /\ s[b] \notin {"(", "{"} /\ s[b] \notin {")", "}"} /\ s[b] # "a"
      /\ s[v] \notin {"(", "{"} /\ s[v] \in {")", "}"} /\ s[v] # "a"
    BY <1>3, CharFacts
<1>9. /\ OpenIn(s, i, i) = 0 /\ HeightIn(s, i, i) = 0
      /\ OpenIn(s, a, a) = 1 /\ HeightIn(s, a, a) = 1
      /\ OpenIn(s, b, b) = 0 /\ HeightIn(s, b, b) = 0
      /\ OpenIn(s, v, v) = -1 /\ HeightIn(s, v, v) = -1
    BY Zenon, <1>2, <1>8, OpenAlone, HeightAlone DEF OpenedBy
<1>10. OpenIn(s, i, a) = 1 /\ OpenIn(s, i, b) = 1
    <2>1. OpenIn(s, i, a) = OpenIn(s, i, a - 1) + OpenIn(s, a, a)
        BY <1>2, OpenApart
    <2>2. OpenIn(s, i, b) = OpenIn(s, i, b - 1) + OpenIn(s, b, b)
        BY <1>2, OpenApart
    <2> QED
        BY <1>2, <1>9, <2>1, <2>2
<1>11. OpenIn(s, m, v - 1) = 0
    BY Zenon, <1>3 DEF TypeNests
<1>12. OpenIn(s, i, j - 1) = 0
    <2>1. OpenIn(s, i, v) = OpenIn(s, i, m - 1) + OpenIn(s, m, v)
        BY <1>2, OpenApart
    <2>2. OpenIn(s, m, v) = OpenIn(s, m, v - 1) + OpenIn(s, v, v)
        BY <1>2, OpenApart
    <2> QED
        BY <1>2, <1>9, <1>10, <1>11, <2>1, <2>2
<1>13. EndedBy(s, m, v, v)
    BY Zenon, <1>3 DEF TypeNests
<1>14. \A k \in i + 1 .. m - 1 : s[k] # "a"
    <2>1. \A k \in i + 1 .. m - 1 : k = a \/ k = b
        BY <1>1
    <2> QED
        BY Zenon, <1>8, <2>1
<1>15. EndedBy(s, i, j, j)
    <2>1. EndedBy(s, v, j, j)
        <3>1. \A k \in v .. j - 1 : k = v
            BY <1>2
        <3> QED
            BY Zenon, <1>8, <3>1 DEF EndedBy
    <2>2. EndedBy(s, m, j, j)
        BY Zenon, <1>2, <1>13, <2>1, EndedOn
    <2>3. EndedBy(s, i, m, j)
        <3>1. \A k \in i .. m - 1 : k = i \/ k \in i + 1 .. m - 1
            BY <1>2
        <3>2. j \in i + 1 .. j
            BY <1>2
        <3> QED
            BY Zenon, <1>0, <1>7, <1>14, <3>1, <3>2 DEF EndedBy
    <2> QED
        BY Zenon, <1>2, <2>2, <2>3, EndedOn
<1>16. \A n \in i .. j - 1 : Covers(s, i, n)
    BY Zenon, <1>0, <1>3, <1>5, <1>7, CoversItself
<1>17. HeightIn(s, i, a) = 2 /\ HeightIn(s, i, b) = 2
    <2>1. a \in i .. j - 1 /\ b \in i .. j - 1
        BY <1>1
    <2>2. (\A k \in i + 1 .. a - 1 : s[k] # "a") /\ (\A k \in i + 1 .. b - 1 : s[k] # "a")
        <3>1. \A k \in i + 1 .. b - 1 : k \in i + 1 .. m - 1
            BY <1>2
        <3>2. \A k \in i + 1 .. a - 1 : k \in i + 1 .. m - 1
            BY <1>2
        <3> QED
            BY Zenon, <1>14, <3>1, <3>2
    <2>3. Cardinality(Before(s, i, a, a)) = 1
        BY <1>2, <1>16, <2>1, <2>2, OneBefore
    <2>4. Cardinality(Before(s, i, b, b)) = 1
        BY <1>2, <1>16, <2>1, <2>2, OneBefore
    <2>5. HeightIn(s, i, a) = OpenIn(s, i, a - 1) + Cardinality(Before(s, i, a, a)) + HeightIn(s, a, a)
        BY <1>2, HeightApart
    <2>6. HeightIn(s, i, b) = OpenIn(s, i, b - 1) + Cardinality(Before(s, i, b, b)) + HeightIn(s, b, b)
        BY <1>2, HeightApart
    <2> QED
        BY <1>2, <1>9, <1>10, <2>3, <2>4, <2>5, <2>6
<1>18. ASSUME NEW n \in m .. v
       PROVE  HeightIn(s, i, n) = HeightIn(s, m, n) + 2 /\ HeightIn(s, m, n) \in Int
    <2>1. m <= n /\ n \in i .. j - 1
        BY <1>2
    <2>2. Cardinality(Before(s, i, m, n)) = 1
        BY <1>2, <1>14, <1>16, <2>1, OneBefore
    <2>3. /\ HeightIn(s, i, n) = OpenIn(s, i, m - 1) + Cardinality(Before(s, i, m, n)) + HeightIn(s, m, n)
          /\ HeightIn(s, m, n) \in Int
        BY <1>2, <2>1, HeightApart
    <2> QED
        BY <1>2, <1>10, <2>2, <2>3
<1>19. HeightIn(s, m, v) = -1
    <2>1. v \in m .. l + 1 /\ v \in v .. l
        BY <1>0, <1>5
    <2>2. Cardinality(Before(s, m, v, v)) = 0
        BY Zenon, <1>0, <1>5, <1>13, <2>1, NothingBefore
    <2>3. HeightIn(s, m, v) = OpenIn(s, m, v - 1) + Cardinality(Before(s, m, v, v)) + HeightIn(s, v, v)
        BY <1>2, HeightApart
    <2> QED
        BY <1>9, <1>11, <2>2, <2>3
<1>20. \A n \in i .. j - 1 : HeightIn(s, i, n) <= d + 2
    <2> SUFFICES ASSUME NEW n \in i .. j - 1 PROVE HeightIn(s, i, n) <= d + 2
        OBVIOUS
    <2>1. n = i \/ n = a \/ n = b \/ n = v \/ n \in m .. v - 1
        BY <1>1
    <2>2. CASE n = i
        BY <1>9, <2>2
    <2>3. CASE n = a \/ n = b
        BY <1>17, <2>3
    <2>4. CASE n = v
        <3>1. v \in m .. v
            BY <1>2
        <3> QED
            BY <1>18, <1>19, <2>4, <3>1
    <2>5. CASE n \in m .. v - 1
        <3>1. HeightIn(s, m, n) <= d
            BY Zenon, <1>3, <2>5 DEF TypeNests
        <3>2. n \in m .. v
            BY <2>5
        <3> QED
            BY <1>18, <3>1, <3>2
    <2> QED
        BY Zenon, <2>1, <2>2, <2>3, <2>4, <2>5
<1>21. \E n \in i .. j - 1 : HeightIn(s, i, n) = d + 2
    <2>1. PICK n \in m .. v - 1 : HeightIn(s, m, n) = d
        BY Zenon, <1>3 DEF TypeNests
    <2>2. n \in i .. j - 1 /\ n \in m .. v
        BY <1>2
    <2> QED
        BY Zenon, <1>18, <2>1, <2>2
<1>22. TypeNests(s, i, j, d + 2)
    BY Zenon, <1>6, <1>12, <1>15, <1>20, <1>21 DEF TypeNests, w
<1> QED
    BY Zenon, <1>1, <1>22

\* What is scanned to its end nests as deep as the scan says.
ScanNests(s, p) ==
    LET r == Scan(s)[p] IN
    r.end > 0 => IF p[1] = "type" THEN TypeNests(s, p[2], r.end, r.depth)
                 ELSE FieldsNest(s, p[2], r.end, r.depth)

\* ScanNests, of a type that is scanned.
LEMMA TypeNestsAt ==
    ASSUME NEW s, NEW i, NEW x, NEW y, ScanNests(s, <<"type", i, x, y>>),
           Scan(s)[<<"type", i, x, y>>].end > 0
    PROVE  TypeNests(s, i, Scan(s)[<<"type", i, x, y>>].end, Scan(s)[<<"type", i, x, y>>].depth)
<1> DEFINE p == <<"type", i, x, y>>
<1>1. p[1] = "type" /\ p[2] = i
    OBVIOUS
<1> HIDE DEF p
<1>2. ScanNests(s, p) /\ Scan(s)[p].end > 0
    BY DEF p
<1>3. TypeNests(s, i, Scan(s)[p].end, Scan(s)[p].depth)
    BY Zenon, <1>1, <1>2 DEF ScanNests
<1> QED
    BY <1>3 DEF p

\* And of fields.
LEMMA FieldsNestAt ==
    ASSUME NEW s, NEW i, NEW x, NEW y, ScanNests(s, <<"fields", i, x, y>>),
           Scan(s)[<<"fields", i, x, y>>].end > 0
    PROVE  FieldsNest(s, i, Scan(s)[<<"fields", i, x, y>>].end, Scan(s)[<<"fields", i, x, y>>].depth)
<1> DEFINE p == <<"fields", i, x, y>>
<1>1. p[1] # "type" /\ p[2] = i
    OBVIOUS
<1> HIDE DEF p
<1>2. ScanNests(s, p) /\ Scan(s)[p].end > 0
    BY DEF p
<1>3. FieldsNest(s, i, Scan(s)[p].end, Scan(s)[p].depth)
    BY Zenon, <1>1, <1>2 DEF ScanNests
<1> QED
    BY <1>3 DEF p

\* What is scanned behind i nests as the scan says.
NestsBehind(s, i) ==
    \A k \in i + 1 .. Len(s) + 1, a \in 0 .. MaxArrayDepth, b \in 0 .. MaxStructDepth :
        ScanNests(s, <<"type", k, a, b>>) /\ ScanNests(s, <<"fields", k, a, b>>)

\* Then so does a type at i.
LEMMA TypeNestsToo ==
    ASSUME NEW s \in Seq(Chars), NEW i \in 1 .. Len(s) + 1,
           NEW x \in 0 .. MaxArrayDepth, NEW y \in 0 .. MaxStructDepth,
           NestsBehind(s, i), Scan(s)[<<"type", i, x, y>>].end > 0
    PROVE  TypeNests(s, i, Scan(s)[<<"type", i, x, y>>].end, Scan(s)[<<"type", i, x, y>>].depth)
<1>0. PICK n \in Nat : n = Len(s)
    OBVIOUS
<1>1. PICK g : g = Scan(s)
    OBVIOUS
<1> DEFINE r == g[<<"type", i, x, y>>]
           v == g[<<"type", i + 3, x + 1, y + 1>>]
           e == g[<<"type", i + 1, x + 1, y>>]
           f == g[<<"fields", i + 1, x, y + 1>>]
<1>2. IsTypeFound(s, n, i, x, y, r, v, e, f)
    BY <1>0, <1>1, TypeFound
<1>3. \A k \in 1 .. n + 1 : k > i => k \in i + 1 .. n + 1
    BY <1>0
<1>4. \A k \in Nat : k > 0 /\ At(s, k) # "end" => k \in 1 .. n /\ At(s, k) = s[k]
    <2> SUFFICES ASSUME NEW k \in Nat, k > 0, At(s, k) # "end" PROVE k \in 1 .. n /\ At(s, k) = s[k]
        BY Zenon
    <2>1. k <= n
        BY <1>0, AtFacts
    <2> QED
        BY <1>0, <2>1, AtFacts
<1>5. i \in Nat /\ i > 0 /\ i + 1 \in Nat /\ i + 1 > 0 /\ i + 2 \in Nat /\ i + 2 > 0 /\ i + 1 > i /\ i + 3 > i
    OBVIOUS
<1>6. CASE At(s, i) \in Basic \cup {"v"} /\ r = [end |-> i + 1, depth |-> 0]
    <2>1. At(s, i) # "end"
        BY <1>6, CharFacts
    <2>2. i \in 1 .. Len(s) /\ s[i] \in Basic \cup {"v"}
        BY Zenon, <1>0, <1>4, <1>5, <1>6, <2>1
    <2>3. TypeNests(s, i, i + 1, 0)
        BY Zenon, <2>2, BasicNests
    <2>4. r.end = i + 1 /\ r.depth = 0
        BY <1>6
    <2> QED
        BY Zenon, <1>1, <2>3, <2>4
<1>7. CASE /\ At(s, i) = "a" /\ At(s, i + 1) = "{" /\ At(s, i + 2) \in Basic
           /\ i + 3 \in 1 .. n + 1 /\ x + 1 \in 0 .. MaxArrayDepth /\ y + 1 \in 0 .. MaxStructDepth
           /\ v.end > 0 /\ At(s, v.end) = "}" /\ r = [end |-> v.end + 1, depth |-> v.depth + 2]
    <2>1. At(s, i) # "end" /\ At(s, i + 1) # "end" /\ At(s, i + 2) # "end" /\ At(s, v.end) # "end"
        BY <1>7, CharFacts
    <2>2. s[i] = "a" /\ s[i + 1] = "{" /\ s[i + 2] \in Basic /\ i \in 1 .. Len(s)
        BY Zenon, <1>0, <1>4, <1>5, <1>7, <2>1
    <2>3. v.end \in Nat /\ v.depth \in Nat /\ v.end \in (i + 3) + 1 .. n + 1
        BY <1>0, <1>1, <1>7, ScanTyped
    <2>4. v.end \in 1 .. n /\ s[v.end] = "}"
        BY Zenon, <1>4, <1>7, <2>1, <2>3
    <2>5. TypeNests(s, i + 3, v.end, v.depth)
        <3>1. i + 3 \in i + 1 .. Len(s) + 1
            BY Zenon, <1>0, <1>3, <1>5, <1>7
        <3>2. ScanNests(s, <<"type", i + 3, x + 1, y + 1>>)
            BY Zenon, <1>7, <3>1 DEF NestsBehind
        <3> QED
            BY Zenon, <1>1, <1>7, <3>2, TypeNestsAt
    <2> HIDE DEF r, v
    <2>6. r.end = v.end + 1 /\ r.depth = v.depth + 2
        <3>1. r = [end |-> v.end + 1, depth |-> v.depth + 2]
            BY Zenon, <1>7
        <3> QED
            BY <3>1
    <2>7. v.end \in i + 4 .. Len(s)
        <3>1. \A z \in (i + 3) + 1 .. n + 1 : z \in 1 .. n => z \in i + 4 .. n
            OBVIOUS
        <3> QED
            BY Zenon, <1>0, <2>3, <2>4, <3>1
    <2>8. IsEntry(s, i, v.end)
        BY Zenon, <2>2, <2>4 DEF IsEntry
    <2>9. TypeNests(s, i, v.end + 1, v.depth + 2)
        BY Zenon, <2>2, <2>3, <2>5, <2>7, <2>8, EntryNests
    <2> QED
        BY Zenon, <1>1, <2>6, <2>9 DEF r
<1>8. CASE /\ At(s, i) = "a" /\ At(s, i + 1) # "{"
           /\ i + 1 \in 1 .. n + 1 /\ x + 1 \in 0 .. MaxArrayDepth
           /\ e.end > 0 /\ r = [end |-> e.end, depth |-> e.depth + 1]
    <2>1. At(s, i) # "end"
        BY <1>8, CharFacts
    <2>2. s[i] = "a" /\ i \in 1 .. Len(s)
        BY Zenon, <1>0, <1>4, <1>5, <1>8, <2>1
    <2>3. e.end \in Nat /\ e.depth \in Nat /\ e.end \in (i + 1) + 1 .. n + 1
        BY <1>0, <1>1, <1>8, ScanTyped
    <2>4. TypeNests(s, i + 1, e.end, e.depth)
        <3>1. i + 1 \in i + 1 .. Len(s) + 1
            BY Zenon, <1>0, <1>3, <1>5, <1>8
        <3>2. ScanNests(s, <<"type", i + 1, x + 1, y>>)
            BY Zenon, <1>8, <3>1 DEF NestsBehind
        <3> QED
            BY Zenon, <1>1, <1>8, <3>2, TypeNestsAt
    <2> HIDE DEF r, e
    <2>5. r.end = e.end /\ r.depth = e.depth + 1
        <3>1. r = [end |-> e.end, depth |-> e.depth + 1]
            BY Zenon, <1>8
        <3> QED
            BY <3>1
    <2>6. e.end \in i + 2 .. Len(s) + 1
        BY <1>0, <2>3
    <2>7. TypeNests(s, i, e.end, e.depth + 1)
        BY Zenon, <2>2, <2>3, <2>4, <2>6, ArrayNests
    <2> QED
        BY Zenon, <1>1, <2>5, <2>7 DEF r
<1>9. CASE /\ At(s, i) = "(" /\ At(s, i + 1) # ")"
           /\ i + 1 \in 1 .. n + 1 /\ y + 1 \in 0 .. MaxStructDepth /\ r = f
    <2>0. f.end > 0
        BY Zenon, <1>1, <1>9
    <2>1. At(s, i) # "end"
        BY <1>9, CharFacts
    <2>2. s[i] = "(" /\ i \in 1 .. Len(s)
        BY Zenon, <1>0, <1>4, <1>5, <1>9, <2>1
    <2>3. f.end \in Nat /\ f.depth \in Nat /\ f.end \in (i + 1) + 1 .. n + 1
        BY <1>0, <1>1, <1>9, <2>0, ScanTyped
    <2>4. FieldsNest(s, i + 1, f.end, f.depth)
        <3>1. i + 1 \in i + 1 .. Len(s) + 1
            BY Zenon, <1>0, <1>3, <1>5, <1>9
        <3>2. ScanNests(s, <<"fields", i + 1, x, y + 1>>)
            BY Zenon, <1>9, <3>1 DEF NestsBehind
        <3> QED
            BY Zenon, <1>1, <2>0, <3>2, FieldsNestAt
    <2> HIDE DEF r, f
    <2>5. f.end \in i + 2 .. Len(s) + 1 /\ i + 1 <= Len(s)
        BY <1>0, <2>3
    <2>6. s[i + 1] # ")"
        <3>1. At(s, i + 1) = s[i + 1]
            BY Zenon, <1>5, <2>5, AtFacts
        <3> QED
            BY Zenon, <1>9, <3>1
    <2>7. TypeNests(s, i, f.end, f.depth)
        BY Zenon, <2>2, <2>3, <2>4, <2>5, <2>6, StructNests
    <2> QED
        BY Zenon, <1>1, <1>9, <2>7 DEF r
<1> HIDE DEF r, v, e, f
<1> QED
    BY Zenon, <1>1, <1>2, <1>6, <1>7, <1>8, <1>9 DEF IsTypeFound

\* And the fields of a struct from i on, when the field at i does.
LEMMA FieldsNestToo ==
    ASSUME NEW s \in Seq(Chars), NEW i \in 1 .. Len(s) + 1,
           NEW x \in 0 .. MaxArrayDepth, NEW y \in 0 .. MaxStructDepth,
           NestsBehind(s, i), ScanNests(s, <<"type", i, x, y>>), Scan(s)[<<"fields", i, x, y>>].end > 0
    PROVE  FieldsNest(s, i, Scan(s)[<<"fields", i, x, y>>].end, Scan(s)[<<"fields", i, x, y>>].depth)
<1>0. PICK n \in Nat : n = Len(s)
    OBVIOUS
<1>1. PICK g : g = Scan(s)
    OBVIOUS
<1> DEFINE r == g[<<"fields", i, x, y>>]
           f == g[<<"type", i, x, y>>]
           o == g[<<"fields", f.end, x, y>>]
<1>2. IsFieldsFound(s, n, i, r, f, o)
    BY <1>0, <1>1, FieldsFound
<1>3. i \in Nat /\ i > 0
    OBVIOUS
<1>4. CASE At(s, i) = ")" /\ r = [end |-> i + 1, depth |-> 1]
    <2>1. i <= n
        BY <1>0, <1>3, <1>4, AtFacts
    <2>2. i \in 1 .. Len(s) /\ s[i] = ")"
        BY <1>0, <1>3, <1>4, <2>1, AtFacts
    <2>3. FieldsNest(s, i, i + 1, 1)
        BY Zenon, <2>2, EndNests
    <2>4. r.end = i + 1 /\ r.depth = 1
        BY <1>4
    <2> QED
        BY Zenon, <1>1, <2>3, <2>4
<1>5. CASE /\ f.end \in i + 1 .. n + 1 /\ o.end > 0
           /\ r = [end |-> o.end, depth |-> Max({f.depth + 1, o.depth})]
    <2>1. f.end > 0 /\ f.end \in 1 .. n + 1
        <3>1. \A z \in i + 1 .. n + 1 : z > 0 /\ z \in 1 .. n + 1
            OBVIOUS
        <3> QED
            BY Zenon, <1>5, <3>1
    <2>2. TypeNests(s, i, f.end, f.depth)
        BY Zenon, <1>1, <2>1, TypeNestsAt
    <2>3. f.depth \in Nat
        BY <1>0, <1>1, ScanTyped
    <2>4. PICK m \in i + 1 .. n + 1 : m = f.end /\ m \in 1 .. n + 1
        BY Zenon, <1>5, <2>1
    <2>5. o = g[<<"fields", m, x, y>>]
        BY Zenon, <2>4
    <2>6. o.depth \in Nat /\ o.end \in m + 1 .. n + 1
        BY <1>0, <1>1, <1>5, <2>4, <2>5, ScanTyped
    <2>7. FieldsNest(s, m, o.end, o.depth)
        <3>1. ScanNests(s, <<"fields", m, x, y>>)
            BY Zenon, <1>0, <2>4 DEF NestsBehind
        <3>2. Scan(s)[<<"fields", m, x, y>>].end > 0
            BY Zenon, <1>1, <1>5, <2>5
        <3> QED
            BY Zenon, <1>1, <2>5, <3>1, <3>2, FieldsNestAt
    <2>8. r.end = o.end /\ r.depth = Max({f.depth + 1, o.depth})
        BY <1>5
    <2> HIDE DEF r, f, o
    <2>9. i \in 1 .. Len(s) /\ m \in i + 1 .. Len(s) + 1 /\ o.end \in m + 1 .. Len(s) + 1
        BY <1>0, <2>6
    <2>10. FieldsNest(s, i, o.end, Max({f.depth + 1, o.depth}))
        BY Zenon, <2>2, <2>3, <2>4, <2>6, <2>7, <2>9, FieldNests
    <2> QED
        BY Zenon, <1>1, <2>8, <2>10 DEF r
<1> HIDE DEF r, f, o
<1> QED
    BY Zenon, <1>1, <1>2, <1>4, <1>5 DEF IsFieldsFound

\* So everything the scan finds nests as it says.
LEMMA AllNest ==
    ASSUME NEW s \in Seq(Chars)
    PROVE  \A p \in Places(s) : ScanNests(s, p)
<1> DEFINE Q == {p \in Places(s) : ScanNests(s, p)}
           rank == [p \in Places(s) |-> Left(s, p)]
<1>1. PICK n \in Nat : n = Len(s)
    OBVIOUS
<1>2. ASSUME NEW p \in Places(s), \A q \in Places(s) : rank[q] < rank[p] => q \in Q
      PROVE  p \in Q
    <2>1. PICK w \in {"type", "fields"}, i \in 1 .. n + 1,
               x \in 0 .. MaxArrayDepth, y \in 0 .. MaxStructDepth : p = <<w, i, x, y>>
        BY <1>1 DEF Places
    <2>2. \A q \in Places(s) : Left(s, q) < Left(s, p) => q \in Q
        BY <1>2
    <2>3. /\ \A k \in i + 1 .. n + 1, a \in 0 .. MaxArrayDepth, b \in 0 .. MaxStructDepth :
                <<"type", k, a, b>> \in Q /\ <<"fields", k, a, b>> \in Q
          /\ p[1] = "fields" => <<"type", i, x, y>> \in Q
        <3> HIDE DEF Q
        <3>1. p \in {<<"type", i, x, y>>, <<"fields", i, x, y>>}
            BY <2>1
        <3>2. /\ \A k \in i + 1 .. n + 1, a \in 0 .. MaxArrayDepth, b \in 0 .. MaxStructDepth :
                    /\ <<"type", k, a, b>> \in Places(s)
                    /\ Left(s, <<"type", k, a, b>>) < Left(s, p)
                    /\ <<"fields", k, a, b>> \in Places(s)
                    /\ Left(s, <<"fields", k, a, b>>) < Left(s, p)
              /\ p[1] = "fields" =>
                    /\ <<"type", i, x, y>> \in Places(s)
                    /\ Left(s, <<"type", i, x, y>>) < Left(s, p)
            BY <1>1, <3>1, PlacesAhead
        <3> QED
            BY <2>2, <3>2
    <2>4. NestsBehind(s, i) /\ (p[1] = "fields" => ScanNests(s, <<"type", i, x, y>>))
        <3>1. \A q \in Q : ScanNests(s, q)
            OBVIOUS
        <3> HIDE DEF Q
        <3> QED
            BY Zenon, <1>1, <2>3, <3>1 DEF NestsBehind
    <2>5. p[1] = w /\ p[2] = i
        BY <2>1
    <2>6. CASE w = "type"
        <3>1. Scan(s)[p].end > 0 => TypeNests(s, i, Scan(s)[p].end, Scan(s)[p].depth)
            BY Zenon, <1>1, <2>1, <2>4, <2>6, TypeNestsToo
        <3>2. ScanNests(s, p)
            BY Zenon, <2>5, <2>6, <3>1 DEF ScanNests
        <3> QED
            BY <3>2
    <2>7. CASE w = "fields"
        <3>1. Scan(s)[p].end > 0 => FieldsNest(s, i, Scan(s)[p].end, Scan(s)[p].depth)
            BY Zenon, <1>1, <2>1, <2>4, <2>5, <2>7, FieldsNestToo
        <3>2. w # "type"
            BY <2>7
        <3>3. ScanNests(s, p)
            BY Zenon, <2>5, <2>7, <3>1, <3>2 DEF ScanNests
        <3> QED
            BY <3>3
    <2> QED
        BY Zenon, <2>6, <2>7
<1>3. rank \in [Places(s) -> Nat]
    BY PlaceRank
<1>4. Q \subseteq Places(s)
    OBVIOUS
<1>5. IsInductive(Places(s), rank, Q)
    <2> HIDE DEF rank, Q
    <2> QED
        BY <1>2, <1>3, <1>4 DEF IsInductive
<1>6. Q = Places(s)
    BY <1>5, RankInduction
<1> QED
    BY <1>6

\* From the first position on, the containers open at n are those of the whole text.
LEMMA HeightOfAll ==
    ASSUME NEW s \in Seq(Chars), NEW n \in 1 .. Len(s)
    PROVE  HeightIn(s, 1, n) = Opens(s, n) + Cardinality(ArraysAround(s, n))
<1>0. PICK l \in Nat : l = Len(s)
    OBVIOUS
<1>1. OpenIn(s, 1, n) = Opens(s, n)
    BY DEF OpenIn, Opening, Closing, Opens
<1>2. \A k : Covers(s, k, n) <=> s[k] = "a" /\ \E m \in n .. Len(s) : IsType(SubSeq(s, k, m), Len(s), Len(s))
    <2>1. \A m \in n .. Len(s) : (m + 1) - 1 = m
        <3>1. \A m \in n .. l : (m + 1) - 1 = m
            OBVIOUS
        <3> QED
            BY Zenon, <1>0, <3>1
    <2> QED
        BY Zenon, <2>1 DEF Covers, TypeBetween
<1>3. Before(s, 1, n, n) = ArraysAround(s, n)
    BY Zenon, <1>2 DEF Before, ArraysAround
<1> QED
    BY Zenon, <1>1, <1>3 DEF HeightIn

\* The greatest of some integers that one of them bounds.
LEMMA GreatestIs ==
    ASSUME NEW S, NEW d, d \in S, d \in Int, \A k \in S : k \in Int /\ k <= d
    PROVE  Max(S) = d
<1>1. \A k \in S : (\A e \in S : e <= k) => k = d
    <2> SUFFICES ASSUME NEW k \in S, \A e \in S : e <= k PROVE k = d
        OBVIOUS
    <2>1. d <= k /\ k <= d /\ k \in Int
        OBVIOUS
    <2> QED
        BY <2>1
<1>2. \E k \in S : \A e \in S : k >= e
    <2>1. \A e \in S : d >= e
        OBVIOUS
    <2> QED
        BY Zenon, <2>1
<1>3. PICK x : x = Max(S)
    OBVIOUS
<1>4. x \in S /\ \A e \in S : x >= e
    BY <1>2, <1>3 DEF Max
<1>5. \A e \in S : e <= x
    BY <1>4
<1> QED
    BY <1>1, <1>3, <1>4, <1>5

\* The depth of a single complete type is the most containers open at once in it.
LEMMA DepthIs ==
    ASSUME NEW s \in Seq(Chars), IsSingleCompleteType(s)
    PROVE  TypeDepth(s) = Nesting(s)
<1>0. PICK l \in Nat : l = Len(s)
    OBVIOUS
<1> DEFINE p == <<"type", 1, 0, 0>>
<1>1. /\ l > 0 /\ Scan(s)[p].end = l + 1 /\ TypeDepth(s) = Scan(s)[p].depth /\ TypeDepth(s) \in Nat
      /\ 0 \in 0 .. MaxArrayDepth /\ 0 \in 0 .. MaxStructDepth /\ 1 \in 1 .. l + 1
    BY Zenon, <1>0, SingleScan
<1>2. TypeNests(s, 1, l + 1, TypeDepth(s))
    <2>1. p \in Places(s)
        BY <1>0, <1>1, PlaceFacts
    <2>2. ScanNests(s, p)
        BY Zenon, <2>1, AllNest
    <2>3. l + 1 > 0
        OBVIOUS
    <2>4. TypeNests(s, 1, Scan(s)[p].end, Scan(s)[p].depth)
        BY Zenon, <1>1, <2>2, <2>3, TypeNestsAt
    <2> HIDE DEF p
    <2> QED
        BY Zenon, <1>1, <2>4
<1>3. (l + 1) - 1 = l
    OBVIOUS
<1> DEFINE S == {Opens(s, n) + Cardinality(ArraysAround(s, n)) : n \in 1 .. Len(s)}
<1>4. S = {HeightIn(s, 1, n) : n \in 1 .. l}
    BY Zenon, <1>0, HeightOfAll
<1>5. \A n \in 1 .. l : HeightIn(s, 1, n) \in Int
    <2> SUFFICES ASSUME NEW n \in 1 .. l PROVE HeightIn(s, 1, n) \in Int
        OBVIOUS
    <2>1. 1 \in Int /\ n \in Int /\ 1 <= 1 /\ 1 <= n
        OBVIOUS
    <2> QED
        BY <2>1, HeightApart
<1>6. /\ \A n \in 1 .. l : HeightIn(s, 1, n) <= TypeDepth(s)
      /\ \E n \in 1 .. l : HeightIn(s, 1, n) = TypeDepth(s)
    BY Zenon, <1>2, <1>3 DEF TypeNests
<1> HIDE DEF p
<1>7. TypeDepth(s) \in S /\ \A k \in S : k \in Int /\ k <= TypeDepth(s)
    <2> HIDE DEF S
    <2> QED
        BY Zenon, <1>4, <1>5, <1>6
<1>8. TypeDepth(s) \in Int
    BY <1>1
<1> HIDE DEF S
<1>9. Max(S) = TypeDepth(s)
    BY Zenon, <1>7, <1>8, GreatestIs
<1> QED
    BY Zenon, <1>9 DEF Nesting, S

\* The depth the bridge reckons for a complete type (typeDepth()), by which it refuses a
\* variant too deep in others, is the number of containers open around its innermost basic
\* type, for every alphabet and every limit.
THEOREM DepthsAreNestings == Spec => []DepthIsNesting
<1>1. sig \in Seq(Chars) => DepthIsNesting
    BY Zenon, DepthIs DEF DepthIsNesting
<1> QED
    BY <1>1, SignatureTyped, PTL
=============================================================================
