-------------------------- MODULE GlobMatch_proofs --------------------------
(***************************************************************************)
(* The loop of globMatch() decides its reference definition, for every     *)
(* pattern and text.                                                       *)
(*                                                                         *)
(* One direction keeps a cut of the part of the text already read; the     *)
(* other shows that no full cut is lost: one passes through (p, t), or it  *)
(* lets the last star end later.  The latter needs that every full cut     *)
(* takes as many characters as the loop since that star.                   *)
(***************************************************************************)
EXTENDS GlobMatch, TLAPS

\* The cut c passes through the place (k, n).
Through(c, k, n) == CutUpTo(c, k) /\ c[k] = n

\* What was read matches: up to (p, t), and up to the end of the last star.
Sound ==
    /\ \E c \in Cuts : Through(c, p, t)
    /\ star >= 0 => \E c \in Cuts : Through(c, star + 1, resume)

\* Every full cut takes one character for each since the last star, as long as
\* the loop over the text runs: the stars skipped afterwards are not counted.
Literal ==
    star >= 0 /\ t < Len(text) =>
        /\ pattern[star + 1] = Star
        /\ star + 1 <= p
        /\ t - resume = p - (star + 1)
        /\ \A c \in Cuts : FullCut(c) => c[p] - c[star + 1] = p - (star + 1)

\* A full cut, if there is one, is still ahead of the loop.
Complete ==
    Matches => \E c \in Cuts :
        /\ FullCut(c)
        /\ c[p] = t \/ (star >= 0 /\ t < Len(text) /\ c[star + 1] > resume)

IInv ==
    /\ TypeOK
    /\ pc = "scan" => Sound /\ Literal /\ Complete
    /\ Correct

\* A cut up to k is one up to every smaller place.
LEMMA CutShorter ==
    ASSUME NEW c, NEW k \in Nat, NEW m \in Nat, m <= k, CutUpTo(c, k)
    PROVE  CutUpTo(c, m)
BY DEF CutUpTo

\* A cut is extended by one piece.
LEMMA CutExtended ==
    ASSUME TypeOK, NEW c \in Cuts, NEW k \in Nat, k < Len(pattern), CutUpTo(c, k),
           NEW n \in 0..Len(text),
           IF pattern[k + 1] = Star THEN c[k] <= n
           ELSE n = c[k] + 1 /\ text[n] = pattern[k + 1]
    PROVE  \E d \in Cuts : Through(d, k + 1, n)
<1> DEFINE d == [c EXCEPT ![k + 1] = n]
<1>1. Len(pattern) \in Nat
    BY DEF TypeOK
<1>2. d \in Cuts
    BY <1>1 DEF Cuts
<1>3. \A j \in 0..k : d[j] = c[j]
    BY <1>1 DEF Cuts
<1>4. d[k + 1] = n
    BY <1>1 DEF Cuts
<1>5. CutUpTo(d, k + 1)
    <2>1. d[0] = 0
        BY <1>3 DEF CutUpTo
    <2> SUFFICES ASSUME NEW j \in 1..(k + 1)
                 PROVE  IF pattern[j] = Star THEN d[j - 1] <= d[j]
                        ELSE d[j] = d[j - 1] + 1 /\ text[d[j]] = pattern[j]
        BY <2>1 DEF CutUpTo
    <2>2. CASE j = k + 1
        BY <2>2, <1>3, <1>4
    <2>3. CASE j # k + 1
        <3>1. j \in 1..k /\ j - 1 \in 0..k /\ j \in 0..k
            BY <2>3
        <3> QED
            BY <3>1, <1>3 DEF CutUpTo
    <2> QED
        BY <2>2, <2>3
<1> QED
    BY <1>2, <1>4, <1>5 DEF Through

\* The pieces of a full cut, one by one.
LEMMA FullCutFacts ==
    ASSUME TypeOK, NEW c \in Cuts, FullCut(c)
    PROVE  /\ c[0] = 0 /\ c[Len(pattern)] = Len(text)
           /\ \A k \in 0..Len(pattern) : c[k] \in 0..Len(text)
           /\ \A k \in 0..(Len(pattern) - 1) :
                IF pattern[k + 1] = Star THEN c[k] <= c[k + 1]
                ELSE c[k + 1] = c[k] + 1 /\ text[c[k + 1]] = pattern[k + 1]
<1>1. Len(pattern) \in Nat
    BY DEF TypeOK
<1>2. \A k \in 0..(Len(pattern) - 1) : k + 1 \in 1..Len(pattern) /\ (k + 1) - 1 = k
    BY <1>1
<1> QED
    BY <1>1, <1>2 DEF FullCut, CutUpTo, Cuts

\* A full cut at a star, and at another character.
LEMMA FullCutAt ==
    ASSUME TypeOK, NEW c \in Cuts, FullCut(c), NEW k \in Nat, k < Len(pattern)
    PROVE  /\ c[k] \in 0..Len(text) /\ c[k + 1] \in 0..Len(text)
           /\ pattern[k + 1] = Star => c[k] <= c[k + 1]
           /\ pattern[k + 1] # Star => /\ c[k + 1] = c[k] + 1
                                      /\ text[c[k] + 1] = pattern[k + 1]
<1>1. Len(pattern) \in Nat
    BY DEF TypeOK
<1>2. k \in 0..(Len(pattern) - 1) /\ k \in 0..Len(pattern) /\ k + 1 \in 0..Len(pattern)
    BY <1>1
<1>3. IF pattern[k + 1] = Star THEN c[k] <= c[k + 1]
      ELSE c[k + 1] = c[k] + 1 /\ text[c[k + 1]] = pattern[k + 1]
    BY <1>2, FullCutFacts
<1>4. c[k] \in 0..Len(text) /\ c[k + 1] \in 0..Len(text)
    BY <1>2, FullCutFacts
<1> QED
    BY <1>3, <1>4

\* The loop starts well.
LEMMA InitInv == Init => IInv
<1> SUFFICES ASSUME Init PROVE IInv
    OBVIOUS
<1>1. pattern \in Seq(Chars) /\ text \in Seq(Chars)
    BY GlobAssumption DEF Init, Words
<1>2. Len(pattern) \in Nat /\ Len(text) \in Nat
    BY <1>1
<1>3. TypeOK
    <2>1. 0 \in 0..Len(pattern) /\ 0 \in 0..Len(text) /\ -1 \in -1..(Len(pattern) - 1)
        BY <1>2
    <2>2. resume \in 0..t
        BY DEF Init
    <2>3. p = 0 /\ t = 0 /\ star = -1 /\ pc = "scan" /\ result \in BOOLEAN
        BY DEF Init
    <2> QED
        BY <1>1, <2>1, <2>2, <2>3 DEF TypeOK
<1>4. Sound
    <2> DEFINE c == [k \in 0..Len(pattern) |-> 0]
    <2>1. c \in Cuts
        BY <1>2 DEF Cuts
    <2>2. Through(c, p, t)
        BY <1>2 DEF Init, Through, CutUpTo
    <2> QED
        BY <2>1, <2>2 DEF Sound, Init
<1>5. Literal
    BY DEF Init, Literal
<1>6. Complete
    BY <1>3, FullCutFacts DEF Init, Complete, Matches
<1> QED
    BY <1>3, <1>4, <1>5, <1>6 DEF Init, IInv, Correct

\* The pattern and the text do not change: what the next invariant says.
LEMMA Stable ==
    ASSUME pattern' = pattern, text' = text
    PROVE  /\ Sound' <=>
                /\ \E c \in Cuts : Through(c, p', t')
                /\ star' >= 0 => \E c \in Cuts : Through(c, star' + 1, resume')
           /\ Literal' <=> (star' >= 0 /\ t' < Len(text) =>
                /\ pattern[star' + 1] = Star
                /\ star' + 1 <= p'
                /\ t' - resume' = p' - (star' + 1)
                /\ \A c \in Cuts : FullCut(c) =>
                                    c[p'] - c[star' + 1] = p' - (star' + 1))
           /\ Complete' <=> (Matches => \E c \in Cuts :
                /\ FullCut(c)
                /\ \/ c[p'] = t'
                   \/ star' >= 0 /\ t' < Len(text) /\ c[star' + 1] > resume')
           /\ Matches' <=> Matches
<1>1. Cuts' = Cuts
    BY DEF Cuts
<1>2. ASSUME NEW c \in Cuts PROVE FullCut(c)' <=> FullCut(c)
    BY DEF FullCut, CutUpTo
<1>3. Matches' <=> Matches
    BY <1>1, <1>2 DEF Matches
<1>4. ASSUME NEW c \in Cuts PROVE Through(c, p, t)' <=> Through(c, p', t')
    BY DEF Through, CutUpTo
<1>5. ASSUME NEW c \in Cuts
      PROVE  Through(c, star + 1, resume)' <=> Through(c, star' + 1, resume')
    BY DEF Through, CutUpTo
<1>6. Sound' <=>
        /\ \E c \in Cuts : Through(c, p', t')
        /\ star' >= 0 => \E c \in Cuts : Through(c, star' + 1, resume')
    BY <1>1, <1>4, <1>5 DEF Sound
<1>7. Literal' <=> (star' >= 0 /\ t' < Len(text) =>
                /\ pattern[star' + 1] = Star
                /\ star' + 1 <= p'
                /\ t' - resume' = p' - (star' + 1)
                /\ \A c \in Cuts : FullCut(c) =>
                                    c[p'] - c[star' + 1] = p' - (star' + 1))
    BY <1>1, <1>2 DEF Literal
<1>8. Complete' <=> (Matches => \E c \in Cuts :
                /\ FullCut(c)
                /\ \/ c[p'] = t'
                   \/ star' >= 0 /\ t' < Len(text) /\ c[star' + 1] > resume')
    BY <1>1, <1>2, <1>3 DEF Complete
<1> QED
    BY <1>3, <1>6, <1>7, <1>8

\* A piece made of a star may be longer.
LEMMA StarStretches ==
    ASSUME TypeOK, NEW k \in Nat, k < Len(pattern), pattern[k + 1] = Star,
           NEW n \in 0..Len(text), NEW m \in 0..Len(text), n <= m,
           NEW c \in Cuts, Through(c, k + 1, n)
    PROVE  \E d \in Cuts : Through(d, k + 1, m)
<1>1. Len(pattern) \in Nat /\ k \in 0..Len(pattern)
    BY DEF TypeOK
<1>2. c[k] \in 0..Len(text)
    BY <1>1 DEF Cuts
<1>3. CutUpTo(c, k)
    BY CutShorter, k <= k + 1 DEF Through
<1>4. c[k] <= c[k + 1]
    BY k + 1 \in 1..(k + 1), (k + 1) - 1 = k DEF Through, CutUpTo
<1>5. c[k] <= m
    BY <1>2, <1>4 DEF Through
<1> QED
    BY <1>3, <1>5, CutExtended

\* A star is entered: it stands for nothing, or more of a full cut lies in it.
LEMMA EnterStarInv == IInv /\ EnterStar => IInv'
<1> SUFFICES ASSUME IInv, EnterStar PROVE IInv'
    OBVIOUS
<1> USE DEF Scanning, EnterStar, AtStar
<1>0. /\ TypeOK /\ Sound /\ Literal /\ Complete
      /\ Len(pattern) \in Nat /\ Len(text) \in Nat /\ p \in Nat /\ t \in Nat
    BY DEF IInv, TypeOK
<1>1. TypeOK'
    BY <1>0 DEF TypeOK
<1>2. Sound'
    <2>1. PICK c \in Cuts : Through(c, p, t)
        BY <1>0 DEF Sound
    <2>2. \E d \in Cuts : Through(d, p + 1, t)
        BY <1>0, <2>1, CutExtended DEF Through, TypeOK
    <2> QED
        BY <1>0, <2>2, Stable
<1>3. Literal'
    BY <1>0, Stable DEF Cuts
<1>4. Complete'
    <2> SUFFICES ASSUME Matches
                 PROVE  \E c \in Cuts : /\ FullCut(c)
                                        /\ c[p'] = t' \/ c[star' + 1] > resume'
        BY <1>0, Stable
    <2>1. PICK c \in Cuts : /\ FullCut(c)
                            /\ c[p] = t \/ (star >= 0 /\ c[star + 1] > resume)
        BY <1>0 DEF Complete
    <2>2. c[p] >= t
        <3>1. CASE c[p] = t
            BY <3>1, <1>0
        <3>2. CASE star >= 0 /\ c[star + 1] > resume
            <4>1. c[p] - c[star + 1] = p - (star + 1) /\ t - resume = p - (star + 1)
                BY <3>2, <2>1, <1>0 DEF Literal
            <4>2. c[p] \in Int /\ c[star + 1] \in Int /\ resume \in Int /\ star \in Int
                BY <3>2, <1>0 DEF Cuts, TypeOK, Literal
            <4> QED
                BY <3>2, <4>1, <4>2, <1>0
        <3> QED
            BY <2>1, <3>1, <3>2
    <2>3. c[p] <= c[p + 1] /\ c[p] \in Nat /\ c[p + 1] \in Nat
        <3>1. p < Len(pattern) /\ pattern[p + 1] = Star
            OBVIOUS
        <3> HIDE DEF Scanning, EnterStar, AtStar
        <3> QED
            BY <2>1, <3>1, <1>0, FullCutAt
    <2> QED
        BY <2>1, <2>2, <2>3, <1>0
<1> QED
    BY <1>1, <1>2, <1>3, <1>4, <1>0 DEF IInv, Correct, TypeOK

\* A character that matches itself: every cut takes it too.
LEMMA AdvanceInv == IInv /\ Advance => IInv'
<1> SUFFICES ASSUME IInv, Advance PROVE IInv'
    OBVIOUS
<1> USE DEF Scanning, Advance, AtStar, SameChar
<1>0. /\ TypeOK /\ Sound /\ Literal /\ Complete
      /\ Len(pattern) \in Nat /\ Len(text) \in Nat /\ p \in Nat /\ t \in Nat
    BY DEF IInv, TypeOK
<1>1. TypeOK'
    BY <1>0 DEF TypeOK
<1>2. Sound'
    <2>1. PICK c \in Cuts : Through(c, p, t)
        BY <1>0 DEF Sound
    <2>2. \E d \in Cuts : Through(d, p + 1, t + 1)
        <3>1. /\ p < Len(pattern) /\ pattern[p + 1] # Star
              /\ t < Len(text) /\ text[t + 1] = pattern[p + 1]
            OBVIOUS
        <3>2. CutUpTo(c, p) /\ c[p] = t /\ t + 1 \in 0..Len(text)
            BY <2>1, <3>1, <1>0 DEF Through
        <3> HIDE DEF Scanning, Advance, AtStar, SameChar
        <3> QED
            BY <3>1, <3>2, <1>0, CutExtended
    <2> QED
        BY <1>0, <2>2, Stable DEF Sound
<1>3. ASSUME NEW c \in Cuts, FullCut(c) PROVE c[p + 1] = c[p] + 1 /\ c[p] \in Nat
    BY <1>3, <1>0, FullCutAt
<1>4. Literal'
    <2> SUFFICES ASSUME star >= 0, t + 1 < Len(text)
                 PROVE  /\ pattern[star + 1] = Star
                        /\ star + 1 <= p + 1
                        /\ (t + 1) - resume = (p + 1) - (star + 1)
                        /\ \A c \in Cuts : FullCut(c) =>
                                (c[p + 1]) - c[star + 1] = (p + 1) - (star + 1)
        BY <1>0, Stable
    <2>1. star \in Nat /\ star + 1 \in 0..Len(pattern) /\ resume \in Nat
        BY <1>0 DEF TypeOK
    <2>2. ASSUME NEW c \in Cuts, FullCut(c)
          PROVE  (c[p + 1]) - c[star + 1] = (p + 1) - (star + 1)
        <3>1. c[star + 1] \in Nat
            BY <2>1, <2>2 DEF Cuts
        <3>2. c[p] - c[star + 1] = p - (star + 1)
            BY <2>2, <1>0 DEF Literal
        <3>3. c[p + 1] = c[p] + 1 /\ c[p] \in Nat
            BY <2>2, <1>3
        <3>4. p \in Nat /\ star \in Nat
            BY <2>1, <1>0
        <3> HIDE DEF Advance, Scanning, AtStar, SameChar
        <3> QED
            BY <3>1, <3>2, <3>3, <3>4
    <2>3. pattern[star + 1] = Star /\ star + 1 <= p /\ t - resume = p - (star + 1)
        BY <1>0 DEF Literal
    <2>4. star + 1 <= p + 1 /\ (t + 1) - resume = (p + 1) - (star + 1)
        <3> HIDE DEF Advance, Scanning, AtStar, SameChar
        <3> QED
            BY <2>1, <2>3, <1>0
    <2> HIDE DEF Advance, Scanning, AtStar, SameChar
    <2> QED
        BY <2>2, <2>3, <2>4
<1>5. Complete'
    <2> SUFFICES ASSUME Matches
                 PROVE  \E c \in Cuts :
                            /\ FullCut(c)
                            /\ \/ c[p + 1] = t + 1
                               \/ star >= 0 /\ t + 1 < Len(text) /\ c[star + 1] > resume
        BY <1>0, Stable
    <2>1. PICK c \in Cuts : /\ FullCut(c)
                            /\ c[p] = t \/ (star >= 0 /\ c[star + 1] > resume)
        BY <1>0 DEF Complete
    <2>2. CASE t + 1 < Len(text) \/ c[p] = t
        BY <2>1, <2>2, <1>3, <1>0
    <2>3. ASSUME star >= 0, c[star + 1] > resume, t + 1 >= Len(text) PROVE FALSE
        <3>1. c[p] - c[star + 1] = p - (star + 1) /\ t - resume = p - (star + 1)
            BY <2>1, <2>3, <1>0 DEF Literal
        <3>2. /\ c[p + 1] \in 0..Len(text) /\ c[star + 1] \in Nat /\ c[p] \in Nat
              /\ resume \in Nat /\ star \in Nat
            BY <2>3, <1>0 DEF Cuts, TypeOK
        <3>3. c[p + 1] = c[p] + 1
            BY <2>1, <1>3
        <3>4. c[p] > t
            BY <2>3, <3>1, <3>2, <1>0
        <3> QED
            BY <2>3, <3>2, <3>3, <3>4, <1>0
    <2> QED
        BY <2>1, <2>2, <2>3, <1>0
<1> QED
    BY <1>1, <1>2, <1>4, <1>5, <1>0 DEF IInv, Correct, TypeOK

\* No full cut passes through the place of a mismatch.
LEMMA Mismatch ==
    ASSUME TypeOK, Scanning, ~AtStar, ~SameChar, NEW c \in Cuts, FullCut(c)
    PROVE  c[p] # t
<1> SUFFICES ASSUME c[p] = t PROVE FALSE
    OBVIOUS
<1>1. Len(pattern) \in Nat /\ Len(text) \in Nat /\ p \in Nat /\ t \in Nat /\ t < Len(text)
    BY DEF TypeOK, Scanning
<1>2. CASE p = Len(pattern)
    BY <1>1, <1>2, FullCutFacts
<1>3. CASE p < Len(pattern)
    <2>1. text[t + 1] = pattern[p + 1]
        BY <1>1, <1>3, FullCutAt DEF AtStar
    <2> QED
        BY <2>1, <1>3 DEF SameChar
<1> QED
    BY <1>1, <1>2, <1>3 DEF TypeOK

\* A mismatch after a star: the star of every full cut is longer.
LEMMA BacktrackInv == IInv /\ Backtrack => IInv'
<1> SUFFICES ASSUME IInv, Backtrack PROVE IInv'
    OBVIOUS
<1> USE DEF Backtrack
<1>0. /\ TypeOK /\ Sound /\ Literal /\ Complete
      /\ Len(pattern) \in Nat /\ Len(text) \in Nat /\ p \in Nat /\ t \in Nat
      /\ t < Len(text) /\ resume \in Nat /\ star \in Nat /\ resume <= t
      /\ pattern' = pattern /\ text' = text
    BY DEF IInv, TypeOK, Scanning
<1>1. star < Len(pattern) /\ star + 1 \in 0..Len(pattern)
    BY <1>0 DEF TypeOK
<1>2. TypeOK'
    BY <1>0, <1>1 DEF TypeOK
<1>3. Sound'
    <2>1. PICK c \in Cuts : Through(c, star + 1, resume)
        BY <1>0 DEF Sound
    <2>2. pattern[star + 1] = Star
        BY <1>0 DEF Literal
    <2>3. resume \in 0..Len(text) /\ resume + 1 \in 0..Len(text) /\ resume <= resume + 1
        BY <1>0
    <2>4. \E d \in Cuts : Through(d, star + 1, resume + 1)
        BY <1>0, <1>1, <2>1, <2>2, <2>3, StarStretches
    <2> QED
        BY <1>0, <2>4, Stable
<1>4. Literal'
    <2>1. \A c \in Cuts : c[star + 1] \in Nat
        BY <1>1 DEF Cuts
    <2> QED
        BY <1>0, <2>1, Stable DEF Literal
<1>5. Complete'
    <2> SUFFICES ASSUME Matches
                 PROVE  \E c \in Cuts :
                            /\ FullCut(c)
                            /\ \/ c[star + 1] = resume + 1
                               \/ resume + 1 < Len(text) /\ c[star + 1] > resume + 1
        BY <1>0, Stable
    <2>1. PICK c \in Cuts : /\ FullCut(c)
                            /\ c[p] = t \/ (star >= 0 /\ c[star + 1] > resume)
        BY <1>0 DEF Complete
    <2>2. c[star + 1] > resume /\ c[star + 1] \in 0..Len(text)
        BY <2>1, <1>0, <1>1, Mismatch DEF Cuts
    <2> QED
        BY <2>1, <2>2, <1>0
<1> QED
    BY <1>2, <1>3, <1>4, <1>5, <1>0 DEF IInv, Correct, TypeOK, Scanning

\* A mismatch without a star: there is no full cut.
LEMMA FailInv == IInv /\ Fail => IInv'
<1> SUFFICES ASSUME IInv, Fail PROVE IInv'
    OBVIOUS
<1> USE DEF Fail
<1>0. /\ TypeOK /\ Complete /\ pattern' = pattern /\ text' = text
    BY DEF IInv, Scanning
<1>1. TypeOK'
    BY <1>0 DEF TypeOK
<1>2. ~Matches
    BY <1>0, Mismatch DEF Complete, TypeOK
<1>3. Correct'
    BY <1>0, <1>2, Stable DEF Correct
<1> QED
    BY <1>1, <1>3 DEF IInv

\* A star left at the end stands for nothing.
LEMMA SkipStarInv == IInv /\ SkipStar => IInv'
<1> SUFFICES ASSUME IInv, SkipStar PROVE IInv'
    OBVIOUS
<1> USE DEF SkipStar, AtStar
<1>0. /\ TypeOK /\ Sound /\ Literal /\ Complete
      /\ Len(pattern) \in Nat /\ Len(text) \in Nat /\ p \in Nat /\ t \in Nat
      /\ t = Len(text)
    BY DEF IInv, TypeOK
<1>1. TypeOK'
    BY <1>0 DEF TypeOK
<1>2. Sound'
    <2>1. PICK c \in Cuts : Through(c, p, t)
        BY <1>0 DEF Sound
    <2>2. \E d \in Cuts : Through(d, p + 1, t)
        BY <1>0, <2>1, CutExtended DEF Through, TypeOK
    <2> QED
        BY <1>0, <2>2, Stable DEF Sound
<1>3. Literal'
    BY <1>0, Stable
<1>4. Complete'
    <2> SUFFICES ASSUME Matches
                 PROVE  \E c \in Cuts : FullCut(c) /\ c[p + 1] = t
        BY <1>0, Stable
    <2>1. PICK c \in Cuts : FullCut(c) /\ c[p] = t
        BY <1>0 DEF Complete
    <2>2. c[p] <= c[p + 1] /\ c[p] \in 0..Len(text) /\ c[p + 1] \in 0..Len(text)
        BY <2>1, <1>0, FullCutAt
    <2> QED
        BY <2>1, <2>2, <1>0
<1> QED
    BY <1>1, <1>2, <1>3, <1>4, <1>0 DEF IInv, Correct, TypeOK

\* What is left of the pattern starts with no star: it must be nothing.
LEMMA FinishInv == IInv /\ Finish => IInv'
<1> SUFFICES ASSUME IInv, Finish PROVE IInv'
    OBVIOUS
<1>0. /\ TypeOK /\ Sound /\ Complete
      /\ Len(pattern) \in Nat /\ Len(text) \in Nat /\ p \in Nat
      /\ t = Len(text) /\ ~AtStar /\ pattern' = pattern /\ text' = text
    BY DEF IInv, TypeOK, Finish
<1>1. TypeOK'
    BY <1>0 DEF TypeOK, Finish
<1>2. ASSUME p = Len(pattern) PROVE Matches
    BY <1>0, <1>2 DEF Sound, Through, Matches, FullCut
<1>3. ASSUME Matches PROVE p = Len(pattern)
    <2>1. PICK c \in Cuts : FullCut(c) /\ c[p] = Len(text)
        BY <1>0, <1>3 DEF Complete
    <2> SUFFICES ASSUME p < Len(pattern) PROVE FALSE
        BY <1>0 DEF TypeOK
    <2>2. c[p + 1] = Len(text) + 1 /\ c[p + 1] \in 0..Len(text)
        BY <1>0, <2>1, FullCutAt DEF AtStar
    <2> QED
        BY <1>0, <2>2
<1>4. Correct'
    BY <1>0, <1>2, <1>3, Stable DEF Correct, Finish
<1> QED
    BY <1>1, <1>4 DEF IInv, Finish

\* The invariant of the loop is inductive.
LEMMA StepInv == IInv /\ [Next]_vars => IInv'
<1> SUFFICES ASSUME IInv, [Next]_vars PROVE IInv'
    OBVIOUS
<1>1. CASE UNCHANGED vars
    BY <1>1, Stable DEF vars, IInv, TypeOK, Sound, Literal, Complete, Correct
<1> QED
    BY <1>1, EnterStarInv, AdvanceInv, BacktrackInv, FailInv, SkipStarInv, FinishInv
    DEF Next

\* No index of globMatch() is ever out of bounds.
THEOREM GlobTypes == Spec => []TypeOK
<1>1. IInv => TypeOK
    BY DEF IInv
<1> QED
    BY <1>1, InitInv, StepInv, PTL DEF Spec

\* Whatever globMatch() answers is what the pattern means, for every pattern and
\* text: forgetting all stars but the last one loses no match.
THEOREM GlobMatchIsCorrect == Spec => []Correct
<1>1. IInv => Correct
    BY DEF IInv
<1> QED
    BY <1>1, InitInv, StepInv, PTL DEF Spec
=============================================================================
