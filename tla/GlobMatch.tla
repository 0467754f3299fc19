----------------------------- MODULE GlobMatch -----------------------------
(***************************************************************************)
(* globMatch() (src/core/callpolicy.cpp): the loop that matches a name     *)
(* against a pattern of the call policy, where '*' stands for any run of   *)
(* characters.  It remembers the last star only and backtracks to it.  As  *)
(* in the code, p and t count the characters behind them: the next ones    *)
(* are pattern[p + 1] and text[t + 1].                                     *)
(***************************************************************************)
EXTENDS Integers, Sequences

CONSTANTS
    Chars,        \* the characters
    Star,         \* '*'
    MaxPattern,   \* bounds on both lengths
    MaxText

ASSUME GlobAssumption ==
    /\ Star \in Chars
    /\ MaxPattern \in Nat /\ MaxText \in Nat

Words(n) == UNION {[1..k -> Chars] : k \in 0..n}

VARIABLES pattern, text, p, t, star, resume, pc, result

vars == <<pattern, text, p, t, star, resume, pc, result>>

Init ==
    /\ pattern \in Words(MaxPattern)
    /\ text \in Words(MaxText)
    /\ p = 0 /\ t = 0
    /\ star = -1 /\ resume = 0
    /\ pc = "scan" /\ result = FALSE

AtStar == p < Len(pattern) /\ pattern[p + 1] = Star
SameChar == p < Len(pattern) /\ pattern[p + 1] = text[t + 1]

\* An iteration of the first loop.
Scanning == pc = "scan" /\ t < Len(text) /\ UNCHANGED <<pattern, text>>

\* A star, which first stands for nothing.
EnterStar ==
    /\ Scanning
    /\ AtStar
    /\ star' = p /\ resume' = t
    /\ p' = p + 1
    /\ UNCHANGED <<t, pc, result>>

\* A character that matches itself.
Advance ==
    /\ Scanning
    /\ ~AtStar /\ SameChar
    /\ p' = p + 1 /\ t' = t + 1
    /\ UNCHANGED <<star, resume, pc, result>>

\* Mutant of Backtrack: the star takes no further character.
BacktrackInPlace ==
    /\ Scanning
    /\ ~AtStar /\ ~SameChar
    /\ star >= 0
    /\ p' = star + 1
    /\ t' = resume
    /\ UNCHANGED <<star, resume, pc, result>>

\* A mismatch after a star: the star takes one more character.
Backtrack ==
    /\ Scanning
    /\ ~AtStar /\ ~SameChar
    /\ star >= 0
    /\ p' = star + 1
    /\ resume' = resume + 1 /\ t' = resume + 1
    /\ UNCHANGED <<star, pc, result>>

\* A mismatch without a star.
Fail ==
    /\ Scanning
    /\ ~AtStar /\ ~SameChar
    /\ star < 0
    /\ pc' = "done" /\ result' = FALSE
    /\ UNCHANGED <<p, t, star, resume>>

\* The text is used up: the stars left stand for nothing.
SkipStar ==
    /\ pc = "scan" /\ t >= Len(text)
    /\ AtStar
    /\ p' = p + 1
    /\ UNCHANGED <<pattern, text, t, star, resume, pc, result>>

\* Mutant of Finish: the rest of the pattern is not looked at.
FinishEarly ==
    /\ pc = "scan" /\ t >= Len(text)
    /\ ~AtStar
    /\ pc' = "done" /\ result' = TRUE
    /\ UNCHANGED <<pattern, text, p, t, star, resume>>

\* The text matches when the pattern is used up too.
Finish ==
    /\ pc = "scan" /\ t >= Len(text)
    /\ ~AtStar
    /\ pc' = "done" /\ result' = (p = Len(pattern))
    /\ UNCHANGED <<pattern, text, p, t, star, resume>>

Next == EnterStar \/ Advance \/ Backtrack \/ Fail \/ SkipStar \/ Finish

Spec == Init /\ [][Next]_vars

\* A sequential loop: it keeps running.
FairSpec == Spec /\ WF_vars(Next)

-----------------------------------------------------------------------------
(* Reference: what the comment above globMatch() says. *)

\* The text cut into consecutive pieces, one for each character of the pattern:
\* the piece of k goes from c[k - 1] + 1 to c[k].
Cuts == [0..Len(pattern) -> 0..Len(text)]

\* Up to k, a star has any piece and another character the piece made of itself.
CutUpTo(c, k) ==
    /\ c[0] = 0
    /\ \A n \in 1..k : IF pattern[n] = Star
                       THEN c[n - 1] <= c[n]
                       ELSE c[n] = c[n - 1] + 1 /\ text[c[n]] = pattern[n]

FullCut(c) == CutUpTo(c, Len(pattern)) /\ c[Len(pattern)] = Len(text)

Matches == \E c \in Cuts : FullCut(c)

-----------------------------------------------------------------------------
(* Properties. *)

\* Every variable has its type, and no index leaves the pattern or the text,
\* where at() would be out of bounds.
TypeOK ==
    /\ pattern \in Seq(Chars) /\ text \in Seq(Chars)
    /\ p \in 0..Len(pattern) /\ t \in 0..Len(text)
    /\ star \in -1..(Len(pattern) - 1) /\ resume \in 0..t
    /\ pc \in {"scan", "done"} /\ result \in BOOLEAN

\* The loop decides exactly whether the pattern matches, although it forgets
\* every star but the last one.
Correct == pc = "done" => (result <=> Matches)

\* The loop ends: backtracking never visits the same place twice.
Terminates == <>(pc = "done")
=============================================================================
