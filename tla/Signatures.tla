----------------------------- MODULE Signatures -----------------------------
(***************************************************************************)
(* The scanner of D-Bus signatures (src/dbus/typecoercer.cpp: scanType,    *)
(* splitTypes, typeDepth), against the grammar of signatures.  A signature *)
(* is a sequence of characters; the limits are parameters.                 *)
(***************************************************************************)
EXTENDS Integers, SequencesExt

CONSTANTS
    Basic,               \* the characters of the basic types
    MaxArrayDepth,       \* kMaxArrayDepth
    MaxStructDepth,      \* kMaxStructDepth
    MaxSignatureLength   \* kMaxSignatureLength

ASSUME SignaturesAssumption ==
    /\ Basic \cap {"v", "a", "(", ")", "{", "}", "end"} = {}
    /\ MaxArrayDepth \in Nat /\ MaxStructDepth \in Nat /\ MaxSignatureLength \in Nat

Chars == Basic \cup {"v", "a", "(", ")", "{", "}"}

At(sig, pos) == IF pos <= Len(sig) THEN sig[pos] ELSE "end"

\* A TypeScan: where the type ends (0 when there is none) and how deep it nests.
Malformed == [end |-> 0, depth |-> 0]

\* Mutant of Entry: the dict entry does not count as a struct.
EntryUncounted(scan, sig, pos, arrays, structs) ==
    LET value == scan[<<"type", pos + 1, arrays, structs>>] IN
    IF At(sig, pos) \in Basic /\ value.end > 0 /\ At(sig, value.end) = "}"
    THEN [end |-> value.end + 1, depth |-> value.depth + 2]
    ELSE Malformed

\* The key at pos, the value and the brace of a dict entry.
Entry(scan, sig, pos, arrays, structs) ==
    LET value == scan[<<"type", pos + 1, arrays, structs + 1>>] IN
    IF structs < MaxStructDepth /\ At(sig, pos) \in Basic
        /\ value.end > 0 /\ At(sig, value.end) = "}"
    THEN [end |-> value.end + 1, depth |-> value.depth + 2]
    ELSE Malformed

\* Mutant of Element: the containers inside the element are forgotten.
ElementDepthLost(scan, pos, arrays, structs) ==
    LET element == scan[<<"type", pos, arrays, structs>>] IN
    IF element.end = 0 THEN Malformed ELSE [element EXCEPT !.depth = 1]

\* The element of an array.
Element(scan, pos, arrays, structs) ==
    LET element == scan[<<"type", pos, arrays, structs>>] IN
    IF element.end = 0 THEN Malformed ELSE [element EXCEPT !.depth = @ + 1]

\* The complete type that starts at pos, inside that many arrays and structs.
ScanType(scan, sig, pos, arrays, structs) ==
    CASE At(sig, pos) \in Basic \cup {"v"} -> [end |-> pos + 1, depth |-> 0]
      [] At(sig, pos) = "a" /\ arrays < MaxArrayDepth ->
            IF At(sig, pos + 1) = "{" THEN Entry(scan, sig, pos + 2, arrays + 1, structs)
            ELSE Element(scan, pos + 1, arrays + 1, structs)
      [] At(sig, pos) = "(" /\ structs < MaxStructDepth /\ At(sig, pos + 1) # ")" ->
            scan[<<"fields", pos + 1, arrays, structs + 1>>]
      [] OTHER -> Malformed

\* The fields of a struct from pos on, and its end.
ScanFields(scan, sig, pos, arrays, structs) ==
    LET field == scan[<<"type", pos, arrays, structs>>]
        others == scan[<<"fields", field.end, arrays, structs>>]
    IN  IF At(sig, pos) = ")" THEN [end |-> pos + 1, depth |-> 1]
        ELSE IF field.end = 0 \/ others.end = 0 THEN Malformed
        ELSE [end |-> others.end, depth |-> Max({field.depth + 1, others.depth})]

\* What is scanned: a type or the fields of a struct, from a place of sig on, inside
\* that many arrays and structs.
Places(sig) ==
    {"type", "fields"} \X (1 .. Len(sig) + 1) \X (0 .. MaxArrayDepth) \X (0 .. MaxStructDepth)

ScanAt(scan, sig, p) ==
    IF p[1] = "type" THEN ScanType(scan, sig, p[2], p[3], p[4])
    ELSE ScanFields(scan, sig, p[2], p[3], p[4])

\* scanType() of every place in sig, and its loop over the fields of a struct.
Scan(sig) == LET scan[p \in Places(sig)] == ScanAt(scan, sig, p) IN scan

\* The complete type of sig that starts at pos.
TypeAt(sig, pos) == Scan(sig)[<<"type", pos, 0, 0>>]

\* The loop of splitTypes() where it is: the next type, in a text that is left.
SplitNext(sig, loop) ==
    LET end == TypeAt(sig, loop.next).end IN
    IF loop.next \notin 1 .. Len(sig) THEN loop
    ELSE IF end = 0 THEN [next |-> 0, types |-> <<>>]
    ELSE [next |-> end, types |-> Append(loop.types, SubSeq(sig, loop.next, end - 1))]

\* The loop after n types: where it is, 0 when a type was malformed.
Splits(sig) ==
    LET after[n \in Nat] ==
            IF n = 0 THEN [next |-> 1, types |-> <<>>] ELSE SplitNext(sig, after[n - 1])
    IN  after

\* The complete types of sig; none when it is malformed or beyond the limits.
SplitTypes(sig) ==
    IF Len(sig) <= MaxSignatureLength THEN Splits(sig)[Len(sig)].types ELSE <<>>

TypeDepth(sig) == TypeAt(sig, 1).depth

IsSingleCompleteType(sig) == Len(SplitTypes(sig)) = 1

-----------------------------------------------------------------------------
(* The grammar, as the D-Bus specification states it: whether s is one       *)
(* complete type, or a list of them, with that many nested arrays and        *)
(* structs at most.                                                          *)

IsTypeIn(grammar, s, arrays, structs) ==
    \/ Len(s) = 1 /\ s[1] \in Basic \cup {"v"}
    \/ /\ Len(s) > 1 /\ s[1] = "a" /\ arrays > 0
       /\ grammar[<<"type", Tail(s), arrays - 1, structs>>]
    \/ /\ Len(s) > 4 /\ s[1] = "a" /\ s[2] = "{" /\ Last(s) = "}"
       /\ arrays > 0 /\ structs > 0 /\ s[3] \in Basic
       /\ grammar[<<"type", SubSeq(s, 4, Len(s) - 1), arrays - 1, structs - 1>>]
    \/ /\ Len(s) > 2 /\ s[1] = "(" /\ Last(s) = ")" /\ structs > 0
       /\ grammar[<<"list", SubSeq(s, 2, Len(s) - 1), arrays, structs - 1>>]

IsListIn(grammar, s, arrays, structs) ==
    \/ s = <<>>
    \/ \E n \in 1 .. Len(s) :
        /\ grammar[<<"type", SubSeq(s, 1, n), arrays, structs>>]
        /\ grammar[<<"list", SubSeq(s, n + 1, Len(s)), arrays, structs>>]

\* What is judged: a text to be a type, or a list of them.
Phrases == {"type", "list"} \X Seq(Chars) \X Nat \X Nat

Judge(grammar, x) ==
    IF x[1] = "type" THEN IsTypeIn(grammar, x[2], x[3], x[4])
    ELSE IsListIn(grammar, x[2], x[3], x[4])

Grammar[x \in Phrases] == Judge(Grammar, x)

IsType(s, arrays, structs) == Grammar[<<"type", s, arrays, structs>>]

InGrammar(s) == Grammar[<<"list", s, MaxArrayDepth, MaxStructDepth>>]

\* The structs and dict entries still open after position n.
Opens(s, n) ==
    Cardinality({i \in 1..n : s[i] \in {"(", "{"}})
        - Cardinality({i \in 1..n : s[i] \in {")", "}"}})

\* The arrays around position n: those whose element, a complete type, covers it.
ArraysAround(s, n) ==
    {i \in 1..(n - 1) :
        s[i] = "a" /\ \E m \in n..Len(s) : IsType(SubSeq(s, i, m), Len(s), Len(s))}

\* The most containers open at once in a well-formed signature.
Nesting(s) == Max({Opens(s, n) + Cardinality(ArraysAround(s, n)) : n \in 1..Len(s)})
=============================================================================
