------------------------------- MODULE Patterns -------------------------------
(***************************************************************************)
(* How the rules of the command line become the patterns of CallPolicy:    *)
(* parsePattern() and configure() of src/core/callpolicy.cpp.  A rule is   *)
(* SERVICE:INTERFACE.METHOD; the service may be a unique name (:1.5),      *)
(* which holds both separators itself.                                     *)
(***************************************************************************)
EXTENDS Integers, SequencesExt

NoPattern == [service |-> <<>>, interface |-> <<>>, method |-> <<>>]

\* text.lastIndexOf(c), counted from 1; 0 when there is none.
LastIndexOf(text, c) == Max({0} \cup {i \in 1 .. Len(text) : text[i] = c})

\* Mutant of ColonOf: the first ':' ends the service.
FirstColon(text) ==
    IF ":" \in ToSet(text) THEN Min({i \in 1 .. Len(text) : text[i] = ":"}) ELSE 0

\* The end of the service.
ColonOf(text) == LastIndexOf(text, ":")

\* parsePattern(): the pattern, or NoPattern when it returns false.
ParsePattern(text) ==
    LET colon == ColonOf(text)
        dot == LastIndexOf(text, ".")
    IN  IF colon <= 1 \/ dot <= colon + 1 \/ dot = Len(text) THEN NoPattern
        ELSE [service   |-> SubSeq(text, 1, colon - 1),
              interface |-> SubSeq(text, colon + 1, dot - 1),
              method    |-> SubSeq(text, dot + 1, Len(text))]

\* parseAll(), when every text is valid.
ParseAll(texts) == [n \in 1 .. Len(texts) |-> ParsePattern(texts[n])]

\* The first text that does not parse ends configure().
IsValid(texts) == NoPattern \notin ToSet(ParseAll(texts))

\* configure(): what the policy is afterwards.  It returns FALSE, and changes
\* nothing, unless every rule parses.
Configure(policy, options) ==
    IF IsValid(options.deny) /\ IsValid(options.allow)
    THEN [options EXCEPT !.deny = ParseAll(@), !.allow = ParseAll(@)]
    ELSE policy

\* What a rule looks like.
Rule(service, interface, method) == service \o <<":">> \o interface \o <<".">> \o method
=============================================================================
