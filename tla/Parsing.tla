------------------------------- MODULE Parsing -------------------------------
(***************************************************************************)
(* The texts that the program takes apart: signatures (Signatures),        *)
(* introspection documents (Introspection) and rules of the policy         *)
(* (Patterns).  A behaviour writes one of them, character by character or  *)
(* token by token, so that the properties speak of every text and of every *)
(* first part of it.                                                       *)
(***************************************************************************)
EXTENDS Signatures, Introspection, Patterns

CONSTANTS
    MaxLength,    \* bound: length of the signatures
    MaxRule       \* bound: length of the rules

VARIABLES
    sig,    \* a signature: any sequence of characters
    rule    \* the text of a rule

vars == <<sig, rule, docVars>>

\* What a rule is written with: the separators, and any other character.
RuleChars == {":", ".", "x"}

Init == sig = <<>> /\ rule = <<>> /\ DocInit

WriteSignature ==
    /\ doc = <<>> /\ rule = <<>> /\ Len(sig) < MaxLength
    /\ \E c \in Chars : sig' = Append(sig, c)
    /\ UNCHANGED <<rule, docVars>>

WriteRule ==
    /\ sig = <<>> /\ doc = <<>> /\ Len(rule) < MaxRule
    /\ \E c \in RuleChars : rule' = Append(rule, c)
    /\ UNCHANGED <<sig, docVars>>

WriteDocument ==
    /\ sig = <<>> /\ rule = <<>>
    /\ DocNext
    /\ UNCHANGED <<sig, rule>>

Next == WriteSignature \/ WriteRule \/ WriteDocument

Spec == Init /\ [][Next]_vars

-----------------------------------------------------------------------------
(* Properties of the scanner of signatures. *)

\* The scanner accepts the signatures of the grammar within the limits, neither
\* more (the bus would drop the connection) nor fewer, and splits them into
\* complete types whose concatenation is the signature.
SplitsByGrammar ==
    LET types == SplitTypes(sig) IN
    sig # <<>> =>
        /\ types # <<>> <=> Len(sig) <= MaxSignatureLength /\ InGrammar(sig)
        /\ types # <<>> => FlattenSeq(types) = sig
        /\ \A t \in ToSet(types) : IsType(t, MaxArrayDepth, MaxStructDepth)

\* The depth of a type is the number of containers open around its innermost
\* basic type.
DepthIsNesting ==
    IsSingleCompleteType(sig) => TypeDepth(sig) = Nesting(sig)

-----------------------------------------------------------------------------
(* Property of the rules. *)

\* A ':' at c and a '.' at d cut text into a service, an interface and a method,
\* none of them empty: a method has no separator in it and an interface no colon.
CutAt(text, c, d) ==
    LET service == SubSeq(text, 1, c - 1)
        interface == SubSeq(text, c + 1, d - 1)
        method == SubSeq(text, d + 1, Len(text))
    IN  /\ text = Rule(service, interface, method)
        /\ <<>> \notin {service, interface, method}
        /\ ":" \notin ToSet(interface) \cup ToSet(method)
        /\ "." \notin ToSet(method)

Readable(text) == \E c, d \in 1 .. Len(text) : CutAt(text, c, d)

Sound == Rule(<<"x">>, <<"x">>, <<"x">>)

\* A rule is taken exactly when it can be read as SERVICE:INTERFACE.METHOD, and
\* as nothing but what was written, unique names included; and one rule that
\* cannot, wherever it stands among sound ones, leaves none of them in force.
RulesAsWritten ==
    LET pattern == ParsePattern(rule)
        before == [deny |-> <<>>, allow |-> <<>>, defaultDeny |-> FALSE]
        given(deny, allow) == [deny |-> deny, allow |-> allow, defaultDeny |-> TRUE]
    IN  rule # <<>> =>
        /\ pattern # NoPattern <=> Readable(rule)
        /\ \A c, d \in 1 .. Len(rule) : CutAt(rule, c, d) =>
                /\ Len(pattern.service) = c - 1
                /\ Rule(pattern.service, pattern.interface, pattern.method) = rule
                /\ Len(pattern.method) = Len(rule) - d
        /\ \A options \in {given(<<Sound, rule>>, <<Sound>>),
                            given(<<Sound>>, <<rule, Sound>>)} :
                Configure(before, options) # before <=> Readable(rule)
=============================================================================
