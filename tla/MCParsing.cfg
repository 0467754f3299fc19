\* Every sequence of up to eight characters over seven; the scaled limits are the
\* most an array and a struct may nest, so that each of them is met and passed.
\* Documents of ten tokens hold two interfaces with a method each, one method
\* of three arguments, or one of two next to a child node.  Rules of eight characters hold a unique
\* name as their service.
CONSTANTS
    Basic = {"y"}
    MaxArrayDepth = 2
    MaxStructDepth = 1
    MaxSignatureLength = 7
    MaxLength = 8
    MaxTokens = 10
    MaxRule = 8
    NoName = NoName
    InterfaceNames = {"a", "b"}
    MethodNames = {"m", "n"}
    Args <- MCArgs
    Properties <- MCProperties
    Questions <- MCQuestions
SPECIFICATION Spec
INVARIANTS
    SplitsByGrammar
    DepthIsNesting
    ResolvesAsDeclared
    RulesAsWritten
\* A text is written to its bound.
CHECK_DEADLOCK FALSE
