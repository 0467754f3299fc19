\* Every integer around the ranges of the seven types, as a number and as a string.
CONSTANTS
    Half <- Scaled
    ExactLimit = 20
    Step = 4
    Numbers <- AllNumbers
SPECIFICATION Spec
INVARIANTS
    SentAsMeant
    RefusedRightly
    EchoIsExact
\* A conversion is over when its result is there.
CHECK_DEADLOCK FALSE
