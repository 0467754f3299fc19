\* Every pattern of up to four characters against every text of up to four.
CONSTANTS
    Chars = {star, a, b}
    Star = star
    MaxPattern = 4
    MaxText = 4
SPECIFICATION FairSpec
INVARIANTS
    Correct
PROPERTIES
    Terminates
\* The loop stops when it has decided.
CHECK_DEADLOCK FALSE
