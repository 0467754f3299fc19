\* Every reply of up to five elements, and maps of two entries inside a structure.
CONSTANTS
    MaxElements = 5
    Replies <- Short
SPECIFICATION ReplyFairSpec
INVARIANTS
    KeepsTheRest
PROPERTIES
    Terminates
\* Reading stops at the end of the reply.
CHECK_DEADLOCK FALSE
