\* The shutdown ends though tools may never return, and calls settle when they do;
\* each step is one of the contract.
CONSTANTS
    Ids = {i1, i2}
    PoolThreads = 1
    MaxCalls = 2
    MaxLines = 2
SPECIFICATION FairSpec
PROPERTIES
    Terminates
    EveryCallSettles
    ImplementsContract
