\* The sentence of the README and of server.cpp, taken at its word.
CONSTANTS
    Ids = {i1, i2}
    PoolThreads = 1
    MaxCalls = 1
    MaxLines = 1
SPECIFICATION Spec
PROPERTIES
    OneResponsePerId
