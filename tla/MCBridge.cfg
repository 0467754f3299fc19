\* Three ids against two threads: a full pool with a call waiting, an id used again.
\* Plugins bring up to two tools, new ones or ones named like the built-in one.
CONSTANTS
    Ids = {i1, i2, i3}
    PoolThreads = 2
    MaxCalls = 3
    b = b  p = p
    Names = {b, p}
    Nobody = Nobody
    BuiltinNames <- OneBuiltin
    MaxPluginTools = 2
SPECIFICATION BridgeFairSpec
INVARIANTS
    FlagOwner
    Settled
    SerialResultsInOrder
    PluginCallsAlone
PROPERTIES
    BuiltinCallsSettle
\* The client stops after MaxCalls calls, and the runner is then quiet.
CHECK_DEADLOCK FALSE
