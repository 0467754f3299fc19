\* Two connections, two well-known names, two interfaces, one change of the bus; services
\* may never answer.
CONSTANTS
    kwin = kwin  other = other  c1 = c1  c2 = c2  i1 = i1  i2 = i2  call = call
    Connections = {c1, c2}
    WellKnown = {kwin, other}
    Interfaces = {i1, i2}
    Methods = {call}
    NoInterface = NoInterface
    NoOwner = NoOwner
    PolicyChoices <- Chosen
    MaxChanges = 1
SPECIFICATION FairSpec
INVARIANTS
    ReachedIsAllowed
    RefusedNotReached
    RefusedUntouched
    AuditTellsAll
    HungOnce
PROPERTIES
    Ends
\* The worker stops when the call is done.
CHECK_DEADLOCK FALSE
