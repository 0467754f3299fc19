\* The comment of DBusCallTool::call, taken at its word.
CONSTANTS
    kwin = kwin  other = other  c1 = c1  c2 = c2  i1 = i1  i2 = i2  call = call
    Connections = {c1, c2}
    WellKnown = {kwin, other}
    Interfaces = {i1, i2}
    Methods = {call}
    NoInterface = NoInterface
    NoOwner = NoOwner
    PolicyChoices <- Closed
    MaxChanges = 1
SPECIFICATION Spec
INVARIANTS
    JudgedIsSent
\* The worker stops when the call is done.
CHECK_DEADLOCK FALSE
