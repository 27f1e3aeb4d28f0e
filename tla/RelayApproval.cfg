\* Two parallel tool calls over two successive connections.
SPECIFICATION FairApprovalSpec
CONSTANTS
    Calls = {c1, c2}
    Sockets = {s1, s2}
    NoSocket = NoSocket
    Free = Free
    Stream = Stream
INVARIANTS
    PendingIsOwed
    NoneStranded
PROPERTIES
    GateSpec
CHECK_DEADLOCK FALSE
