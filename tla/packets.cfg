CONSTANTS
    Datagrams = {}
    BufSize = 65535
SPECIFICATION MCSpec
INVARIANTS
    PacketsAsSpecified
\* Both datagrams are handled and the listener waits for the next.
CHECK_DEADLOCK FALSE
