CONSTANTS
    Datagrams = {}
    BufSize = 5
    Pool <- LongLinePool
SPECIFICATION MCSpec
INVARIANTS
    PacketsAsSpecified
\* Both datagrams are handled and the listener waits for the next.
CHECK_DEADLOCK FALSE
