CONSTANTS
    Lines <- EmptyNameLines
    MoreLines = {}
    Datagrams = {}
    BufSize = 65535
SPECIFICATION MCSpec
INVARIANT EventNamesNonEmpty
CHECK_DEADLOCK FALSE
