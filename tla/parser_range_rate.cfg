CONSTANTS
    Lines <- RangeRateLines
    MoreLines = {}
    Datagrams = {}
    BufSize = 65535
SPECIFICATION MCSpec
INVARIANT ParsesAsSpecified
CHECK_DEADLOCK FALSE
