CONSTANTS
    Lines <- ParserLines
    MoreLines <- SampleLines
    Datagrams = {}
    BufSize = 65535
SPECIFICATION MCSpec
INVARIANTS
    TypeOK
    ParsesAsSpecified
    SampleErrorsAsSpecified
\* The listener has handled its one datagram and waits for the next.
CHECK_DEADLOCK FALSE
