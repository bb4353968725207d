SPECIFICATION Spec
CONSTANTS
    Codecs = {"varint"}
    Words32 <- MCWords32
    Words64 <- MCWords64
    Binaries <- MCBinaries
    Streams32 <- MCStreams32
    Streams64 <- MCStreams64
    Texts <- MCTexts
    Calls <- MCCalls
    Rest <- MCRest
CHECK_DEADLOCK FALSE
INVARIANT VarIntRoundTrip
