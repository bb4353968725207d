SPECIFICATION Spec
CONSTANTS
    Codecs = {"u32", "fixed", "s32", "s64", "varuint", "varint", "base64", "hex",
              "uint32", "little", "version", "call"}
    Words32 <- MCWords32
    Words64 <- MCWords64
    Binaries <- MCBinaries
    Streams32 <- MCStreams32
    Streams64 <- MCStreams64
    Texts <- MCTexts
    Calls <- MCCalls
    Rest <- MCRest
CHECK_DEADLOCK FALSE
INVARIANTS RoundTrip LebExact StaysInRoom
