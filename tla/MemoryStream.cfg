SPECIFICATION MemorySpec
CONSTANTS
    Streams = {s, log}
    Writers = {s}
    Sizes = {0, 3}
    Moves = {0, 2}
    Printable = {1, 3}
    DUMP_OCTETS_PER_LINE = 2
    DUMP_OCTETS_PER_GROUP = 2
    STREAM_LOGGER_BUFFER_SIZE = 8
    Descs = {7, 8}
    MaxOffset = 1
    None = None
PROPERTY LogTellsContents
