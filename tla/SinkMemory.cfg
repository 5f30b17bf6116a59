\* Bytes, with a word of 30 bits: 1G is what 4G is to 32.  Displays of
\* 1920x1080 and 1680x1050; a size too small for the cursor buffers, one too
\* small for the frames, one that wraps, one that is ample, one that is just
\* enough for the smaller display, one unreadable.
CONSTANTS
    Word = 1073741824
    Page = 4096
    Own = 8192
    Kvmfr = 48
    Records = 100
    CursorSize = 24
    PointerLen = 20
    ShapeLen = 3
    FrameLen = 2
    Sizes <- MCSizes
    Displays = {8294400, 7056000}
    FileSizes = {0, 16777216, 134217728}
    StatFails = FALSE
SPECIFICATION Spec
INVARIANTS TypeOK MappingIsBacked NothingOverwritten StaysInPlace EnoughSuffices
