SPECIFICATION Spec
CONSTANTS
\* Words of three bits and elements of two: the second of the three elements of a
\* block lies in two words, and a fourth is in the next block.
    WORD_BITS = 3
    Bits = 2
    Values <- SomeValues
    Workers = {t1, t2}
    MaxElements = 4
\* Nodes in both levels of the two-level storage, in a hash table with one free cell;
\* three searches one after the other.
    NodeID = {0, 1, 2}
    Weight = {1, 2}
    Data = {0}
    Storages = {"array", "map", "twolevel", "xor"}
    OverlayNodes = 1
    TableSize = 4
    fast_hasher <- SomeHash
    TimeMax = 3
    MaxClears = 3
\* Blocks that grow in place on both sides, and move.
    NumberOfNodes = 2
    EdgeData = {0}
    Dummy = Dummy
    MaxEdges = 3
    MaxSlots = 5
\* Every text in which methods, URIs, version numbers, header names and values
\* are together up to one character longer than they have to be, with up to one
\* header line; a text the parser refuses may have any character of the alphabet.
\* Whole requests have up to two header lines, of the four names the parser knows
\* and one it does not, in every order.
    Alphabet = {"H", "T", "P", "digit", ".", "/", ":", "SP", "TAB", "CR", "LF", "foreign"}
    MaxStays = 1
    MaxLines = 1
    MaxHeaders = 2
SYMMETRY Symmetry
INVARIANTS
    StoredAsWritten
    ReadsOwnValue
    LookupExact
    CountExact
    ParsedAsSent
PROPERTIES
    ImplementsQueue
    ImplementsMultigraph
\* The parser stops when it has decided.
CHECK_DEADLOCK FALSE
