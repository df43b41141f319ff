SPECIFICATION MeshSpec
CONSTANTS
    MESH_TX_BUF_SIZE = 11
    LINE = 3
    MAX_BYTES = 2
    INTERVAL = 3
INVARIANTS
    WholeSentencesArrive
    PositionsFit
PROPERTY EachByteIsWritten
