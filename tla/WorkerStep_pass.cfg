\* Claims that the code does not keep (README.md, section 5), one at a time: each is
\* refuted with the values of its line in place of those below.
\*
\*  Engines             claim
\*  EnginesMixedHits    AttendsOwnContext
\*  EnginesWindow       AttendsExactly
\*  EnginesUnaligned    AttendsOwnContext
\*  EnginesRocmWindow   AttendsOwnContext
\*  EnginesCpuWindow    AttendsOwnContext
\*  EnginesHeadGroup    AttendsOwnContext
\*  EnginesLoraChunked  AttendsOwnContext
\*  EnginesLoraChunk    AdaptersApplied
\*  EnginesLoraPreempt  StepsSucceed
\*  EnginesLoraApi      AdaptersApplied
\*  EnginesLoraShared   AttendsOwnContext
SPECIFICATION Spec
CONSTANTS
    BlockSize = 2
    PartitionSize = 4
    MaxV1Len = 8
    BusyRows = 2
    NumHeads = 1
    MaxLenToCapture = 6
    Tile = 2
    TileM = 4
    TileN = 2
    Layers = {"linear", "lm_head"}
    Covers <- AdapterLayers
    LongAdapters = {2}
    NumReqs = 3
    MaxBlocks = 5
    CaptureSizes = {1, 2, 4}
    Engines <- EnginesSound
CHECK_DEADLOCK FALSE
INVARIANTS
    StepsSucceed
    AttendsOwnContext
    AdaptersApplied
