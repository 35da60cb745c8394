\* Claims that the code does not keep (README.md, section 5), one at a time: each is
\* refuted with the values of its line in place of those below,
\* with Watermark = 0 and SYMMETRY Symmetry.
\*
\*  GpuBlocks  CpuBlocks  SlidingWindow  BeamGroups  PromptLens  MaxLen  claim
\*  NumGpu4    NumCpu3    0              {}          Prompts3    4       ResetFreesAll
\*  NumGpu3    NumCpu3    0              {}          Prompts2    4       FinishedHoldsNothing
\*  NumGpu5    NumCpu3    1              {}          Prompts3    6       NoAllocatorError
\*  NumGpu5    NumCpu0    1              {g1, g2}    Prompts3    6       FreeIffUnreferenced
\*
\* With SlidingWindow = 2, CpuBlocks <- NumCpu0, PromptLens <- Prompts5 and
\* MaxLen = 6 the INVARIANTS NoUseAfterFree and NoAllocatorError pass too.
SPECIFICATION Spec
CONSTANTS
    g1 = g1
    g2 = g2
    Groups = {g1, g2}
    BestOf = 2
    GpuBlocks <- NumGpu4
    CpuBlocks <- NumCpu3
    BlockSize = 2
    Watermark = 1
    SlidingWindow = 0
    BeamGroups = {g1}
    PromptLens <- Prompts7
    MaxLen = 7
INVARIANTS
    IndInv
    SlotsInv
PROPERTIES
    SwapKeepsSharing
CHECK_DEADLOCK FALSE
