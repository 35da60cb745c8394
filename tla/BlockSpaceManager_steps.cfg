\* Claims that the code does not keep (README.md, section 5), one at a time: each is
\* refuted with the values of its line in place of those below and
\* the constants of the other manager empty or 1.
\*
\*  BlockSize  NumGroupsV1  NumGpuBlocks  NumCpuBlocks  TokenIds  Workloads         claim
\*  5          3            6             2             {1}       LoadsSwapPartial  ReadsOwnPrefix
\*  2          4            3             0             {1, 2}    LoadsCopyRace     StepIsRaceFree
\*
\*  BlockSize  NumGroupsV2  MaxBlocks                   TokenIds  Configs        claim
\*  2          2            3                           {1, 2}    ConfigsEvict   ReadsOwnPrefix
\*  2          2            8                           {1, 2}    ConfigsRace    StepIsRaceFree
\*  2          2            2                           {1, 2}    ConfigsNull    AccountsInv
\*  2          2            4                           {1, 2}    ConfigsPrompt  AccountsInv
SPECIFICATION Spec
CONSTANTS
    BlockSize = 2
    TokenIds = {1, 2}
    NumGroupsV1 = 3
    NumGpuBlocks = 5
    NumCpuBlocks = 2
    Workloads <- LoadsSound
    NumGroupsV2 = 2
    MaxBlocks = 8
    Configs <- ConfigsSound
CHECK_DEADLOCK FALSE
INVARIANTS
    ReadsOwnPrefix
    StepIsRaceFree
    AccountsInv
