\* Claims that the code does not keep (README.md, section 5), one at a time: each is
\* refuted with the values of its line in place of those below.
\*
\*  Configs            claim
\*  ConfigsDisabled    DraftKvComplete
\*  ConfigsOutgrown    RanksAgree
\*  ConfigsFull        WithinModelLen
SPECIFICATION Spec
CONSTANTS
    NumRequests = 3
    NumTokens = 2
    Eos = 2
    Configs <- ConfigsServe
    Likeliest <- Weigh
    Missing = Missing
    None = None
    NoToken = NoToken
INVARIANTS
    OutputIsTargets
    DraftKvComplete
    EveryStepEmits
