\* Claims that the code does not keep (README.md, section 5), one at a time: each is
\* refuted with the values of its line in place of those below,
\* with MaxCalls = 1, TwoStage = {} and Served = {}.
\*
\*  Models            claim
\*  ModelsOneGroup    ForwardIsWhole
\*  ModelsHalfPack    ForwardIsWhole
\*  ModelsLookup      ForwardIsWhole
\*  ModelsFused       ForwardIsWhole
\*  ModelsOnePacked   AdaptersInPlace
\*  ModelsLacking     AdaptersInPlace
\*  ModelsShardedQKV  AdaptersInPlace
SPECIFICATION TPSpec
CONSTANTS
    Ranks = {0, 1}
    MaxCalls = 6
    TwoStage = {1, 2, 5}
    Models <- ModelsSound
    Served <- ModelsServed
    Positions = 4
CHECK_DEADLOCK FALSE
INVARIANTS
    ReadsInPlace
    ForwardIsWhole
    SumsAreWhole
    AdaptersInPlace
PROPERTIES
    PassesEnd
