\* Claims that the code does not keep (README.md, section 5), one at a time: each is
\* refuted with the values of its line in place of those below.
\*
\*  NumGroups  Configs              claim
\*  2          ConfigsPairs         SameStage
\*  2          ConfigsPairs         PrefillHasOneSequence
\*  2          ConfigsPairs         NothingLost
\*  3          ConfigsSwapping      SwappedWaitsForRoom (a PROPERTY)
\*  1          ConfigsLong          RunsWithinModel
\*  2          ConfigsRoomy         IgnoredIsTooLong (a PROPERTY)
\*  3          ConfigsChunked       WaitingSorted
\*  2          ConfigsChunkedPairs  InfeasibleIsReported (a PROPERTY)
\*  3          ConfigsChunkedMixed  NeverOverBudget
SPECIFICATION FairSpec
CONSTANTS
    NumGroups = 3
    Configs <- ConfigsServe
INVARIANTS
    QueuesInv
    NoOvertaking
PROPERTIES
    EndedIsReported
    EmptyStepMadeRoom
    EveryGroupEnds
CHECK_DEADLOCK FALSE
