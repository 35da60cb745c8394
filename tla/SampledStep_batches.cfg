\* Claims that the code does not keep (README.md, section 5), one at a time: each is
\* refuted with the values of its line in place of those below.
\*
\*  Configs            claim
\*  ConfigsQuestions   EnergyOfOwnRow
\*  ConfigsRecompute   NeverFails
\*  ConfigsMixed       NeverFails
\*  ConfigsZero        NeverFails
\*  ConfigsCached      NeverFails
\*  ConfigsNoLogprobs  NeverFails
\*  ConfigsCut         PromptLogprobsComplete
\*  ConfigsSeeds       SeededByOwn
SPECIFICATION Spec
CONSTANTS
    NumRequests = 3
    Configs <- ConfigsBatches
    None = None
CHECK_DEADLOCK FALSE
INVARIANTS
    ResultsAreOwn
    PromptLogprobsComplete
    PlainStepsSucceed
