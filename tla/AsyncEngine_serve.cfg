\* Claims that the code does not keep (README.md, section 5), one at a time: each is
\* refuted with the values of its line in place of those below,
\* with SPECIFICATION Spec and MayBeInvalid = {}.
\*
\*  ReqIds    ReqOf   Setups         MayScheduleNone  claim
\*  {c1, c2}  OwnIds  SetupsModel    FALSE            ErrorReachesEveryStream (a PROPERTY)
\*  {c1, c2}  OwnIds  SetupsRestart  FALSE            ErroredIsStopped
\*  {r1}      SameId  SetupsSound    FALSE            EngineSurvives
\*  {c1, c2}  OwnIds  SetupsSound    TRUE             SleepsOnlyWhenIdle
SPECIFICATION FairSpec
CONSTANTS
    c1 = c1
    c2 = c2
    r1 = r1
    Clients = {c1, c2}
    ReqIds = {c1, c2}
    ReqOf <- OwnIds
    MayBeInvalid = {c1, c2}
    NoStream = NoStream
    MaxOutputs = 2
    Setups <- SetupsServe
    MayScheduleNone = FALSE
INVARIANTS
    StreamsInv
    EngineInv
PROPERTIES
    AbortedLeavesEngine
    RegisteredRequestEnds
    ImplementsService
CHECK_DEADLOCK FALSE
