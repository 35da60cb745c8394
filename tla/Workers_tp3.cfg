\* Claims that the code does not keep (README.md, section 5), one at a time: each is
\* refuted with the values of its line in place of those below,
\* with Faults = {}; the claim is a PROPERTY.
\*
\*  StepKinds                         ControlInLoop  claim
\*  {"model", "transfer", "nothing"}  FALSE          StepsComplete
\*  {"model", "jacobian", "nothing"}  FALSE          StepsComplete
\*  {"model", "nothing"}              TRUE           StepsComplete
SPECIFICATION Spec
CONSTANTS
    NumWorkers = 2
    StepKinds = {"model", "nothing"}
    ControlInLoop = FALSE
    Faults = {"killed", "exception"}
CHECK_DEADLOCK FALSE
INVARIANTS
    LoopsAgree
PROPERTIES
    NobodyWaitsInVain
