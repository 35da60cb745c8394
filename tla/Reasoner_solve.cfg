\* Claims that the code does not keep (README.md, section 5), one at a time: each is
\* refuted with the values of its line in place of those below.
\*
\*  MaxReasoningSteps  DecisionMode  claim
\*  2                  "eigen"       AnsweredWithoutDocs
\*  2                  "jacobian"    ScoreIsCompared
\*  3                  "eigen"       DuplicateUsesQuestion
SPECIFICATION FairSpec
CONSTANTS
    d1 = d1 d2 = d2 d3 = d3
    q0 = q0 q1 = q1 q2 = q2
    Docs = {d1, d2, d3}
    Queries = {q0, q1, q2}
    Question = q0
    NoDoc = NoDoc
    TopK = 2
    MaxReasoningSteps = 3
    MaxDocs = 2
    DecisionMode = "eigen"
    CallCap = 12
INVARIANTS
    IInv
    CheckpointConsistent
PROPERTIES
    SolveEnds
CHECK_DEADLOCK FALSE
