\* Claims that the code does not keep (README.md, section 5), one at a time: each is
\* refuted with the values of its line in place of those below.
\*
\*  Cases             claim
\*  CasesHeldBack     Streamed
\*  CasesTwoStops     NoStopInText
\*  CasesStopToken    OnlyStopRemoved
\*  CasesLeft         DropStopsAll
\*  CasesEcho         ValidIsAnswered
\*  CasesBest         ValidIsAnswered
\*  CasesEmbed        ValidIsAnswered
\*  CasesEchoZero     ValidIsAnswered
\*  CasesOpen         WithinModel
\*  CasesPromptOnly   PromptOnce
\*  CasesPromptTexts  PromptTextsInPlace
\*  CasesNoAlpha      ValidIsAnswered
\*  CasesActor        ValidIsAnswered
\*  TheCases          BatchHoldsSequence, CacheHoldsSequence, GivenLenIsChecked,
\*                    LoraDTypeIsGiven, CpuLorasHoldBatch, LoadsInBatches,
\*                    NoPrefixesInFp8, GroupCanBeUsed, PtLoadsBin,
\*                    SavedCanBeLoaded, LoadsAgain
\*
\* ConsumerEnds (a PROPERTY) is refuted of MergeIterators with FairSpec, two
\* Iterators, MaxItems = 2 and MayRaise = FALSE.
SPECIFICATION StartSpec
CONSTANTS
    Iterators = {1, 2, 3}
    MaxItems = 12
    MayRaise = TRUE
    MayEndSilently = TRUE
    None = None
    Eos = "eos"
    Special = {"eos"}
    AddedVocab = {"add"}
    IsFast = FALSE
    BytesOf <- TheBytes
    Cases <- TheCases
    Situations <- TheSituations
    Unset = Unset
    DefaultMaxLen = 6
    DefaultBatch = 6
    ChunkedBatch = 4
    EmbeddingBatch = 12
    LoraBatch = 16
    GB = 40
    WatermarkPercent = 20
    NoLimit = 99
    Unlimited = Unlimited
INVARIANTS
    ServerInv
    AnswerIsWhole
    StartIsSound
