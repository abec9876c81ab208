CONSTANTS
    Requests = {r1, r2}
    Workers = {w1, w2}
    Buffer = 1
    HasErrorPath = TRUE
    None = None
SPECIFICATION FairSpec
INVARIANTS
    NoSendOnClosedChannel
    NoMissedReply
    AnswersOwnOutcome
    NoParkedLeak
PROPERTIES
    AcceptedIsAnswered
    DrainTerminates
    ImplementsPipeline
