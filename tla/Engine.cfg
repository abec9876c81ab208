CONSTANTS
    None = None
    Published = {p1}
    Requested = {q1, q2}
    Listeners = {l1}
    Workers = {w1}
    Consumers = {w1}
    NoMessage = NoMessage
    QueueBuffer = 1
    FlowBuffer = 1
    Roots = {"c1", "c2"}
    Entry <- ChainEntry
    Flows <- ChainFlows
    Implicit = {"a", "b"}
    Target <- ChainTarget
    OneWay = {"a"}
    Buffer = 1
    MaxDepth = 2
    Attempts = 2
    WriteAttempts = 2
    NoValue = NoValue
    Writers = {s1, s2, s3}
    Deleters = {d1}
    Readers = {r1}
    Scopes = {s1, s2, s3}
    Invalidators = {i1}
    MaxData = 2
    MaxExpiries = 2
    Agents = {a1, a2}
    Clears = {c1}
    MaxIterations = 2
    MaxTokens = 3
    Strategy = "prune"
    CharsPerToken = 4
    Sizes = {4, 12}
SPECIFICATION MCSpec
INVARIANTS
    ReturnsOwnOutcome
    WaitIsServed
    ReplyIsOwn
    BoundedUnlessExpired
    GivesUpUnderContention
    
PROPERTIES
    NeverBackwards
