CONSTANTS
    Parts = {"host", "forks", "refs", "queues"}
    None = None
    Reaper = Reaper
    Namespaces = {n1, n2}
    Starts = {s1, s2}
    Stops = {x1}
    Syncs = {y1}
    Networked = {s1, s2}
    MaxPort = 1
    MaxSweeps = 1
    Serial = TRUE
    Forked = {"m1", "m2"}
    Branches = {"b1", "b2", "b3", "b4"}
    Kids <- FlatKids
    FlowWorkers = {w1, w2}
    PoolWorkers = {p1, p2}
    Queue = 2
    Roots = {"c1"}
    Entry <- CircleEntry
    Flows <- CircleFlows
    Implicit = {"a", "b"}
    Target <- CircleTarget
    OneWay = {}
    MaxDepth = 2
    Published = {"e1"}
    Requested = {"q1"}
    Listeners = {l1}
    Workers = {w1}
    Consumers = {w1}
    FlowBuffer = 1
    NoMessage = NoMessage
    NoNode = NoNode
    QueueBuffer = 1
    Buffer = 1
SPECIFICATION MCSpec
INVARIANTS
    OneRunnerPerSession
    NoPortLeak
    ForkKeepsError
PROPERTIES
    CallsEnd
    
    ShutdownTerminates
    Consumed
