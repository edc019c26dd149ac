SPECIFICATION FairSpec
CONSTANTS
    b1 = b1
    b2 = b2
    t1 = t1
    t2 = t2
    g1 = g1
    g2 = g2
    g3 = g3
    Batches = {b1, b2}
    Workers = {w1}
    Traces = {t1, t2}
    Graphs = {g1, g2, g3}
    TraceOf <- SomeTraceOf
    Payload <- ExportAndJunk
    Malformed = {b2}
    Rest = {}
    MaxSends <- ManySends
    MaxFaults = 2
    None = None
    NoAttribution = NoAttribution
    NoSession = NoSession
CHECK_DEADLOCK FALSE
PROPERTIES
    EveryBatchSettles
    ProviderOutageStillPersists
