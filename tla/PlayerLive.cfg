\* One play that may follow a playlist, and the shutdown that ends it.  No
\* symmetry: these are liveness properties.
CONSTANTS
    Conns = {c1, c2}
    NoConn = NoConn
    MAX_REAPERS = 1
    MAX_SOURCE_HOPS = 1
    PREBUFFER = 1
    RB_CAPACITY = 1
    MaxLeaks = 0
    MaxGen = 1
SPECIFICATION FairSpec
PROPERTIES CallsReturn ReapedIsFreed EndedSourceRetired
