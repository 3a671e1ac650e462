\* Three addresses, a cap of one reaper and one hop: a cap reached by an earlier
\* station's reaper, up to two at once, and enough generations for a play, a
\* swap and another play or stop to overlap.
SYMMETRY Addresses
CONSTANTS
    Conns = {c1, c2, c3}
    NoConn = NoConn
    MAX_REAPERS = 1
    MAX_SOURCE_HOPS = 1
    PREBUFFER = 1
    RB_CAPACITY = 1
    MaxLeaks = 1
    MaxGen = 3
SPECIFICATION Spec
INVARIANTS TypeOk OneOwner NoUseAfterFree ContentTypeIsCurrent NoDeadStation
           SoundMeansPlaying CleanShutdown
PROPERTIES ImplementsSession
