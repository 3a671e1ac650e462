\* 3 segments, 2 at a time in the playlist, the second tagged, from two servers: one
\* that is late for as many reloads as the code tolerates, and one that is as late
\* as it likes, renumbering and failing as it likes.
CONSTANTS
    MAX_SEG_FAILS = 1
    MAX_RELOAD_FAILS = 1
    MAX_STALE_RELOADS = 1
    STALL = 2
    Disc = {2}
    MaxLag = 1
    Window = 2
    MaxPub = 3
    Servers = {"sound", "erratic"}
SPECIFICATION FairSpec
INVARIANTS WorkerSound
PROPERTIES NoReplay BreaksReset NeverQuiet StopEndsIt
