\* A server that always has something new, with one tagged segment.
CONSTANTS
    MAX_SEG_FAILS = 1
    MAX_RELOAD_FAILS = 1
    MAX_STALE_RELOADS = 2
    STALL = 12
    Disc = {3}
    MaxLag = 0
    Window = 3
    MaxPub = 5
    Servers = {"sound"}
SPECIFICATION Spec
PROPERTIES ResetOnlyAtBreaks
