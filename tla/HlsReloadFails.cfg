\* A server that always has something new, and reloads that fail now and then.
CONSTANTS
    MAX_SEG_FAILS = 1
    MAX_RELOAD_FAILS = 5
    MAX_STALE_RELOADS = 2
    STALL = 12
    Disc = {3}
    MaxLag = 0
    Window = 3
    MaxPub = 5
    Servers = {"failing"}
SPECIFICATION Spec
PROPERTIES NoReplay
