\* A ring of 3 bytes, calls of up to 4, 6 bytes between resets: writes longer
\* than the ring, partial reads, two wraps of both indices.  A timed read waits two
\* units of time, under which the wall clock is set forward by one and back by one.
CONSTANTS
    Cap = 3
    MaxLen = 4
    MaxBytes = 6
    Timeout = 2
    Steps = {1}
    MaxTime = 3
    MaxAhead = 1
    MaxBack = 1
SPECIFICATION FairSpec
INVARIANTS RingSound
PROPERTIES ImplementsFifo TimedReadKeepsTime WaitersReleased
