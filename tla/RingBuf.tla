------------------------------ MODULE RingBuf ------------------------------
(***************************************************************************)
(* src/src/ringbuf.c: the byte ring between one network worker (the        *)
(* producer) and the decode thread (the consumer).  One mutex guards every *)
(* field, so each critical section is one atomic step: it runs from the    *)
(* moment the thread holds the lock until it unlocks or waits on the       *)
(* condition variable.  waitSet holds the threads parked on that variable; *)
(* a broadcast empties it, and the awakened thread takes another step when *)
(* it gets the lock back.                                                  *)
(*                                                                         *)
(* Bytes are numbered 1, 2, 3... in the order the producer offers them, so *)
(* the array really holds data and a wrong index shows up as a wrong byte. *)
(*                                                                         *)
(* Two clocks run under a timed read.  The monotonic one cannot be set;    *)
(* the wall clock, which the deadline is on, can be, at any moment.  The   *)
(* library turns the deadline into a relative delay when it enters a wait  *)
(* (ringbuf.c:101-118): a step before that moves the wait, a later one     *)
(* does not.  Time is counted in units of the caller's timeout_ms; the two *)
(* clocks are read in one step, so a thread held up between the two reads  *)
(* is the one delay the model leaves out.                                  *)
(***************************************************************************)
EXTENDS Integers, Sequences, FiniteSets

CONSTANTS Cap,        \* rb_init's capacity
          MaxLen,     \* longest buffer passed to one rb_write or rb_read
          MaxBytes,   \* bound: bytes offered since the last reset
          Timeout,    \* timeout_ms of a timed read
          Steps,      \* sizes of the steps the wall clock is set by
          MaxTime,    \* bound: time counted in one read
          MaxAhead,   \* bound: times the wall clock is set forward in one read
          MaxBack     \* bound: how far it is set back in one read, in all

ASSUME CapAssumption == Cap \in Nat \ {0}
ASSUME MaxLenAssumption == MaxLen \in Nat
ASSUME MaxBytesAssumption == MaxBytes \in Nat
ASSUME TimeoutAssumption == Timeout \in Nat \ {0}
ASSUME StepsAssumption == Steps \subseteq Nat \ {0}
ASSUME SetAssumption == MaxAhead \in Nat /\ MaxBack \in Nat
ASSUME MaxTimeAssumption == MaxTime \in Nat /\ MaxTime >= Timeout + MaxBack

VARIABLES data,       \* rb->data; 0 is a byte never written
          head,       \* next read index
          tail,       \* next write index
          count,      \* bytes stored
          closed, aborted,
          waitSet,    \* threads inside pthread_cond_(timed)wait
          ppc,        \* producer: "idle", or "write" inside rb_write
          todo,       \* rb_write's remaining len
          cpc,        \* consumer: "idle", "read" inside rb_read, or "expired":
                      \* its wait timed out and it has yet to get the lock
          want,       \* rb_read's len
          mode,       \* sign of rb_read's timeout_ms
          elapsed,    \* monotonic time since `started`
          due,        \* `deadline` minus the wall clock's time
          delay,      \* what is left of the delay the last wait was entered with
          early,      \* history: times this read's wait expired early
          ahead,      \* history: times the wall clock was set forward in it
          back,       \* history: how far the wall clock was set back in it
          cres,       \* what the last rb_read returned
          accepted,   \* bytes committed to the ring since the last reset
          taken       \* bytes rb_read has handed out, in order

ring   == <<data, head, tail, count>>
prod   == <<ppc, todo>>
clock  == <<elapsed, due, delay, early, ahead, back>>
cons   == <<cpc, want, mode, clock, cres, taken>>
vars   == <<ring, closed, aborted, waitSet, prod, cons, accepted>>

Producer == "producer"
Consumer == "consumer"
Modes    == {"forever", "poll", "timed"}
Results  == {"none", "data", "empty", "timeout", "end"}
Index    == 0..(Cap - 1)

TypeOk ==
    /\ data \in [Index -> 0..MaxBytes]
    /\ head \in Index /\ tail \in Index
    /\ count \in 0..Cap
    /\ closed \in BOOLEAN /\ aborted \in BOOLEAN
    /\ waitSet \subseteq {Producer, Consumer}
    /\ ppc \in {"idle", "write"} /\ todo \in 0..MaxLen
    /\ cpc \in {"idle", "read", "expired"} /\ want \in 0..MaxLen
    /\ mode \in Modes /\ cres \in Results
    /\ elapsed \in 0..MaxTime /\ due \in Int /\ delay \in Nat
    /\ early \in Nat /\ ahead \in 0..MaxAhead /\ back \in 0..MaxBack
    /\ accepted \in 0..MaxBytes
    /\ taken \in Seq(0..MaxBytes)

Init ==
    /\ data = [i \in Index |-> 0]
    /\ head = 0 /\ tail = 0 /\ count = 0
    /\ closed = FALSE /\ aborted = FALSE
    /\ waitSet = {}
    /\ ppc = "idle" /\ todo = 0
    /\ cpc = "idle" /\ want = 0 /\ mode = "poll" /\ cres = "none"
    /\ elapsed = 0 /\ due = 0 /\ delay = 0
    /\ early = 0 /\ ahead = 0 /\ back = 0
    /\ accepted = 0
    /\ taken = <<>>

-----------------------------------------------------------------------------
(* Index arithmetic and the two memcpy calls of each copy.                 *)

Lesser(a, b) == IF a < b THEN a ELSE b

Advance(i, n) == (i + n) % Cap

Space == Cap - count

\* Faulty variant: one memcpy, the part past the end of the array is dropped.
CopyInUnsplit(n) ==
    [i \in Index |-> IF tail <= i /\ i < tail + n THEN accepted + 1 + i - tail
                                                  ELSE data[i]]

\* rb_write's two copies of src[0..n) to tail and, past the end, to 0.
CopyIn(n) ==
    LET first == Lesser(Cap - tail, n)
        src(k) == accepted + 1 + k
    IN [i \in Index |->
          IF tail <= i /\ i < tail + first THEN src(i - tail)
          ELSE IF i < n - first THEN src(first + i)
          ELSE data[i]]

\* rb_read's two copies of n bytes from head and, past the end, from 0.
CopyOut(n) ==
    LET first == Lesser(Cap - head, n)
    IN [k \in 1..n |-> IF k <= first THEN data[head + k - 1]
                                     ELSE data[k - first - 1]]

\* Faulty variant: a change nobody is told about.
ChangeUnannounced == UNCHANGED waitSet

\* pthread_cond_broadcast: every parked thread becomes runnable.
Broadcast == waitSet' = {}

-----------------------------------------------------------------------------
(* rb_write                                                                *)

WriteRefused == aborted \/ closed

MustWaitToWrite == count = Cap /\ ~aborted /\ ~closed

\* The caller enters rb_write with the next len bytes of its stream.
CallWrite(len) ==
    /\ ppc = "idle"
    /\ accepted + len <= MaxBytes
    /\ ppc' = IF len = 0 THEN "idle" ELSE "write"
    /\ todo' = len
    /\ UNCHANGED <<ring, closed, aborted, waitSet, cons, accepted>>

WriteFails ==
    /\ WriteRefused
    /\ ppc' = "idle" /\ todo' = 0
    /\ UNCHANGED <<ring, closed, aborted, waitSet, cons, accepted>>

WriteWaits ==
    /\ MustWaitToWrite
    /\ waitSet' = waitSet \cup {Producer}
    /\ UNCHANGED <<ring, closed, aborted, prod, cons, accepted>>

\* Faulty variant: bytes are stored without waking the reader.
ChunkUnannounced(n) ==
    waitSet' = waitSet \cup (IF todo = n THEN {} ELSE {Producer})

\* The broadcast after a chunk, then the wait if the write is not done.
AnnounceChunk(n) == waitSet' = IF todo = n THEN {} ELSE {Producer}

\* One turn of the loop: commit what fits and broadcast; if bytes are left the
\* ring is full, and the same critical section goes on to wait.
WriteChunk ==
    /\ ~WriteRefused
    /\ Space > 0
    /\ LET n == Lesser(todo, Space)
       IN /\ data' = CopyIn(n)
          /\ tail' = Advance(tail, n)
          /\ count' = count + n
          /\ accepted' = accepted + n
          /\ todo' = todo - n
          /\ ppc' = IF todo = n THEN "idle" ELSE "write"
          /\ AnnounceChunk(n)
    /\ UNCHANGED <<head, closed, aborted, cons>>

WriteStep ==
    /\ ppc = "write" /\ Producer \notin waitSet
    /\ (WriteFails \/ WriteWaits \/ WriteChunk)

-----------------------------------------------------------------------------
(* rb_read's clocks                                                        *)

\* `started` and `deadline` are taken, limit from now.
ClockStarts(limit) ==
    /\ elapsed' = 0 /\ due' = limit /\ delay' = 0
    /\ early' = 0 /\ ahead' = 0 /\ back' = 0

\* Both clocks run, and with them the wait.
Tick ==
    /\ cpc # "idle" /\ mode = "timed" /\ elapsed < MaxTime
    /\ elapsed' = elapsed + 1
    /\ due' = due - 1
    /\ delay' = IF delay > 0 THEN delay - 1 ELSE 0
    /\ UNCHANGED <<ring, closed, aborted, waitSet, prod, cpc, want, mode, early,
                   ahead, back, cres, accepted, taken>>

\* A time sync or the user changing the date: forward by d > 0, or back.
Shifts == Steps \cup {-d : d \in Steps}

CountShift(d) ==
    /\ ahead' = IF d > 0 THEN ahead + 1 ELSE ahead
    /\ back' = IF d < 0 THEN back - d ELSE back
    /\ ahead' <= MaxAhead /\ back' <= MaxBack

\* The deadline is nearer or further off; a wait already entered is not.
WallStep(d) ==
    /\ cpc # "idle" /\ mode = "timed"
    /\ CountShift(d)
    /\ due' = due - d
    /\ UNCHANGED <<ring, closed, aborted, waitSet, prod, cpc, want, mode, elapsed,
                   delay, early, cres, accepted, taken>>

\* pthread_cond_timedwait with the deadline d away: it waits that long, or, the
\* deadline past, comes back at once.
WaitUntil(d) ==
    /\ due' = d
    /\ IF d > 0
       THEN cpc' = "read" /\ delay' = d /\ waitSet' = waitSet \cup {Consumer}
       ELSE cpc' = "expired" /\ delay' = 0 /\ UNCHANGED waitSet

-----------------------------------------------------------------------------
(* rb_read                                                                 *)

CallRead(len, m) ==
    /\ cpc = "idle"
    /\ cpc' = "read" /\ want' = len /\ mode' = m /\ cres' = "none"
    /\ ClockStarts(IF m = "timed" THEN Timeout ELSE 0)
    /\ UNCHANGED <<ring, closed, aborted, waitSet, prod, accepted, taken>>

\* The call is over, and what was counted for it is dropped.
ReadReturns(res) ==
    /\ cpc' = "idle" /\ want' = 0 /\ mode' = "poll" /\ cres' = res
    /\ ClockStarts(0)

\* -1: aborted, or closed with nothing left to drain.
ReadEnded == aborted \/ (count = 0 /\ closed)

ReadEnds ==
    /\ ReadEnded
    /\ ReadReturns("end")
    /\ UNCHANGED <<ring, closed, aborted, waitSet, prod, accepted, taken>>

ReadTakes ==
    /\ ~aborted /\ count > 0
    /\ IF want = 0
       THEN /\ ReadReturns("empty")
            /\ UNCHANGED <<ring, waitSet, taken>>
       ELSE LET n == Lesser(want, count)
            IN /\ taken' = taken \o CopyOut(n)
               /\ head' = Advance(head, n)
               /\ count' = count - n
               /\ ReadReturns("data")
               /\ Broadcast
               /\ UNCHANGED <<data, tail>>
    /\ UNCHANGED <<closed, aborted, prod, accepted>>

NothingYet == ~ReadEnded /\ count = 0

\* A poll does not wait.
PollsEmpty ==
    /\ NothingYet /\ mode = "poll"
    /\ ReadReturns("timeout")
    /\ UNCHANGED <<ring, closed, aborted, waitSet, prod, accepted, taken>>

\* The others wait, a timed read for what its deadline has left.
ReadWaits ==
    /\ NothingYet /\ mode # "poll"
    /\ IF mode = "timed"
       THEN /\ WaitUntil(due)
            /\ UNCHANGED <<elapsed, early, ahead, back>>
       ELSE /\ waitSet' = waitSet \cup {Consumer}
            /\ UNCHANGED <<cpc, clock>>
    /\ UNCHANGED <<ring, closed, aborted, prod, want, mode, cres, accepted, taken>>

ReadStep ==
    /\ cpc = "read" /\ Consumer \notin waitSet
    /\ (ReadEnds \/ ReadTakes \/ PollsEmpty \/ ReadWaits)

\* The delay is over and nobody has woken the reader: it leaves the wait with
\* ETIMEDOUT, and competes for the lock with whoever else wants it.
Expire ==
    /\ cpc = "read" /\ mode = "timed" /\ Consumer \in waitSet /\ delay = 0
    /\ cpc' = "expired"
    /\ waitSet' = waitSet \ {Consumer}
    /\ UNCHANGED <<ring, closed, aborted, prod, want, mode, clock, cres, accepted,
                   taken>>

\* Faulty variants: a wait that expired is believed, or re-armed for all of it.
LeftNone  == 0
LeftWhole == Timeout

\* What the monotonic clock leaves of the caller's time.
Left == Timeout - elapsed

\* Faulty variant: the wait is entered again with the deadline that has passed.
DeadlineKept(d) == due

\* wall_deadline_in(left), with the wall clock set by d before the library reads it.
NewDeadline(d) == Left - d

\* "expired early: re-arm, do not spin", in the same critical section.
Rearm ==
    /\ NothingYet /\ Left > 0
    /\ early' = early + 1
    /\ \E d \in Shifts \cup {0} : CountShift(d) /\ WaitUntil(NewDeadline(d))
    /\ UNCHANGED <<ring, closed, aborted, prod, want, mode, elapsed, cres, accepted,
                   taken>>

\* Faulty variant: data that came with the timeout is not looked for.
GivesUpBlindly ==
    /\ ~ReadEnded /\ Left <= 0
    /\ ReadReturns("timeout")
    /\ UNCHANGED <<ring, closed, aborted, waitSet, prod, accepted, taken>>

GivesUp ==
    /\ NothingYet /\ Left <= 0
    /\ ReadReturns("timeout")
    /\ UNCHANGED <<ring, closed, aborted, waitSet, prod, accepted, taken>>

\* ETIMEDOUT with the lock held again: an end, or data, that came with it wins.
TimeOut ==
    /\ cpc = "expired"
    /\ (ReadEnds \/ ReadTakes \/ Rearm \/ GivesUp)

\* POSIX lets a wait return for no reason; both loops test again.
SpuriousWake(t) ==
    /\ t \in waitSet
    /\ waitSet' = waitSet \ {t}
    /\ UNCHANGED <<ring, closed, aborted, prod, cons, accepted>>

-----------------------------------------------------------------------------
(* rb_close, rb_abort, rb_reset                                            *)

\* The worker closes its ring after its last write.
Close ==
    /\ ppc = "idle"
    /\ closed' = TRUE
    /\ Broadcast
    /\ UNCHANGED <<ring, aborted, prod, cons, accepted>>

\* A third thread (player_stop, a reaper, conn_release) aborts at any moment.
Abort ==
    /\ aborted' = TRUE
    /\ Broadcast
    /\ UNCHANGED <<ring, closed, prod, cons, accepted>>

\* Only the tests call rb_reset, and only with no thread inside the ring
\* (player.c:265-267 says why the player does not).
Reset ==
    /\ ppc = "idle" /\ cpc = "idle"
    /\ head' = 0 /\ tail' = 0 /\ count' = 0
    /\ closed' = FALSE /\ aborted' = FALSE
    /\ Broadcast
    /\ accepted' = 0 /\ taken' = <<>> /\ cres' = "none"
    /\ UNCHANGED <<data, prod, cpc, want, mode, clock>>

Next ==
    \/ \E len \in 0..MaxLen : CallWrite(len)
    \/ WriteStep
    \/ \E len \in 0..MaxLen, m \in Modes : CallRead(len, m)
    \/ ReadStep
    \/ Tick
    \/ \E d \in Shifts : WallStep(d)
    \/ Expire
    \/ TimeOut
    \/ \E t \in {Producer, Consumer} : SpuriousWake(t)
    \/ Close
    \/ Abort
    \/ Reset

\* A runnable thread runs, time passes and a wait that is over ends; nothing
\* forces a caller to call, or a clock to be set.
Fairness ==
    /\ WF_vars(WriteStep)
    /\ WF_vars(ReadStep)
    /\ WF_vars(Tick)
    /\ WF_vars(Expire)
    /\ WF_vars(TimeOut)

Spec == Init /\ [][Next]_vars

FairSpec == Spec /\ Fairness

-----------------------------------------------------------------------------
(* Properties                                                              *)

\* The ring holds exactly the accepted bytes nobody has read yet, in order,
\* across every wrap of head and tail, and the consumer has received exactly
\* the others, in order: nothing is lost, duplicated or reordered however the
\* chunks of a write and the partial reads interleave (ringbuf.c:62-72,166-174).
FifoIntact ==
    /\ accepted = Len(taken) + count
    /\ tail = Advance(head, count)
    /\ \A k \in 0..(count - 1) : data[Advance(head, k)] = Len(taken) + 1 + k
    /\ \A k \in 1..Len(taken) : taken[k] = k

\* Nobody sleeps on a condition that already holds: a parked writer faces a
\* full open ring, a parked reader an empty open one.  This is what the
\* broadcasts at the end of every mutation are for (ringbuf.c:74,175,192,200).
NoLostWakeup ==
    /\ Producer \in waitSet => ppc = "write" /\ MustWaitToWrite
    /\ Consumer \in waitSet => cpc = "read" /\ count = 0 /\ ~ReadEnded

\* Without an abort, rb_read answers -1 only when every byte the producer
\* managed to store has been delivered: closing never truncates the stream,
\* whatever the order of the last write, the close and the last reads
\* (ringbuf.c:129-138,146).
EndOnlyWhenDrained ==
    cres = "end" /\ ~aborted => closed /\ Len(taken) = accepted

\* The state of the ring, of those who wait on it and of what was last returned.
RingSound == TypeOk /\ FifoIntact /\ NoLostWakeup /\ EndOnlyWhenDrained

\* A timed read keeps the caller's time however the wall clock is set under it.
\* It reports a timeout only after the time has passed on the monotonic clock;
\* its wait expires early at most once for every time the clock was set forward,
\* so it does not spin; and it sleeps beyond the caller's time by no more than the
\* clock was set back (ringbuf.c:111-118, 150-157).
TimeoutIsReal ==
    [][mode = "timed" /\ cres' = "timeout" => elapsed >= Timeout]_vars

NoSpin == early <= ahead

SleepBounded ==
    Consumer \in waitSet /\ mode = "timed" /\ delay > 0 =>
        elapsed + delay <= Timeout + back

TimedReadKeepsTime == TimeoutIsReal /\ [](NoSpin /\ SleepBounded)

\* An abort gets the writer out of rb_write even when the ring is full and no
\* reader will ever come (ringbuf.c:196-202, relied on by http_stream_stop).
AbortReleasesWriter == (aborted /\ ppc = "write") ~> (ppc = "idle")

\* Once the ring is aborted or closed a blocked read returns, with no timeout
\* to help it (ringbuf.c:188-202).
EndReleasesReader == ((aborted \/ closed) /\ cpc # "idle") ~> (cpc = "idle")

\* The same for a reader that waits on a producer still alive: as soon as a
\* byte is stored the read returns (ringbuf.c:74).
DataReleasesReader == (count > 0 /\ cpc # "idle") ~> (cpc = "idle")

\* A timed read comes back though nothing ever arrives, whatever is done to the
\* wall clock and however often the wait ends for nothing (ringbuf.c:145-158).
TimeReleasesReader == (mode = "timed" /\ cpc # "idle") ~> (cpc = "idle")

\* Nobody stays blocked in the ring on whom the other side, a stop or the time
\* has acted.
WaitersReleased ==
    /\ AbortReleasesWriter
    /\ EndReleasesReader
    /\ DataReleasesReader
    /\ TimeReleasesReader

\* The ring implements the abstract byte queue.
Stored == [k \in 1..count |-> data[Advance(head, k - 1)]]

Fifo == INSTANCE ByteFifo WITH queue <- Stored, answer <- cres

\* Every step of the ring is a step of the queue ringbuf.h describes, or none; and
\* each answer of rb_read is the one the queue gives: data whenever there is some,
\* though the wait expired with it, the end only of an aborted or a drained queue.
ImplementsFifo == Fifo!Spec

=============================================================================
