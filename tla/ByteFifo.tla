------------------------------ MODULE ByteFifo ------------------------------
(***************************************************************************)
(* What ringbuf.h promises of a RingBuf, without its storage: a bounded    *)
(* first-in first-out queue of bytes between one producer and one          *)
(* consumer, which can be closed (readers drain it, then get -1) and       *)
(* aborted (every call fails at once).  A byte is its position in the      *)
(* stream the producer offers, so the k-th byte accepted is k.             *)
(***************************************************************************)
EXTENDS Naturals, Sequences

CONSTANT Cap    \* capacity of the queue, in bytes

VARIABLES queue,    \* the bytes stored, oldest first
          taken,    \* every byte handed to the consumer, in order
          closed,   \* the producer has finished
          aborted,  \* a stop was requested
          answer    \* what the last read returned; "none" while one is under way

fifoVars == <<queue, taken, closed, aborted, answer>>

NextBytes(n) == [k \in 1..n |-> Len(taken) + Len(queue) + k]

Init ==
    /\ queue = <<>>
    /\ taken = <<>>
    /\ closed = FALSE
    /\ aborted = FALSE
    /\ answer = "none"

\* A chunk of a write is committed: only while the queue is open and has room.
Put(n) ==
    /\ ~closed /\ ~aborted
    /\ Len(queue) + n <= Cap
    /\ queue' = queue \o NextBytes(n)
    /\ UNCHANGED <<taken, closed, aborted, answer>>

\* A read begins; what it will answer depends on the queue when it ends.
Ask == answer' = "none" /\ UNCHANGED <<queue, taken, closed, aborted>>

\* A read removes a prefix; closing does not stop it, aborting does.
Take(n) ==
    /\ ~aborted
    /\ taken' = taken \o SubSeq(queue, 1, n)
    /\ queue' = SubSeq(queue, n + 1, Len(queue))
    /\ answer' = "data"
    /\ UNCHANGED <<closed, aborted>>

\* A read of no bytes, where there are some.
TakeNone ==
    /\ ~aborted /\ queue # <<>>
    /\ answer' = "empty"
    /\ UNCHANGED <<queue, taken, closed, aborted>>

\* A read waits no longer: only where there is nothing to have.
GiveUp ==
    /\ ~aborted /\ ~closed /\ queue = <<>>
    /\ answer' = "timeout"
    /\ UNCHANGED <<queue, taken, closed, aborted>>

\* The end is told once what was stored before the close has been read.
TellEnd ==
    /\ aborted \/ (closed /\ queue = <<>>)
    /\ answer' = "end"
    /\ UNCHANGED <<queue, taken, closed, aborted>>

Close == closed' = TRUE /\ UNCHANGED <<queue, taken, aborted, answer>>

Abort == aborted' = TRUE /\ UNCHANGED <<queue, taken, closed, answer>>

Reset ==
    /\ queue' = <<>> /\ taken' = <<>>
    /\ closed' = FALSE /\ aborted' = FALSE
    /\ answer' = "none"

Next ==
    \/ \E n \in 1..Cap : Put(n)
    \/ Ask
    \/ \E n \in 1..Len(queue) : Take(n)
    \/ TakeNone
    \/ GiveUp
    \/ TellEnd
    \/ Close
    \/ Abort
    \/ Reset

Spec == Init /\ [][Next]_fifoVars

=============================================================================
