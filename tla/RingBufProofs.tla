---------------------------- MODULE RingBufProofs ----------------------------
(***************************************************************************)
(* Proofs about RingBuf, for a ring of any capacity, calls of any length   *)
(* and any number of bytes: nothing is lost, repeated or reordered, nobody *)
(* sleeps through a change, a timed read keeps its time on a clock that is *)
(* set under it, and the ring implements the queue of ByteFifo.            *)
(***************************************************************************)
EXTENDS RingBuf, SequenceTheorems, TLAPS

USE CapAssumption, MaxLenAssumption, MaxBytesAssumption

\* The bytes of the write in progress are within the bound and there are some; a
\* read in progress has returned nothing yet, and only a timed one expires.
InCall ==
    /\ accepted + todo <= MaxBytes
    /\ ppc = "write" => todo > 0
    /\ cpc # "idle" => cres = "none"
    /\ cpc = "idle" => mode = "poll"
    /\ cpc = "expired" => mode = "timed"

\* The deadline, or the wait, or an expiry lies before the caller's time is over.
Short ==
    \/ elapsed + due < Timeout
    \/ Consumer \in waitSet /\ elapsed + delay < Timeout
    \/ cpc = "expired" /\ elapsed < Timeout

\* What falls short was brought about by a forward step no early expiry has used
\* up yet; what goes beyond, by the clock having been set back.
TimeKept ==
    /\ NoSpin /\ SleepBounded
    /\ mode = "timed" => /\ Short => early < ahead
                         /\ elapsed + due <= Timeout + back

IInv ==
    /\ TypeOk /\ InCall
    /\ FifoIntact /\ NoLostWakeup /\ EndOnlyWhenDrained
    /\ TimeKept

-----------------------------------------------------------------------------
(* Indices and copies                                                      *)

\* An index and at most one lap: the remainder is one subtraction.
LEMMA Advanced ==
    ASSUME NEW i \in Index, NEW n \in 0..Cap
    PROVE  Advance(i, n) = IF i + n < Cap THEN i + n ELSE i + n - Cap
  <1>1. CASE i + n < Cap
    BY <1>1, Z3 DEF Advance, Index
  <1>2. CASE i + n >= Cap
    BY <1>2, Z3 DEF Advance, Index
  <1> QED BY <1>1, <1>2 DEF Index

\* Advancing stays inside the array.
LEMMA AdvanceInIndex ==
    ASSUME NEW i \in Index, NEW n \in 0..Cap
    PROVE  Advance(i, n) \in Index
  BY Advanced DEF Index

\* Advancing in two parts is advancing once.
LEMMA AdvanceTwice ==
    ASSUME NEW i \in Index, NEW m \in 0..Cap, NEW n \in 0..Cap, m + n <= Cap
    PROVE  Advance(Advance(i, m), n) = Advance(i, m + n)
  <1> DEFINE j == Advance(i, m)
  <1>1. j \in Index /\ j = IF i + m < Cap THEN i + m ELSE i + m - Cap
    BY Advanced, AdvanceInIndex
  <1>2. Advance(j, n) = IF j + n < Cap THEN j + n ELSE j + n - Cap
    BY <1>1, Advanced
  <1>3. Advance(i, m + n) = IF i + (m + n) < Cap THEN i + (m + n) ELSE i + (m + n) - Cap
    BY Advanced
  <1> QED BY <1>1, <1>2, <1>3 DEF Index

\* Going on from the end of the stored bytes all the way round meets them again.
LEMMA AdvanceRound ==
    ASSUME NEW i \in Index, NEW m \in 0..Cap, NEW k \in 0..(m - 1)
    PROVE  Advance(Advance(i, m), Cap - m + k) = Advance(i, k)
  <1> DEFINE j == Advance(i, m)
  <1>1. j \in Index /\ j = IF i + m < Cap THEN i + m ELSE i + m - Cap
    BY Advanced, AdvanceInIndex
  <1>2. Cap - m + k \in 0..Cap /\ k \in 0..Cap
    OBVIOUS
  <1>3. Advance(j, Cap - m + k) = IF j + (Cap - m + k) < Cap THEN j + (Cap - m + k)
                                                     ELSE j + (Cap - m + k) - Cap
    BY <1>1, <1>2, Advanced
  <1>4. Advance(i, k) = IF i + k < Cap THEN i + k ELSE i + k - Cap
    BY <1>2, Advanced
  <1> HIDE DEF j
  <1>5. Advance(j, Cap - m + k) = Advance(i, k)
    BY <1>1, <1>3, <1>4 DEF Index
  <1> QED BY <1>5 DEF j

\* The two copies of a chunk put its bytes at the n places from tail on, and leave
\* the others alone.
LEMMA CopiedIn ==
    ASSUME TypeOk, NEW n \in 0..Space, accepted + n <= MaxBytes
    PROVE  /\ CopyIn(n) \in [Index -> 0..MaxBytes]
           /\ \A j \in 0..(Cap - 1) :
                 CopyIn(n)[Advance(tail, j)] =
                     IF j < n THEN accepted + 1 + j ELSE data[Advance(tail, j)]
  <1>1. /\ tail \in Index /\ accepted \in Nat
        /\ n \in 0..Cap
        /\ data \in [Index -> 0..MaxBytes]
    BY DEF TypeOk, Space
  <1>2. CopyIn(n) \in [Index -> 0..MaxBytes]
    BY <1>1 DEF CopyIn, Index, Lesser
  <1>3. ASSUME NEW j \in 0..(Cap - 1)
        PROVE  CopyIn(n)[Advance(tail, j)] =
                   IF j < n THEN accepted + 1 + j ELSE data[Advance(tail, j)]
    <2>1. j \in 0..Cap
      OBVIOUS
    <2>2. /\ Advance(tail, j) \in Index
          /\ Advance(tail, j) = IF tail + j < Cap THEN tail + j ELSE tail + j - Cap
      BY <1>1, <2>1, Advanced, AdvanceInIndex
    <2> DEFINE a == Advance(tail, j)
    <2> HIDE DEF a
    <2>3. /\ a \in Index
          /\ a = IF tail + j < Cap THEN tail + j ELSE tail + j - Cap
      BY <2>2 DEF a
    <2>4. CopyIn(n)[a] = IF j < n THEN accepted + 1 + j ELSE data[a]
      <3> DEFINE first == Lesser(Cap - tail, n)
      <3>1. first \in 0..n /\ first <= Cap - tail /\ (first < n => first = Cap - tail)
        BY <1>1 DEF Index, Lesser
      <3>2. CopyIn(n)[a] = IF tail <= a /\ a < tail + first THEN accepted + 1 + (a - tail)
                           ELSE IF a < n - first THEN accepted + 1 + (first + a)
                           ELSE data[a]
        BY <2>3 DEF CopyIn
      <3> HIDE DEF first
      <3>3. CASE tail + j < Cap
        <4>1. a = tail + j /\ tail <= a /\ (a < tail + first <=> j < n) /\ ~(a < n - first)
          BY <1>1, <2>3, <3>1, <3>3 DEF Index, Space, TypeOk
        <4>2. a - tail = j
          BY <1>1, <4>1 DEF Index
        <4> QED BY <3>2, <4>1, <4>2
      <3>4. CASE ~(tail + j < Cap)
        <4>1. a = tail + j - Cap /\ ~(tail <= a) /\ (a < n - first <=> j < n)
          BY <1>1, <2>3, <3>1, <3>4 DEF Index
        <4>2. j < n => first + a = j
          BY <1>1, <2>3, <3>1, <3>4, <4>1 DEF Index
        <4> QED BY <1>1, <3>1, <3>2, <4>1, <4>2
      <3> QED BY <3>3, <3>4
    <2> QED BY <2>4 DEF a
  <1> QED BY <1>2, <1>3

\* The two copies of a read fetch the n oldest bytes.
LEMMA CopiedOut ==
    ASSUME TypeOk, FifoIntact, NEW n \in 0..count
    PROVE  CopyOut(n) = [k \in 1..n |-> Len(taken) + k]
  <1>1. /\ head \in Index /\ count \in 0..Cap
        /\ Len(taken) \in Nat
    BY DEF TypeOk
  <1>2. ASSUME NEW k \in 1..n
        PROVE  (IF k <= Lesser(Cap - head, n) THEN data[head + k - 1]
                ELSE data[k - Lesser(Cap - head, n) - 1]) = Len(taken) + k
    <2>1. k - 1 \in 0..Cap /\ k - 1 \in 0..(count - 1)
      BY <1>1
    <2>2. Advance(head, k - 1) = IF head + (k - 1) < Cap THEN head + (k - 1)
                                                       ELSE head + (k - 1) - Cap
      BY <1>1, <2>1, Advanced
    <2>3. data[Advance(head, k - 1)] = Len(taken) + 1 + (k - 1)
      BY <2>1 DEF FifoIntact
    <2>4. CASE head + (k - 1) < Cap
      <3>1. k <= Lesser(Cap - head, n) /\ head + k - 1 = head + (k - 1)
        BY <1>1, <2>4 DEF Lesser, Index
      <3> QED BY <1>1, <3>1, <2>2, <2>3, <2>4
    <2>5. CASE ~(head + (k - 1) < Cap)
      <3>1. /\ ~(k <= Lesser(Cap - head, n))
            /\ k - Lesser(Cap - head, n) - 1 = head + (k - 1) - Cap
        BY <1>1, <2>5 DEF Lesser, Index
      <3> QED BY <1>1, <3>1, <2>2, <2>3, <2>5
    <2> QED BY <2>4, <2>5
  <1> QED BY <1>2 DEF CopyOut

-----------------------------------------------------------------------------
(* The inductive invariant                                                 *)

\* A turn of rb_write's loop commits at least one byte and no more than fit.
LEMMA ChunkSize ==
    ASSUME TypeOk, InCall, ppc = "write", Space > 0
    PROVE  /\ Lesser(todo, Space) \in 1..todo
           /\ Lesser(todo, Space) \in 0..Space
           /\ Lesser(todo, Space) # todo => Lesser(todo, Space) = Space
           /\ accepted + Lesser(todo, Space) <= MaxBytes
  BY DEF TypeOk, InCall, Lesser, Space

\* rb_init's state satisfies the invariant.
LEMMA InitIInv == Init => IInv
  <1> SUFFICES ASSUME Init PROVE IInv
    OBVIOUS
  <1>1. TypeOk
    <2>1. <<>> \in Seq(0..MaxBytes) /\ {} \subseteq {Producer, Consumer}
      OBVIOUS
    <2>2. /\ 0 \in 0..MaxLen /\ 0 \in 0..MaxBytes /\ 0 \in 0..Cap /\ 0 \in Index
          /\ 0 \in 0..MaxTime /\ 0 \in 0..MaxAhead /\ 0 \in 0..MaxBack
          /\ "poll" \in Modes /\ "none" \in Results
      BY MaxTimeAssumption, SetAssumption DEF Index, Modes, Results
    <2> QED BY <2>1, <2>2 DEF Init, TypeOk
  <1>2. InCall
    BY DEF Init, InCall
  <1>3. FifoIntact
    <2>1. Advance(0, 0) = 0
      BY Z3 DEF Advance
    <2> QED BY <2>1 DEF Init, FifoIntact
  <1>4. NoLostWakeup /\ EndOnlyWhenDrained /\ TimeKept
    BY DEF Init, NoLostWakeup, EndOnlyWhenDrained, TimeKept, NoSpin, SleepBounded
  <1> QED BY <1>1, <1>2, <1>3, <1>4 DEF IInv

\* A step of the reader with the lock is one of six.
LEMMA ReaderSteps ==
    ASSUME ReadStep \/ TimeOut
    PROVE  \/ cpc # "idle" /\ (ReadEnds \/ ReadTakes \/ PollsEmpty \/ GivesUp)
           \/ cpc = "read" /\ ReadWaits
           \/ cpc = "expired" /\ Rearm
  BY DEF ReadStep, TimeOut

\* Where the wall clock is set to, and what is counted of it.
LEMMA Shifted ==
    ASSUME TypeOk, NEW d \in Shifts \cup {0}, CountShift(d)
    PROVE  /\ d \in Int
           /\ ahead' \in 0..MaxAhead /\ back' \in 0..MaxBack
           /\ d > 0 => ahead' = ahead + 1 /\ back' = back
           /\ d <= 0 => ahead' = ahead /\ back' = back - d
  <1>1. d \in Int
    BY StepsAssumption DEF Shifts
  <1> QED BY <1>1, SetAssumption DEF CountShift, TypeOk

\* A call that starts or returns leaves the clocks in their types.
LEMMA Cleared ==
    ASSUME NEW limit \in Int, ClockStarts(limit)
    PROVE  /\ elapsed' \in 0..MaxTime /\ due' \in Int /\ delay' \in Nat
           /\ early' \in Nat /\ ahead' \in 0..MaxAhead /\ back' \in 0..MaxBack
  BY MaxTimeAssumption, SetAssumption DEF ClockStarts

\* Every step keeps the fields in range and the write in progress within the bound.
LEMMA TypeStep == TypeOk /\ InCall /\ [Next]_vars => TypeOk' /\ InCall'
  <1> SUFFICES ASSUME TypeOk, InCall, [Next]_vars
               PROVE  TypeOk' /\ InCall'
    OBVIOUS
  <1> USE DEF vars, ring, prod, cons, clock
  <1>0. /\ "poll" \in Modes
        /\ "none" \in Results /\ "data" \in Results /\ "empty" \in Results
        /\ "timeout" \in Results /\ "end" \in Results
        /\ 0 \in 0..MaxLen /\ 0 \in 0..MaxBytes /\ 0 \in 0..Cap /\ 0 \in Index
    BY DEF Modes, Results, Index
  <1>1. CASE \E len \in 0..MaxLen : CallWrite(len)
    BY <1>1 DEF CallWrite, TypeOk, InCall
  <1>2. CASE WriteStep
    <2>1. CASE WriteFails
      BY <2>1 DEF WriteFails, TypeOk, InCall
    <2>2. CASE WriteWaits
      BY <2>2 DEF WriteWaits, TypeOk, InCall, Producer
    <2>3. CASE WriteChunk
      <3> DEFINE n == Lesser(todo, Space)
      <3>1. /\ n \in 1..todo /\ n \in 0..Space
            /\ accepted + n <= MaxBytes
        BY <1>2, <2>3, ChunkSize DEF WriteStep, WriteChunk
      <3>2. CopyIn(n) \in [Index -> 0..MaxBytes]
        BY <3>1, CopiedIn
      <3>3. Advance(tail, n) \in Index
        BY <3>1, AdvanceInIndex DEF TypeOk, Space
      <3>4. /\ data' = CopyIn(n) /\ tail' = Advance(tail, n)
            /\ count' = count + n /\ accepted' = accepted + n /\ todo' = todo - n
            /\ ppc' = IF todo = n THEN "idle" ELSE "write"
            /\ waitSet' = IF todo = n THEN {} ELSE {Producer}
            /\ UNCHANGED <<head, closed, aborted, cons>>
        BY <2>3 DEF WriteChunk, AnnounceChunk
      <3> HIDE DEF n
      <3> QED BY <3>1, <3>2, <3>3, <3>4 DEF TypeOk, InCall, Space
    <2> QED BY <1>2, <2>1, <2>2, <2>3 DEF WriteStep
  <1>3. CASE \E len \in 0..MaxLen, m \in Modes : CallRead(len, m)
    <2>1. PICK len \in 0..MaxLen, m \in Modes : CallRead(len, m)
      BY <1>3
    <2>2. (IF m = "timed" THEN Timeout ELSE 0) \in Int
      BY TimeoutAssumption
    <2> QED BY <1>0, <2>1, <2>2, Cleared DEF CallRead, TypeOk, InCall
  <1>4. CASE ReadEnds \/ PollsEmpty \/ GivesUp
    <2>1. PICK res \in Results : ReadReturns(res)
      BY <1>0, <1>4 DEF ReadEnds, PollsEmpty, GivesUp
    <2>2. UNCHANGED <<ring, closed, aborted, waitSet, prod, accepted, taken>>
      BY <1>4 DEF ReadEnds, PollsEmpty, GivesUp
    <2> QED BY <1>0, <2>1, <2>2, Cleared DEF ReadReturns, TypeOk, InCall
  <1>5. CASE ReadTakes
    <2>1. CASE want = 0
      BY <1>0, <1>5, <2>1, Cleared DEF ReadTakes, ReadReturns, TypeOk, InCall
    <2>2. CASE want # 0
      <3> DEFINE n == Lesser(want, count)
      <3>1. n \in 0..count /\ n \in 0..Cap /\ n \in Nat
        BY DEF TypeOk, Lesser
      <3>2. Advance(head, n) \in Index
        BY <3>1, AdvanceInIndex DEF TypeOk
      <3>3. CopyOut(n) \in Seq(0..MaxBytes)
        BY <3>1 DEF CopyOut, Lesser, TypeOk, Index
      <3>4. /\ taken' = taken \o CopyOut(n)
            /\ head' = Advance(head, n) /\ count' = count - n
            /\ cpc' = "idle" /\ want' = 0 /\ mode' = "poll" /\ ClockStarts(0)
            /\ cres' = "data" /\ waitSet' = {}
            /\ UNCHANGED <<data, tail, closed, aborted, prod, accepted>>
        BY <1>5, <2>2 DEF ReadTakes, ReadReturns, Broadcast
      <3> HIDE DEF n
      <3>5. taken' \in Seq(0..MaxBytes)
        BY <3>3, <3>4 DEF TypeOk
      <3>6. count - n \in 0..Cap
        BY <3>1 DEF TypeOk
      <3> QED BY <1>0, <3>2, <3>4, <3>5, <3>6, Cleared DEF TypeOk, InCall
    <2> QED BY <2>1, <2>2
  <1>6. CASE (cpc = "read" /\ ReadWaits) \/ Expire
    <2>1. CASE cpc = "read" /\ ReadWaits /\ mode = "timed"
      <3>1. /\ WaitUntil(due)
            /\ UNCHANGED <<elapsed, early, ahead, back, ring, closed, aborted, prod,
                           want, mode, cres, accepted, taken>>
        BY <2>1 DEF ReadWaits
      <3> QED BY <2>1, <3>1 DEF WaitUntil, TypeOk, InCall, Consumer
    <2>2. CASE cpc = "read" /\ ReadWaits /\ mode # "timed"
      BY <2>2 DEF ReadWaits, TypeOk, InCall, Consumer
    <2>3. CASE Expire
      BY <2>3 DEF Expire, TypeOk, InCall
    <2> QED BY <1>6, <2>1, <2>2, <2>3
  <1>7. CASE cpc = "expired" /\ Rearm
    <2>1. PICK d \in Shifts \cup {0} : CountShift(d) /\ WaitUntil(NewDeadline(d))
      BY <1>7 DEF Rearm
    <2>2. NewDeadline(d) \in Int
      BY <2>1, Shifted, TimeoutAssumption DEF NewDeadline, Left, TypeOk
    <2>3. ahead' \in 0..MaxAhead /\ back' \in 0..MaxBack
      BY <2>1, Shifted
    <2> QED BY <1>7, <2>1, <2>2, <2>3 DEF Rearm, WaitUntil, TypeOk, InCall, Consumer
  <1>8. CASE Tick
    BY <1>8, MaxTimeAssumption DEF Tick, TypeOk, InCall
  <1>9. CASE \E d \in Shifts : WallStep(d)
    BY <1>9, Shifted DEF WallStep, TypeOk, InCall
  <1>10. CASE ReadStep \/ TimeOut
    BY <1>4, <1>5, <1>6, <1>7, <1>10, ReaderSteps
  <1>11. CASE \E t \in {Producer, Consumer} : SpuriousWake(t)
    BY <1>11 DEF SpuriousWake, TypeOk, InCall
  <1>12. CASE Close
    BY <1>12 DEF Close, Broadcast, TypeOk, InCall
  <1>13. CASE Abort
    BY <1>13 DEF Abort, Broadcast, TypeOk, InCall
  <1>14. CASE Reset
    <2>1. <<>> \in Seq(0..MaxBytes)
      OBVIOUS
    <2>2. TypeOk'
      BY <1>0, <1>14, <2>1 DEF Reset, Broadcast, TypeOk
    <2>3. InCall'
      BY <1>14 DEF Reset, TypeOk, InCall
    <2> QED BY <2>2, <2>3
  <1>15. CASE UNCHANGED vars
    BY <1>15 DEF TypeOk, InCall
  <1> QED BY <1>1, <1>2, <1>3, <1>6, <1>8, <1>9, <1>10, <1>11, <1>12, <1>13,
          <1>14, <1>15
          DEF Next

\* A chunk lands behind the bytes stored and disturbs none of them.
LEMMA ChunkKeepsFifo ==
    ASSUME TypeOk, FifoIntact, NEW n \in 1..Space, accepted + n <= MaxBytes,
           data' = CopyIn(n), tail' = Advance(tail, n), count' = count + n,
           accepted' = accepted + n, head' = head, taken' = taken
    PROVE  FifoIntact'
  <1>1. /\ head \in Index /\ tail \in Index /\ count \in 0..Cap
        /\ n \in 0..Cap /\ count + n <= Cap
        /\ accepted \in Nat /\ Len(taken) \in Nat
        /\ accepted = Len(taken) + count /\ tail = Advance(head, count)
    BY DEF TypeOk, Space, FifoIntact
  <1>2. tail' = Advance(head', count')
    BY <1>1, AdvanceTwice
  <1>3. ASSUME NEW k \in 0..(count + n - 1)
        PROVE  CopyIn(n)[Advance(head, k)] = Len(taken) + 1 + k
    <2>1. CASE k < count
      <3> DEFINE j == Cap - count + k
      <3>1. /\ j \in 0..(Cap - 1) /\ ~(j < n)
            /\ k \in 0..(count - 1)
        BY <1>1, <2>1
      <3>2. Advance(tail, j) = Advance(head, k)
        BY <1>1, <3>1, AdvanceRound
      <3>3. CopyIn(n)[Advance(tail, j)] = data[Advance(tail, j)]
        BY <3>1, CopiedIn
      <3> QED BY <3>1, <3>2, <3>3 DEF FifoIntact
    <2>2. CASE ~(k < count)
      <3> DEFINE j == k - count
      <3>1. /\ j \in 0..(Cap - 1) /\ j \in 0..Cap /\ j < n
            /\ count + j = k /\ count + j <= Cap
        BY <1>1, <2>2
      <3>2. Advance(tail, j) = Advance(head, k)
        <4>1. Advance(Advance(head, count), j) = Advance(head, count + j)
          BY <1>1, <3>1, AdvanceTwice
        <4> QED BY <1>1, <3>1, <4>1
      <3>3. CopyIn(n)[Advance(tail, j)] = accepted + 1 + j
        BY <3>1, CopiedIn
      <3> QED BY <1>1, <3>1, <3>2, <3>3
    <2> QED BY <2>1, <2>2
  <1>4. accepted' = Len(taken') + count'
    BY <1>1
  <1>5. \A k \in 1..Len(taken') : taken'[k] = k
    BY DEF FifoIntact
  <1>6. ASSUME NEW k \in 0..(count' - 1)
        PROVE  data'[Advance(head', k)] = Len(taken') + 1 + k
    <2>1. k \in 0..(count + n - 1)
      BY <1>1
    <2> QED BY <1>3, <2>1
  <1> QED BY <1>2, <1>4, <1>5, <1>6 DEF FifoIntact

\* A read takes the oldest bytes and leaves the others where they were.
LEMMA ReadKeepsFifo ==
    ASSUME TypeOk, FifoIntact, NEW n \in 1..count,
           taken' = taken \o CopyOut(n), head' = Advance(head, n), count' = count - n,
           data' = data, tail' = tail, accepted' = accepted
    PROVE  FifoIntact'
  <1>1. /\ head \in Index /\ tail \in Index /\ count \in 0..Cap /\ n \in 0..Cap
        /\ taken \in Seq(0..MaxBytes) /\ Len(taken) \in Nat
        /\ accepted = Len(taken) + count /\ tail = Advance(head, count)
        /\ \A k \in 0..(count - 1) : data[Advance(head, k)] = Len(taken) + 1 + k
        /\ \A k \in 1..Len(taken) : taken[k] = k
    BY DEF TypeOk, FifoIntact
  <1>2. CopyOut(n) = [k \in 1..n |-> Len(taken) + k]
    BY <1>1, CopiedOut
  <1>3. /\ Len(taken') = Len(taken) + n
        /\ \A k \in 1..Len(taken') : taken'[k] = k
    BY <1>1, <1>2
  <1>4. tail' = Advance(head', count')
    BY <1>1, AdvanceTwice
  <1>5. ASSUME NEW k \in 0..(count - n - 1)
        PROVE  data[Advance(Advance(head, n), k)] = Len(taken) + n + 1 + k
    <2>1. n + k \in 0..(count - 1) /\ k \in 0..Cap /\ n + k <= Cap
      BY <1>1
    <2>2. Advance(Advance(head, n), k) = Advance(head, n + k)
      BY <1>1, <2>1, AdvanceTwice
    <2>3. data[Advance(head, n + k)] = Len(taken) + 1 + (n + k)
      BY <1>1, <2>1
    <2> QED BY <1>1, <2>2, <2>3
  <1>6. accepted' = Len(taken') + count'
    BY <1>1, <1>3
  <1> QED BY <1>3, <1>4, <1>5, <1>6 DEF FifoIntact

\* Nothing is said of the threads.
LEMMA SameRing ==
    ASSUME FifoIntact, UNCHANGED <<ring, accepted, taken>>
    PROVE  FifoIntact'
  BY DEF FifoIntact, ring

\* No step loses, repeats or reorders a byte.
LEMMA FifoStep == TypeOk /\ InCall /\ FifoIntact /\ [Next]_vars => FifoIntact'
  <1> SUFFICES ASSUME TypeOk, InCall, FifoIntact, [Next]_vars
               PROVE  FifoIntact'
    OBVIOUS
  <1> USE DEF vars, prod, cons
  <1>1. CASE \E len \in 0..MaxLen : CallWrite(len)
    BY <1>1, SameRing DEF CallWrite
  <1>2. CASE WriteStep
    <2>1. CASE WriteFails \/ WriteWaits
      BY <2>1, SameRing DEF WriteFails, WriteWaits
    <2>2. CASE WriteChunk
      <3> DEFINE n == Lesser(todo, Space)
      <3>1. n \in 1..Space /\ accepted + n <= MaxBytes
        BY <1>2, <2>2, ChunkSize DEF WriteStep, WriteChunk
      <3>2. /\ data' = CopyIn(n) /\ tail' = Advance(tail, n) /\ count' = count + n
            /\ accepted' = accepted + n /\ head' = head /\ taken' = taken
        BY <2>2 DEF WriteChunk
      <3> HIDE DEF n
      <3> QED BY <3>1, <3>2, ChunkKeepsFifo
    <2> QED BY <1>2, <2>1, <2>2 DEF WriteStep
  <1>3. CASE \E len \in 0..MaxLen, m \in Modes : CallRead(len, m)
    BY <1>3, SameRing DEF CallRead
  <1>4. CASE ReadStep \/ TimeOut
    <2>1. CASE ReadEnds \/ PollsEmpty \/ GivesUp \/ ReadWaits \/ Rearm
      BY <2>1, SameRing DEF ReadEnds, PollsEmpty, GivesUp, ReadWaits, Rearm
    <2>2. CASE ReadTakes /\ want = 0
      BY <2>2, SameRing DEF ReadTakes
    <2>3. CASE ReadTakes /\ want # 0
      <3> DEFINE n == Lesser(want, count)
      <3>1. n \in 1..count
        BY <2>3 DEF ReadTakes, TypeOk, Lesser
      <3>2. /\ taken' = taken \o CopyOut(n) /\ head' = Advance(head, n)
            /\ count' = count - n /\ data' = data /\ tail' = tail
            /\ accepted' = accepted
        BY <2>3 DEF ReadTakes
      <3> HIDE DEF n
      <3> QED BY <3>1, <3>2, ReadKeepsFifo
    <2> QED BY <1>4, <2>1, <2>2, <2>3, ReaderSteps
  <1>5. CASE Tick \/ Expire \/ \E d \in Shifts : WallStep(d)
    BY <1>5, SameRing DEF Tick, Expire, WallStep
  <1>6. CASE \E t \in {Producer, Consumer} : SpuriousWake(t)
    BY <1>6, SameRing DEF SpuriousWake
  <1>7. CASE Close \/ Abort
    BY <1>7, SameRing DEF Close, Abort
  <1>8. CASE Reset
    <2>1. Advance(0, 0) = 0
      BY Z3 DEF Advance
    <2> QED BY <1>8, <2>1 DEF Reset, FifoIntact
  <1>9. CASE UNCHANGED vars
    BY <1>9, SameRing
  <1> QED BY <1>1, <1>2, <1>3, <1>4, <1>5, <1>6, <1>7, <1>8, <1>9 DEF Next

\* Every change a parked thread waits for comes with its broadcast.
LEMMA WakeStep == TypeOk /\ InCall /\ NoLostWakeup /\ [Next]_vars => NoLostWakeup'
  <1> SUFFICES ASSUME TypeOk, InCall, NoLostWakeup, [Next]_vars
               PROVE  NoLostWakeup'
    OBVIOUS
  <1>0. Producer # Consumer
    BY DEF Producer, Consumer
  <1> USE DEF vars, ring, prod, cons, MustWaitToWrite, ReadEnded
  <1>1. CASE \E len \in 0..MaxLen : CallWrite(len)
    BY <1>1 DEF CallWrite, NoLostWakeup
  <1>2. CASE WriteStep
    <2>1. CASE WriteFails
      BY <1>2, <2>1 DEF WriteStep, WriteFails, NoLostWakeup
    <2>2. CASE WriteWaits
      BY <1>0, <1>2, <2>2 DEF WriteStep, WriteWaits, NoLostWakeup
    <2>3. CASE WriteChunk
      <3> DEFINE n == Lesser(todo, Space)
      <3>1. n # todo => n = Space
        BY <1>2, <2>3, ChunkSize DEF WriteStep, WriteChunk
      <3>2. /\ ~aborted' /\ ~closed'
            /\ count' = count + n
            /\ ppc' = IF todo = n THEN "idle" ELSE "write"
            /\ waitSet' = IF todo = n THEN {} ELSE {Producer}
        BY <2>3 DEF WriteChunk, AnnounceChunk, WriteRefused
      <3> HIDE DEF n
      <3>3. n = Space => count + n = Cap
        BY DEF Space, TypeOk
      <3> QED BY <1>0, <3>1, <3>2, <3>3 DEF NoLostWakeup
    <2> QED BY <1>2, <2>1, <2>2, <2>3 DEF WriteStep
  <1>3. CASE \E len \in 0..MaxLen, m \in Modes : CallRead(len, m)
    BY <1>3 DEF CallRead, NoLostWakeup
  <1>4. CASE ReadStep \/ TimeOut
    <2>0. Consumer \notin waitSet
      BY <1>4 DEF ReadStep, TimeOut, NoLostWakeup
    <2>1. CASE ReadEnds \/ PollsEmpty \/ GivesUp
      BY <2>0, <2>1 DEF ReadEnds, PollsEmpty, GivesUp, ReadReturns, NoLostWakeup
    <2>2. CASE ReadTakes
      BY <2>0, <2>2 DEF ReadTakes, ReadReturns, Broadcast, NoLostWakeup
    <2>3. CASE cpc = "read" /\ ReadWaits
      <3>1. /\ count = 0 /\ ~ReadEnded
            /\ UNCHANGED <<ring, closed, aborted, prod>>
        BY <2>3 DEF ReadWaits, NothingYet
      <3>2. \/ cpc' = "read" /\ waitSet' = waitSet \cup {Consumer}
            \/ UNCHANGED waitSet
        BY <2>3 DEF ReadWaits, WaitUntil
      <3> QED BY <1>0, <2>0, <3>1, <3>2 DEF NoLostWakeup
    <2>4. CASE cpc = "expired" /\ Rearm
      BY <1>0, <2>0, <2>4 DEF Rearm, NothingYet, WaitUntil, NoLostWakeup
    <2> QED BY <1>4, <2>1, <2>2, <2>3, <2>4, ReaderSteps
  <1>5. CASE Tick \/ \E d \in Shifts : WallStep(d)
    BY <1>5 DEF Tick, WallStep, NoLostWakeup
  <1>6. CASE Expire
    BY <1>6 DEF Expire, NoLostWakeup
  <1>7. CASE \E t \in {Producer, Consumer} : SpuriousWake(t)
    BY <1>7 DEF SpuriousWake, NoLostWakeup
  <1>8. CASE Close \/ Abort \/ Reset
    BY <1>8 DEF Close, Abort, Reset, Broadcast, NoLostWakeup
  <1>9. CASE UNCHANGED vars
    BY <1>9 DEF NoLostWakeup
  <1> QED BY <1>1, <1>2, <1>3, <1>4, <1>5, <1>6, <1>7, <1>8, <1>9 DEF Next

\* Nothing is stored after the close whose end was reported.
LEMMA EndStep ==
    TypeOk /\ FifoIntact /\ EndOnlyWhenDrained /\ [Next]_vars => EndOnlyWhenDrained'
  <1> SUFFICES ASSUME TypeOk, FifoIntact, EndOnlyWhenDrained, [Next]_vars
               PROVE  EndOnlyWhenDrained'
    OBVIOUS
  <1>0. /\ accepted = Len(taken) + count
        /\ count = 0 => Len(taken) = accepted
    BY DEF TypeOk, FifoIntact
  <1> USE DEF vars, ring, prod, cons
  <1>1. CASE \E len \in 0..MaxLen : CallWrite(len)
    BY <1>1 DEF CallWrite, EndOnlyWhenDrained
  <1>2. CASE WriteStep
    BY <1>2 DEF WriteStep, WriteFails, WriteWaits, WriteChunk, WriteRefused,
                EndOnlyWhenDrained
  <1>3. CASE \E len \in 0..MaxLen, m \in Modes : CallRead(len, m)
    BY <1>3 DEF CallRead, EndOnlyWhenDrained
  <1>4. CASE ReadStep \/ TimeOut
    <2>1. CASE ReadEnds
      BY <1>0, <2>1 DEF ReadEnds, ReadEnded, ReadReturns, EndOnlyWhenDrained
    <2>2. CASE ReadTakes \/ PollsEmpty \/ GivesUp
      BY <2>2 DEF ReadTakes, PollsEmpty, GivesUp, ReadReturns, EndOnlyWhenDrained
    <2>3. CASE ReadWaits \/ Rearm
      BY <2>3 DEF ReadWaits, Rearm, EndOnlyWhenDrained
    <2> QED BY <1>4, <2>1, <2>2, <2>3, ReaderSteps
  <1>5. CASE Tick \/ \E d \in Shifts : WallStep(d)
    BY <1>5 DEF Tick, WallStep, EndOnlyWhenDrained
  <1>6. CASE Expire
    BY <1>6 DEF Expire, EndOnlyWhenDrained
  <1>7. CASE \E t \in {Producer, Consumer} : SpuriousWake(t)
    BY <1>7 DEF SpuriousWake, EndOnlyWhenDrained
  <1>8. CASE Close \/ Abort \/ Reset
    BY <1>8 DEF Close, Abort, Reset, EndOnlyWhenDrained
  <1>9. CASE UNCHANGED vars
    BY <1>9 DEF EndOnlyWhenDrained
  <1> QED BY <1>1, <1>2, <1>3, <1>4, <1>5, <1>6, <1>7, <1>8, <1>9 DEF Next

\* Where the clocks and the reader stand still, and it is not put to sleep.
LEMMA SameTime ==
    ASSUME TimeKept, UNCHANGED <<clock, cpc, mode>>,
           Consumer \in waitSet' => Consumer \in waitSet
    PROVE  TimeKept'
  BY DEF TimeKept, Short, NoSpin, SleepBounded, clock

\* No step makes the reader wait, expire or give up out of the caller's time unless
\* the wall clock was set for it.
LEMMA TimeStep ==
    TypeOk /\ InCall /\ NoLostWakeup /\ TimeKept /\ [Next]_vars => TimeKept'
  <1> SUFFICES ASSUME TypeOk, InCall, NoLostWakeup, TimeKept, [Next]_vars
               PROVE  TimeKept'
    OBVIOUS
  <1>0. /\ Producer # Consumer
        /\ elapsed \in Nat /\ due \in Int /\ delay \in Nat /\ early \in Nat
        /\ ahead \in Nat /\ back \in Nat /\ Timeout \in Nat \ {0}
    BY TimeoutAssumption, MaxTimeAssumption, SetAssumption DEF TypeOk, Producer, Consumer
  <1> USE DEF vars, ring, prod, cons
  <1>1. CASE \E len \in 0..MaxLen : CallWrite(len)
    BY <1>1, SameTime DEF CallWrite
  <1>2. CASE WriteStep
    BY <1>0, <1>2, SameTime
       DEF WriteStep, WriteFails, WriteWaits, WriteChunk, AnnounceChunk
  <1>3. CASE \E len \in 0..MaxLen, m \in Modes : CallRead(len, m)
    <2>1. PICK len \in 0..MaxLen, m \in Modes : CallRead(len, m)
      BY <1>3
    <2>2. Consumer \notin waitSet'
      BY <2>1 DEF CallRead, NoLostWakeup
    <2> QED BY <1>0, <2>1, <2>2
            DEF CallRead, ClockStarts, TimeKept, Short, NoSpin, SleepBounded
  <1>4. CASE ReadStep \/ TimeOut
    <2>1. CASE ReadEnds \/ ReadTakes \/ PollsEmpty \/ GivesUp
      <3>1. mode' = "poll" /\ early' = 0 /\ ahead' = 0
        BY <2>1 DEF ReadEnds, ReadTakes, PollsEmpty, GivesUp, ReadReturns, ClockStarts
      <3> QED BY <3>1 DEF TimeKept, NoSpin, SleepBounded
    <2>2. CASE cpc = "read" /\ ReadWaits
      <3>1. CASE mode = "timed"
        <4>1. /\ UNCHANGED <<elapsed, early, ahead, back, mode>> /\ WaitUntil(due)
          BY <2>2, <3>1 DEF ReadWaits
        <4> QED BY <1>0, <2>2, <3>1, <4>1
                DEF WaitUntil, TimeKept, Short, NoSpin, SleepBounded
      <3>2. CASE mode # "timed"
        BY <2>2, <3>2 DEF ReadWaits, TimeKept, NoSpin, SleepBounded, clock
      <3> QED BY <3>1, <3>2
    <2>3. CASE cpc = "expired" /\ Rearm
      <3>1. PICK d \in Shifts \cup {0} : CountShift(d) /\ WaitUntil(NewDeadline(d))
        BY <2>3 DEF Rearm
      <3>2. /\ mode = "timed" /\ mode' = mode /\ elapsed' = elapsed
            /\ early' = early + 1 /\ elapsed < Timeout
        BY <1>0, <2>3 DEF Rearm, Left, InCall
      <3>3. early < ahead /\ early <= ahead
        BY <1>0, <2>3, <3>2 DEF TimeKept, Short
      <3>4. /\ d \in Int
            /\ d > 0 => ahead' = ahead + 1 /\ back' = back
            /\ d <= 0 => ahead' = ahead /\ back' = back - d
        BY <3>1, Shifted
      <3>5. due' = Timeout - elapsed - d
        BY <1>0, <3>1, <3>4 DEF WaitUntil, NewDeadline, Left
      <3>6. IF due' > 0 THEN cpc' = "read" /\ delay' = due'
                       ELSE cpc' = "expired" /\ delay' = 0
        BY <3>1 DEF WaitUntil
      <3> QED BY <1>0, <3>2, <3>3, <3>4, <3>5, <3>6
              DEF TimeKept, Short, NoSpin, SleepBounded
    <2> QED BY <1>4, <2>1, <2>2, <2>3, ReaderSteps
  <1>5. CASE Tick
    BY <1>0, <1>5 DEF Tick, TimeKept, Short, NoSpin, SleepBounded
  <1>6. CASE \E d \in Shifts : WallStep(d)
    <2>1. PICK d \in Shifts : WallStep(d)
      BY <1>6
    <2>2. /\ d \in Int
          /\ d > 0 => ahead' = ahead + 1 /\ back' = back
          /\ d <= 0 => ahead' = ahead /\ back' = back - d
      BY <2>1, Shifted DEF WallStep
    <2>3. /\ due' = due - d
          /\ UNCHANGED <<waitSet, cpc, mode, elapsed, delay, early>>
      BY <2>1 DEF WallStep
    <2> QED BY <1>0, <2>2, <2>3 DEF TimeKept, Short, NoSpin, SleepBounded
  <1>7. CASE Expire
    BY <1>0, <1>7 DEF Expire, clock, TimeKept, Short, NoSpin, SleepBounded
  <1>8. CASE \E t \in {Producer, Consumer} : SpuriousWake(t)
    BY <1>8, SameTime DEF SpuriousWake
  <1>9. CASE Close \/ Abort \/ Reset
    BY <1>9, SameTime DEF Close, Abort, Reset, Broadcast
  <1>10. CASE UNCHANGED vars
    BY <1>10, SameTime
  <1> QED BY <1>1, <1>2, <1>3, <1>4, <1>5, <1>6, <1>7, <1>8, <1>9, <1>10 DEF Next

-----------------------------------------------------------------------------
(* Theorems                                                                *)

\* In every reachable state of the ring (ringbuf.c), for every capacity, length of
\* call, number of bytes and timeout, and every set of clock steps: the invariant
\* the theorems below follow from.
THEOREM Invariance == Spec => []IInv
  <1>1. Init => IInv
    BY InitIInv
  <1>2. IInv /\ [Next]_vars => IInv'
    BY TypeStep, FifoStep, WakeStep, EndStep, TimeStep DEF IInv
  <1> QED BY <1>1, <1>2, PTL DEF Spec

\* The ring always holds exactly the accepted and unread bytes in order, the reader
\* has received exactly the others in order, nobody sleeps on a condition that
\* already holds, and -1 without an abort means everything was delivered
\* (ringbuf.c:39-202).
THEOREM RingStaysSound == Spec => []RingSound
  <1>1. IInv => RingSound
    BY DEF IInv, RingSound
  <1> QED BY <1>1, Invariance, PTL

\* However the wall clock is set under it, a timed read reports a timeout only once
\* its time has passed, wakes early no more often than the clock was set forward, and
\* sleeps past its time by no more than the clock was set back (ringbuf.c:111-118,
\* 150-157).
THEOREM TimedReadsKeepTime == Spec => TimedReadKeepsTime
  <1> DEFINE Real == mode = "timed" /\ cres' = "timeout" => elapsed >= Timeout
  <1>1. IInv /\ [Next]_vars => [Real]_vars
    <2> SUFFICES ASSUME TypeOk, InCall, Next, mode = "timed", cres' = "timeout"
                 PROVE  elapsed >= Timeout
      BY DEF IInv
    <2>1. cres' # cres /\ cpc # "idle"
      BY DEF InCall
    <2>2. CASE ReadStep \/ TimeOut
      <3>1. GivesUp
        BY <2>1, <2>2, ReaderSteps
           DEF ReadEnds, ReadTakes, PollsEmpty, ReadWaits, Rearm, ReadReturns
      <3> QED BY <3>1, TimeoutAssumption, MaxTimeAssumption DEF GivesUp, Left, TypeOk
    <2> QED BY <2>1, <2>2
            DEF Next, CallWrite, WriteStep, WriteFails, WriteWaits, WriteChunk, CallRead,
                Tick, WallStep, Expire, SpuriousWake, Close, Abort, Reset, cons
  <1>2. IInv => NoSpin /\ SleepBounded
    BY DEF IInv, TimeKept
  <1> QED BY <1>1, <1>2, Invariance, PTL DEF Spec, TimedReadKeepsTime, TimeoutIsReal

-----------------------------------------------------------------------------
(* The refinement                                                          *)

\* What the queue of the abstraction holds, and how many bytes that is.
InOrder ==
    /\ Stored = [k \in 1..count |-> Len(taken) + k]
    /\ Stored \in Seq(Nat)
    /\ Len(Stored) = count

\* The ring read from head on is that queue.
LEMMA StoredInOrder == IInv => InOrder
  <1> SUFFICES ASSUME TypeOk, FifoIntact PROVE InOrder
    BY DEF IInv
  <1>1. count \in Nat /\ Len(taken) \in Nat
    BY DEF TypeOk
  <1>2. ASSUME NEW k \in 1..count
        PROVE  data[Advance(head, k - 1)] = Len(taken) + k
    <2>1. k - 1 \in 0..(count - 1)
      BY <1>1
    <2>2. data[Advance(head, k - 1)] = Len(taken) + 1 + (k - 1)
      BY <2>1 DEF FifoIntact
    <2> QED BY <1>1, <2>2
  <1>3. Stored = [k \in 1..count |-> Len(taken) + k]
    BY <1>2 DEF Stored
  <1> QED BY <1>1, <1>3 DEF InOrder

\* The same in the next state.
LEMMA StoredInOrderNext == IInv' => InOrder'
  BY StoredInOrder, PTL

\* One turn of rb_write's loop is one Put of the queue.
LEMMA ChunkIsPut ==
    ASSUME IInv, IInv', ppc = "write", WriteChunk
    PROVE  \E n \in 1..Cap : Fifo!Put(n)
  <1> DEFINE n == Lesser(todo, Space)
  <1>1. n \in 1..Space /\ n \in 1..Cap /\ count + n <= Cap
    <2>1. n \in 1..todo /\ n \in 0..Space
      BY ChunkSize DEF IInv, WriteChunk
    <2> HIDE DEF n
    <2> QED BY <2>1 DEF IInv, TypeOk, Space
  <1>2. /\ ~closed /\ ~aborted /\ count' = count + n
        /\ UNCHANGED <<taken, closed, aborted, cres>>
    BY DEF WriteChunk, WriteRefused, cons
  <1> HIDE DEF n
  <1>3. /\ Stored = [k \in 1..count |-> Len(taken) + k]
        /\ Stored \in Seq(Nat) /\ Len(Stored) = count
    BY StoredInOrder DEF InOrder
  <1>4. Stored' = [k \in 1..count' |-> Len(taken') + k]
    BY StoredInOrderNext DEF InOrder
  <1>5. count \in Nat /\ Len(taken) \in Nat
    BY DEF IInv, TypeOk
  <1>6. Stored' = Stored \o [k \in 1..n |-> Len(taken) + count + k]
    BY <1>1, <1>2, <1>3, <1>4, <1>5
  <1>7. Fifo!Put(n)
    BY <1>1, <1>2, <1>3, <1>6 DEF Fifo!Put, Fifo!NextBytes
  <1> QED BY <1>1, <1>7

\* One rb_read that delivers is one Take.
LEMMA ReadIsTake ==
    ASSUME IInv, IInv', ReadTakes, want # 0
    PROVE  \E n \in 1..Len(Stored) : Fifo!Take(n)
  <1> DEFINE n == Lesser(want, count)
  <1>1. n \in 1..count
    BY DEF IInv, TypeOk, ReadTakes, Lesser
  <1>2. /\ ~aborted /\ count' = count - n /\ taken' = taken \o CopyOut(n)
        /\ cres' = "data" /\ UNCHANGED <<closed, aborted>>
    BY DEF ReadTakes, ReadReturns
  <1> HIDE DEF n
  <1>3. /\ Stored = [k \in 1..count |-> Len(taken) + k]
        /\ Stored \in Seq(Nat) /\ Len(Stored) = count
    BY StoredInOrder DEF InOrder
  <1>4. Stored' = [k \in 1..count' |-> Len(taken') + k]
    BY StoredInOrderNext DEF InOrder
  <1>5. count \in Nat /\ Len(taken) \in Nat /\ taken \in Seq(Nat)
    BY SMTT(40) DEF IInv, TypeOk
  <1>6. CopyOut(n) = [k \in 1..n |-> Len(taken) + k]
    BY <1>1, CopiedOut DEF IInv
  <1>7. SubSeq(Stored, 1, n) = CopyOut(n)
    BY <1>1, <1>3, <1>5, <1>6
  <1>8. Len(taken') = Len(taken) + n
    BY <1>1, <1>2, <1>5, <1>6
  <1>9. Stored' = SubSeq(Stored, n + 1, Len(Stored))
    BY <1>1, <1>2, <1>3, <1>4, <1>5, <1>8
  <1>10. Fifo!Take(n)
    BY <1>2, <1>7, <1>9 DEF Fifo!Take
  <1> QED BY <1>1, <1>3, <1>10

\* A read that takes nothing answers as the queue does.
LEMMA AnswerIsFifos ==
    ASSUME IInv, ReadEnds \/ PollsEmpty \/ GivesUp \/ (ReadTakes /\ want = 0)
    PROVE  Fifo!TakeNone \/ Fifo!GiveUp \/ Fifo!TellEnd
  <1>1. Stored = <<>> <=> count = 0
    BY StoredInOrder DEF InOrder, IInv, TypeOk
  <1>2. UNCHANGED <<Stored, taken, closed, aborted>>
    BY DEF ReadEnds, PollsEmpty, GivesUp, ReadTakes, Stored, ring
  <1>3. CASE ReadEnds
    BY <1>1, <1>2, <1>3 DEF ReadEnds, ReadEnded, ReadReturns, Fifo!TellEnd
  <1>4. CASE PollsEmpty \/ GivesUp
    BY <1>1, <1>2, <1>4
       DEF PollsEmpty, GivesUp, NothingYet, ReadEnded, ReadReturns, Fifo!GiveUp
  <1>5. CASE ReadTakes /\ want = 0
    BY <1>1, <1>2, <1>5 DEF ReadTakes, ReadReturns, Fifo!TakeNone, IInv, TypeOk
  <1> QED BY <1>3, <1>4, <1>5

\* Every step of the ring is a step of the queue, or none.
LEMMA RefinesStep == IInv /\ IInv' /\ [Next]_vars => [Fifo!Next]_(Fifo!fifoVars)
  <1> SUFFICES ASSUME IInv, IInv', [Next]_vars
               PROVE  Fifo!Next \/ UNCHANGED Fifo!fifoVars
    OBVIOUS
  <1>0. ASSUME UNCHANGED <<ring, taken, closed, aborted, cres>>
        PROVE  UNCHANGED Fifo!fifoVars
    BY <1>0 DEF ring, Stored, Fifo!fifoVars
  <1> USE DEF vars, prod, cons
  <1>1. CASE \E len \in 0..MaxLen : CallWrite(len)
    BY <1>0, <1>1 DEF CallWrite
  <1>2. CASE WriteStep
    <2>1. CASE WriteFails \/ WriteWaits
      BY <1>0, <2>1 DEF WriteFails, WriteWaits
    <2>2. CASE WriteChunk
      BY <1>2, <2>2, ChunkIsPut DEF WriteStep, Fifo!Next
    <2> QED BY <1>2, <2>1, <2>2 DEF WriteStep
  <1>3. CASE \E len \in 0..MaxLen, m \in Modes : CallRead(len, m)
    BY <1>3 DEF CallRead, ring, Stored, Fifo!Next, Fifo!Ask
  <1>4. CASE ReadStep \/ TimeOut
    <2>1. CASE ReadEnds \/ PollsEmpty \/ GivesUp \/ (ReadTakes /\ want = 0)
      BY <2>1, AnswerIsFifos DEF Fifo!Next
    <2>2. CASE ReadWaits \/ Rearm
      BY <1>0, <2>2 DEF ReadWaits, Rearm
    <2>3. CASE ReadTakes /\ want # 0
      BY <2>3, ReadIsTake DEF Fifo!Next
    <2> QED BY <1>4, <2>1, <2>2, <2>3, ReaderSteps
  <1>5. CASE Tick \/ Expire \/ \E d \in Shifts : WallStep(d)
    BY <1>0, <1>5 DEF Tick, Expire, WallStep
  <1>6. CASE \E t \in {Producer, Consumer} : SpuriousWake(t)
    BY <1>0, <1>6 DEF SpuriousWake
  <1>7. CASE Close
    BY <1>7 DEF Close, ring, Stored, Fifo!Next, Fifo!Close
  <1>8. CASE Abort
    BY <1>8 DEF Abort, ring, Stored, Fifo!Next, Fifo!Abort
  <1>9. CASE Reset
    <2>1. Stored' = <<>>
      BY <1>9 DEF Reset, Stored
    <2> QED BY <1>9, <2>1 DEF Reset, Fifo!Next, Fifo!Reset
  <1>10. CASE UNCHANGED vars
    BY <1>0, <1>10
  <1> QED BY <1>1, <1>2, <1>3, <1>4, <1>5, <1>6, <1>7, <1>8, <1>9, <1>10 DEF Next

\* ringbuf.c implements the bounded queue ringbuf.h describes: every critical
\* section is one step of the queue, or leaves it alone.
THEOREM RingImplementsFifo == Spec => ImplementsFifo
  <1>1. Init => Fifo!Init
    BY DEF Init, Stored, Fifo!Init
  <1> QED BY <1>1, RefinesStep, Invariance, PTL DEF Spec, ImplementsFifo, Fifo!Spec

=============================================================================
