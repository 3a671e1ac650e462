--------------------------- MODULE HlsWorkerProofs ---------------------------
(***************************************************************************)
(* Proofs about HlsWorker, for any limits, window and server: the worker's *)
(* counters stay in their limits, what it reports is true, a break in the  *)
(* broadcast never meets a demuxer that was not reset, and nothing is      *)
(* replayed while the server is no later than the limits allow.            *)
(***************************************************************************)
EXTENDS HlsWorker, TLAPS

USE LimitAssumption, BoundAssumption, ServerAssumption

Ended == {"closing", "closed", "finished"}

\* The playlist is a window of the broadcast, and a round goes through it from its
\* start without running ahead of next_seq.
InOrder ==
    /\ pl.first <= pl.last /\ pl.first + pl.off >= 0
    /\ pc = "window" => pl.first <= cur /\ Seq(cur) <= next_seq
    /\ next_seq = -1 => fed = 0
    /\ pc \notin Ended => seg_fails <= MAX_SEG_FAILS /\ reload_fails <= MAX_RELOAD_FAILS

\* A break not yet met by a reset has one coming: with neither the flag nor a fresh
\* demuxer, the segments since the last one fed follow each other untagged.
Marked ==
    /\ over # {} => pending_disc \/ fresh
    /\ fed # 0 /\ ~renumbered /\ ~pending_disc /\ ~fresh
           => /\ next_seq = Seq(tried) + 1
              /\ tried >= fed
              /\ Disc \cap ((fed + 1)..tried) = {}

\* The worker comes to its end with the reason.
EndTold ==
    /\ pc = "closing" /\ ~err => stop \/ pl.end
    /\ result # "none" => pc \in {"closed", "finished"}
    /\ ResultIsHonest

IInv == TypeOk /\ InOrder /\ Marked /\ EndTold

\* A server that shows the edge of one broadcast and lags by MaxLag loads at most:
\* the stale rounds counted are loads it really was late for.
InStep ==
    server = "sound" =>
        /\ pl.off = 0
        /\ fed # 0 => next_seq > fed
        /\ pc = "after" => ~pl.end
        /\ pc = "reload" => last_edge = pl.last /\ stale_reloads <= lag
        /\ pc \in {"round", "window", "after"} /\ last_edge = pl.last /\ ~pl.end
               => stale_reloads < lag
        /\ pc \in {"load", "hop"} => last_edge = NoEdge

-----------------------------------------------------------------------------
(* Types                                                                   *)

\* TypeOk in three parts.
FlagsOk ==
    /\ server \in Servers /\ pc \in Steps /\ result \in {"none", "ok", "failed"}
    /\ stop \in BOOLEAN /\ considered \in BOOLEAN /\ played \in BOOLEAN
    /\ pending_disc \in BOOLEAN /\ ready_sent \in BOOLEAN /\ err \in BOOLEAN
    /\ fresh \in BOOLEAN /\ renumbered \in BOOLEAN

PlaceOk ==
    /\ pl \in [first : Segments, last : Segments, off : -MaxPub..0, end : BOOLEAN]
    /\ next_seq \in -1..(MaxPub + 1) /\ cur \in 0..(MaxPub + 1)
    /\ fed \in Segments /\ tried \in Segments /\ over \subseteq Disc

CountsOk ==
    /\ seg_fails \in 0..(MAX_SEG_FAILS + 1)
    /\ reload_fails \in 0..(MAX_RELOAD_FAILS + 1)
    /\ stale_reloads \in 0..MAX_STALE_RELOADS
    /\ last_edge \in NoEdge..MaxPub /\ idle \in 0..(STALL + 1)
    /\ lag \in 0..MaxLag

\* The three parts are the type invariant ...
LEMMA TypeParts == TypeOk <=> FlagsOk /\ PlaceOk /\ CountsOk
  BY DEF TypeOk, FlagsOk, PlaceOk, CountsOk

\* ... and so they are in the next state.
LEMMA TypePartsNext == TypeOk' <=> FlagsOk' /\ PlaceOk' /\ CountsOk'
  BY TypeParts, PTL

\* What a load brings.
LEMMA LoadedWindow ==
    ASSUME TypeOk, Loaded
    PROVE  /\ pl' \in [first : Segments, last : Segments, off : -MaxPub..0, end : BOOLEAN]
           /\ pl'.first <= pl'.last /\ pl'.first >= 1 /\ pl'.first + pl'.off >= 0
           /\ server # "erratic" => pl'.off = pl.off
           /\ lag' \in 0..MaxLag
           /\ renumbered' = (renumbered \/ pl'.off # pl.off)
           /\ server = "sound" =>
                  \/ pl'.last > pl.last
                  \/ pl'.last = pl.last /\ (pl'.end \/ lag' = lag + 1)
  <1>1. PICK last \in 1..MaxPub, end \in BOOLEAN :
           \E first \in Larger(last - Window + 1, 1)..last :
           \E off \in IF Erratic THEN {pl.off, -first} ELSE {pl.off} :
              /\ first + off >= 0
              /\ \/ Erratic
                 \/ /\ last >= pl.last /\ first >= pl.first
                    /\ last > pl.last \/ end \/ lag < MaxLag
              /\ pl' = [first |-> first, last |-> last, off |-> off, end |-> end]
              /\ lag' = IF last > pl.last \/ Erratic THEN 0
                        ELSE IF lag = MaxLag THEN lag ELSE lag + 1
              /\ renumbered' = (renumbered \/ off # pl.off)
    BY DEF Loaded
  <1>a. PICK first \in Larger(last - Window + 1, 1)..last :
           \E off \in IF Erratic THEN {pl.off, -first} ELSE {pl.off} :
              /\ first + off >= 0
              /\ \/ Erratic
                 \/ /\ last >= pl.last /\ first >= pl.first
                    /\ last > pl.last \/ end \/ lag < MaxLag
              /\ pl' = [first |-> first, last |-> last, off |-> off, end |-> end]
              /\ lag' = IF last > pl.last \/ Erratic THEN 0
                        ELSE IF lag = MaxLag THEN lag ELSE lag + 1
              /\ renumbered' = (renumbered \/ off # pl.off)
    BY <1>1
  <1>2. PICK off \in IF Erratic THEN {pl.off, -first} ELSE {pl.off} :
              /\ first + off >= 0
              /\ \/ Erratic
                 \/ /\ last >= pl.last /\ first >= pl.first
                    /\ last > pl.last \/ end \/ lag < MaxLag
              /\ pl' = [first |-> first, last |-> last, off |-> off, end |-> end]
              /\ lag' = IF last > pl.last \/ Erratic THEN 0
                        ELSE IF lag = MaxLag THEN lag ELSE lag + 1
              /\ renumbered' = (renumbered \/ off # pl.off)
    BY <1>a
  <1>3. first \in 1..last /\ first \in Segments /\ last \in Segments
    BY <1>2 DEF Larger, Segments
  <1>4. pl.off \in -MaxPub..0 /\ pl.last \in Nat /\ lag \in 0..MaxLag
    BY DEF TypeOk, Segments
  <1>5. off \in -MaxPub..0 /\ (server # "erratic" => off = pl.off)
    BY <1>2, <1>3, <1>4 DEF Erratic, Segments
  <1>6. lag' \in 0..MaxLag
    BY <1>2, <1>4
  <1>7. server = "sound" => last > pl.last \/ (last = pl.last /\ (end \/ lag' = lag + 1))
    BY <1>2, <1>4 DEF Erratic
  <1> QED BY <1>2, <1>3, <1>5, <1>6, <1>7

\* A segment of the window has a place and a number.
LEMMA Numbered ==
    ASSUME TypeOk, InOrder, NEW c \in pl.first..pl.last
    PROVE  c \in Segments /\ Seq(c) \in 0..MaxPub /\ Seq(c) >= Seq(pl.first)
  BY DEF TypeOk, InOrder, Segments, Seq

\* Every step keeps the flags and the worker's place in their types.
LEMMA FlagsStep == FlagsOk /\ [Next]_vars => FlagsOk'
  <1> SUFFICES ASSUME FlagsOk, [Next]_vars PROVE FlagsOk'
    OBVIOUS
  <1> USE DEF FlagsOk, vars, ghosts, heard, shown
  <1>1. CASE Load /\ UNCHANGED server
    <2>1. renumbered' \in BOOLEAN
      BY <1>1 DEF Load, Loaded
    <2>2. err' \in BOOLEAN
      BY <1>1 DEF Load
    <2> QED BY <1>1, <2>1, <2>2 DEF Load, Steps
  <1>2. CASE StartRound /\ UNCHANGED server
    BY <1>2 DEF StartRound, Position, FellBehindMarks, Steps
  <1>3. CASE (WindowStopped \/ StepOver \/ WindowDone) /\ UNCHANGED server
    <2>1. CASE WindowStopped /\ UNCHANGED server
      BY <2>1 DEF WindowStopped, Steps
    <2>2. CASE StepOver /\ UNCHANGED server
      BY <2>2 DEF StepOver, Steps
    <2>3. CASE WindowDone /\ UNCHANGED server
      BY <2>3 DEF WindowDone, Steps
    <2> QED BY <1>3, <2>1, <2>2, <2>3
  <1>4. CASE PlaySegment /\ UNCHANGED server
    BY <1>4 DEF PlaySegment, Consider, Feed, Steps
  <1>5. CASE (LoseSegment \/ DemuxFails) /\ UNCHANGED server
    BY <1>5 DEF LoseSegment, DemuxFails, SkipSegment, ResetNow, Consider, Feed, Steps
  <1>6. CASE DeadSegment /\ UNCHANGED server
    BY <1>6 DEF DeadSegment, DeadSinkTold, ResetNow, Consider, Steps
  <1>7. CASE After /\ UNCHANGED server
    BY <1>7, ZenonT(40) DEF After, Staleness, Resync, Steps
  <1>8. CASE Reload /\ UNCHANGED server
    <2>1. renumbered' \in BOOLEAN
      BY <1>8 DEF Reload, Loaded
    <2> QED BY <1>8, <2>1 DEF Reload, Steps
  <1>9. CASE (SetResult \/ MarkFinished \/ Stop) /\ UNCHANGED server
    <2>1. CASE SetResult /\ UNCHANGED server
      BY <2>1 DEF SetResult, Steps
    <2>2. CASE MarkFinished /\ UNCHANGED server
      BY <2>2 DEF MarkFinished, Steps
    <2>3. CASE Stop /\ UNCHANGED server
      BY <2>3 DEF Stop, Steps
    <2> QED BY <1>9, <2>1, <2>2, <2>3
  <1>10. CASE UNCHANGED vars
    BY <1>10
  <1> QED BY <1>1, <1>2, <1>3, <1>4, <1>5, <1>6, <1>7, <1>8, <1>9, <1>10
          DEF Next, WorkerStep, Terminated

\* Every step keeps the playlist and the positions in it in their types.
LEMMA PlaceStep == TypeOk /\ InOrder /\ [Next]_vars => PlaceOk'
  <1> SUFFICES ASSUME TypeOk, PlaceOk, InOrder, [Next]_vars PROVE PlaceOk'
    BY TypeParts
  <1> USE DEF vars, ghosts, heard, shown
  <1>1. CASE Load
    BY <1>1, LoadedWindow DEF Load, PlaceOk
  <1>2. CASE StartRound
    <2>1. next_seq' \in -1..(MaxPub + 1)
      <3>1. pl.first \in pl.first..pl.last
        BY DEF TypeOk, InOrder, Segments
      <3> QED BY <1>2, <3>1, Numbered DEF StartRound, Position, PlaceOk
    <2> QED BY <1>2, <2>1 DEF StartRound, PlaceOk, Segments
  <1>3. CASE WindowStopped \/ WindowDone \/ SetResult \/ MarkFinished \/ Stop
    BY <1>3 DEF WindowStopped, WindowDone, SetResult, MarkFinished, Stop, PlaceOk
  <1>4. CASE StepOver
    BY <1>4 DEF StepOver, PlaceOk, Segments
  <1>5. CASE PlaySegment \/ LoseSegment \/ DemuxFails \/ DeadSegment
    <2>0. /\ pc = "window" /\ cur <= pl.last
          /\ tried' = cur /\ next_seq' = Seq(cur) + 1 /\ pl' = pl
          /\ cur' = cur \/ cur' = cur + 1
      BY <1>5 DEF PlaySegment, LoseSegment, DemuxFails, DeadSegment, SkipSegment, Consider
    <2>a. (fed' = fed \/ fed' = cur) /\ (over' = over \/ over' = {})
      BY <1>5 DEF PlaySegment, LoseSegment, DemuxFails, DeadSegment, SkipSegment, Feed
    <2>1. cur \in pl.first..pl.last
      BY <2>0 DEF InOrder, PlaceOk, Segments
    <2>2. cur \in Segments /\ Seq(cur) \in 0..MaxPub
      BY <2>1, Numbered
    <2>3. next_seq' \in -1..(MaxPub + 1) /\ cur' \in 0..(MaxPub + 1)
      BY <2>0, <2>2 DEF Segments
    <2>4. fed' \in Segments /\ tried' \in Segments /\ over' \subseteq Disc
      BY <2>0, <2>a, <2>2 DEF PlaceOk
    <2> QED BY <2>0, <2>3, <2>4 DEF PlaceOk
  <1>6. CASE After
    <2>1. next_seq' \in -1..(MaxPub + 1)
      BY <1>6, Numbered DEF After, Staleness, Resync, PlaceOk
    <2> QED BY <1>6, <2>1 DEF After, PlaceOk
  <1>7. CASE Reload
    BY <1>7, LoadedWindow DEF Reload, PlaceOk
  <1>8. CASE UNCHANGED vars
    BY <1>8 DEF PlaceOk
  <1> QED BY <1>1, <1>2, <1>3, <1>4, <1>5, <1>6, <1>7, <1>8 DEF Next, WorkerStep, Terminated

\* Every step keeps the counters in their limits.
LEMMA CountsStep == TypeOk /\ InOrder /\ [Next]_vars => CountsOk'
  <1> SUFFICES ASSUME TypeOk, CountsOk, InOrder, [Next]_vars PROVE CountsOk'
    BY TypeParts
  <1> USE DEF vars, count, ghosts, heard, shown
  <1>1. CASE Load
    BY <1>1, LoadedWindow DEF Load, CountsOk
  <1>2. CASE StartRound \/ WindowStopped \/ StepOver \/ WindowDone \/ SetResult
               \/ MarkFinished \/ Stop
    BY <1>2 DEF StartRound, WindowStopped, StepOver, WindowDone, SetResult, MarkFinished,
                Stop, CountsOk
  <1>3. CASE PlaySegment \/ LoseSegment \/ DemuxFails \/ DeadSegment
    <2>1. seg_fails' \in {0, seg_fails, seg_fails + 1} /\ seg_fails <= MAX_SEG_FAILS
      BY <1>3 DEF PlaySegment, LoseSegment, DemuxFails, DeadSegment, SkipSegment,
                  Consider, InOrder, Ended
    <2>2. UNCHANGED <<reload_fails, stale_reloads, last_edge, idle, lag>>
      BY <1>3 DEF PlaySegment, LoseSegment, DemuxFails, DeadSegment, SkipSegment, Consider
    <2> QED BY <2>1, <2>2 DEF CountsOk
  <1>4. CASE After
    <2>1. stale_reloads' \in 0..MAX_STALE_RELOADS
      BY <1>4 DEF After, Staleness, TooManyStale, Resync, CountsOk
    <2>2. last_edge' \in NoEdge..MaxPub
      <3>1. pl.last \in pl.first..pl.last
        BY DEF TypeOk, InOrder, Segments
      <3> QED BY <1>4, <3>1, Numbered DEF After, NoEdge
    <2>3. idle' \in 0..(STALL + 1)
      BY <1>4 DEF After, CountsOk
    <2> QED BY <1>4, <2>1, <2>2, <2>3 DEF After, CountsOk
  <1>5. CASE Reload
    <2>1. reload_fails <= MAX_RELOAD_FAILS
      BY <1>5 DEF Reload, InOrder, Ended
    <2>2. idle' \in 0..(STALL + 1)
      <3>1. CASE TimePasses
        <4>1. PICK t \in 1..2 : idle' = IF idle + t > STALL THEN STALL + 1 ELSE idle + t
          BY <3>1 DEF TimePasses
        <4> QED BY <4>1 DEF CountsOk
      <3>2. CASE UNCHANGED idle
        BY <3>2 DEF CountsOk
      <3> QED BY <1>5, <3>1, <3>2 DEF Reload
    <2>3. lag' \in 0..MaxLag
      BY <1>5, LoadedWindow DEF Reload, CountsOk
    <2>4. reload_fails' \in 0..(MAX_RELOAD_FAILS + 1)
      <3>1. reload_fails' = reload_fails \/ reload_fails' = 0 \/ reload_fails' = reload_fails + 1
        BY <1>5 DEF Reload
      <3> QED BY <2>1, <3>1 DEF CountsOk
    <2>5. UNCHANGED <<seg_fails, stale_reloads, last_edge>>
      BY <1>5 DEF Reload
    <2> QED BY <2>2, <2>3, <2>4, <2>5 DEF CountsOk
  <1>6. CASE UNCHANGED vars
    BY <1>6 DEF CountsOk
  <1> QED BY <1>1, <1>2, <1>3, <1>4, <1>5, <1>6 DEF Next, WorkerStep, Terminated

-----------------------------------------------------------------------------
(* The order of the segments                                               *)

\* Every step keeps the round in step with its window.
LEMMA OrderStep == TypeOk /\ InOrder /\ [Next]_vars => InOrder'
  <1> SUFFICES ASSUME TypeOk, InOrder, [Next]_vars PROVE InOrder'
    OBVIOUS
  <1>0. /\ pl.first \in Nat /\ pl.last \in Nat /\ pl.off \in Int /\ cur \in Nat
        /\ next_seq \in Int
    BY DEF TypeOk, Segments
  <1> USE DEF vars, count, ghosts, heard, shown, Ended
  <1>1. CASE Load
    BY <1>1, LoadedWindow DEF Load, InOrder
  <1>2. CASE StartRound
    <2>1. pl.first \in pl.first..pl.last
      BY <1>0 DEF InOrder
    <2>2. Seq(pl.first) <= next_seq' /\ next_seq' # -1
      BY <1>0, <1>2, <2>1, Numbered DEF StartRound, Position
    <2> QED BY <1>0, <1>2, <2>2 DEF StartRound, InOrder, Seq
  <1>3. CASE WindowStopped \/ WindowDone \/ SetResult \/ MarkFinished \/ Stop
    BY <1>3 DEF WindowStopped, WindowDone, SetResult, MarkFinished, Stop, InOrder, Seq
  <1>4. CASE StepOver
    BY <1>0, <1>4 DEF StepOver, InOrder, Seq
  <1>5. CASE PlaySegment \/ LoseSegment \/ DemuxFails \/ DeadSegment
    <2>1. /\ pc = "window" /\ cur <= pl.last /\ next_seq' = Seq(cur) + 1
          /\ UNCHANGED <<pl, reload_fails>>
          /\ cur' = cur + 1 \/ pc' = "closing"
      BY <1>5 DEF PlaySegment, LoseSegment, DemuxFails, DeadSegment, SkipSegment, Consider
    <2>2. cur \in pl.first..pl.last
      BY <1>0, <2>1 DEF InOrder
    <2>3. next_seq' # -1
      BY <2>1, <2>2, Numbered
    <2>4. pc' # "closing" => seg_fails' <= MAX_SEG_FAILS
      <3>0. seg_fails \in Nat
        BY DEF TypeOk
      <3>1. CASE PlaySegment
        BY <3>1 DEF PlaySegment
      <3>2. CASE SkipSegment
        BY <3>0, <3>2 DEF SkipSegment, TooManySegFails
      <3>3. CASE DeadSegment
        BY <3>3 DEF DeadSegment
      <3> QED BY <1>5, <3>1, <3>2, <3>3 DEF LoseSegment, DemuxFails
    <2>5. pc' = "closing" \/ pc' = "window"
      BY <1>5 DEF PlaySegment, LoseSegment, DemuxFails, DeadSegment, SkipSegment, Consider
    <2> QED BY <1>0, <2>1, <2>2, <2>3, <2>4, <2>5 DEF InOrder, Seq
  <1>6. CASE After
    <2>1. next_seq' = -1 => next_seq = -1
      BY <1>6, Numbered DEF After, Staleness, Resync
    <2> QED BY <1>6, <2>1 DEF After, InOrder
  <1>7. CASE Reload
    <2>1. pl'.first <= pl'.last /\ pl'.first + pl'.off >= 0
      BY <1>7, LoadedWindow DEF Reload, InOrder
    <2>2. pc' \notin Ended => reload_fails' <= MAX_RELOAD_FAILS
      <3>0. reload_fails \in Nat
        BY DEF TypeOk
      <3>1. \/ reload_fails' = 0
            \/ reload_fails' = reload_fails + 1 /\ ~(reload_fails >= MAX_RELOAD_FAILS)
            \/ pc' = "closing"
        BY <1>7, Zenon DEF Reload
      <3> QED BY <3>0, <3>1
    <2> QED BY <1>7, <2>1, <2>2 DEF Reload, InOrder
  <1>8. CASE UNCHANGED vars
    BY <1>8 DEF InOrder, Seq
  <1> QED BY <1>1, <1>2, <1>3, <1>4, <1>5, <1>6, <1>7, <1>8 DEF Next, WorkerStep, Terminated

\* A segment is played or given up exactly when its number is next.
LEMMA PlaysNext ==
    ASSUME TypeOk, InOrder, Consider
    PROVE  Seq(cur) = next_seq
  BY DEF TypeOk, InOrder, Consider, Seq, Segments

\* With no reset due, the segment about to be fed follows the last one.
LEMMA NoBreakUnmarked ==
    ASSUME TypeOk, InOrder, Marked, Consider, fed # 0, ~ResetNow
    PROVE  ~Break
  <1>1. ~fresh /\ cur \notin Disc /\ ~pending_disc /\ over = {}
    BY DEF ResetNow, Marked
  <1>2. CASE renumbered
    BY <1>1, <1>2 DEF Break
  <1>3. CASE ~renumbered
    <2>1. /\ next_seq = Seq(tried) + 1 /\ tried >= fed
          /\ Disc \cap ((fed + 1)..tried) = {}
      BY <1>1, <1>3 DEF Marked
    <2>2. cur = tried + 1
      BY <2>1, PlaysNext DEF Seq, TypeOk, Segments
    <2>3. ~Slid /\ ~Backwards
      BY <2>1, <2>2 DEF Slid, Backwards, TypeOk, Segments
    <2>4. Disc \cap ((fed + 1)..cur) = {}
      BY <1>1, <2>1, <2>2 DEF TypeOk, Segments
    <2> QED BY <1>3, <2>3, <2>4 DEF Break, Tagged, Between
  <1> QED BY <1>2, <1>3

\* Every step that creates a break marks it, and only a reset or a feed unmarks it.
LEMMA MarkedStep == TypeOk /\ InOrder /\ Marked /\ [Next]_vars => Marked'
  <1> SUFFICES ASSUME TypeOk, InOrder, Marked, [Next]_vars PROVE Marked'
    OBVIOUS
  <1>0. fed \in Nat /\ tried \in Nat /\ cur \in Nat /\ pl.off \in Int
    BY DEF TypeOk, Segments
  <1> USE DEF vars, count, ghosts, heard, shown
  <1>1. ASSUME UNCHANGED <<heard, tried, next_seq, pending_disc, pl, renumbered>>
        PROVE  Marked'
    BY <1>1 DEF Marked, Seq
  <1>2. ASSUME UNCHANGED <<heard, tried>>, pending_disc'
        PROVE  Marked'
    BY <1>2 DEF Marked
  <1>3. ASSUME Loaded, UNCHANGED <<heard, tried, next_seq, pending_disc>>
        PROVE  Marked'
    <2>1. renumbered' = (renumbered \/ pl'.off # pl.off)
      BY <1>3, LoadedWindow
    <2> QED BY <1>3, <2>1 DEF Marked, Seq
  <1>4. CASE Load \/ Reload
    <2>1. /\ UNCHANGED <<heard, tried, next_seq, pending_disc>>
          /\ Loaded \/ UNCHANGED <<pl, renumbered>>
      BY <1>4 DEF Load, Reload
    <2> QED BY <1>1, <1>3, <2>1
  <1>5. CASE StartRound
    <2>1. \/ UNCHANGED <<next_seq, pending_disc>>
          \/ pending_disc'
          \/ fed = 0
      BY <1>5 DEF StartRound, Position, FellBehindMarks, InOrder
    <2>2. UNCHANGED <<heard, tried, pl, renumbered>>
      BY <1>5 DEF StartRound
    <2>3. CASE fed = 0
      <3>1. pending_disc \/ fresh => pending_disc' \/ fresh'
        BY <1>5 DEF StartRound, Position, FellBehindMarks
      <3> QED BY <2>2, <2>3, <3>1 DEF Marked
    <2> QED BY <1>1, <1>2, <2>1, <2>2, <2>3
  <1>6. CASE WindowStopped \/ WindowDone \/ SetResult \/ MarkFinished \/ Stop
    BY <1>1, <1>6 DEF WindowStopped, WindowDone, SetResult, MarkFinished, Stop
  <1>7. CASE StepOver
    BY <1>7 DEF StepOver, Marked, Seq
  <1>8. CASE PlaySegment \/ DemuxFails
    <2>1. /\ fed' = cur /\ tried' = cur /\ over' = {} /\ pl' = pl
          /\ next_seq' = Seq(cur) + 1
      BY <1>8 DEF PlaySegment, DemuxFails, SkipSegment, Consider, Feed
    <2>2. (cur + 1)..cur = {}
      BY <1>0
    <2> QED BY <1>0, <2>1, <2>2 DEF Marked, Seq
  <1>9. CASE LoseSegment \/ DeadSegment
    <2>1. /\ Consider /\ fresh' = ResetNow
          /\ tried' = cur /\ next_seq' = Seq(cur) + 1 /\ pending_disc' = FALSE
          /\ UNCHANGED <<fed, over, renumbered, pl>>
      BY <1>9 DEF LoseSegment, DeadSegment, SkipSegment, Consider
    <2>2. CASE ResetNow
      BY <2>1, <2>2 DEF Marked
    <2>3. CASE ~ResetNow
      <3>1. ~fresh /\ cur \notin Disc /\ ~pending_disc /\ over = {}
        BY <2>3 DEF ResetNow, Marked
      <3>2. CASE fed # 0 /\ ~renumbered
        <4>1. /\ next_seq = Seq(tried) + 1 /\ tried >= fed
              /\ Disc \cap ((fed + 1)..tried) = {}
          BY <3>1, <3>2 DEF Marked
        <4>2. cur = tried + 1
          BY <1>0, <2>1, <4>1, PlaysNext DEF Seq
        <4>3. cur >= fed /\ Disc \cap ((fed + 1)..cur) = {}
          BY <1>0, <3>1, <4>1, <4>2
        <4> QED BY <2>1, <3>1, <4>3 DEF Marked, Seq
      <3>3. CASE ~(fed # 0 /\ ~renumbered)
        BY <2>1, <3>1, <3>3 DEF Marked
      <3> QED BY <3>2, <3>3
    <2> QED BY <2>2, <2>3
  <1>10. CASE After
    <2>1. /\ UNCHANGED <<heard, tried, pl, renumbered>>
          /\ pending_disc' \/ UNCHANGED <<next_seq, pending_disc>>
      BY <1>10 DEF After, Staleness, Resync
    <2> QED BY <1>1, <1>2, <2>1
  <1>11. CASE UNCHANGED vars
    BY <1>1, <1>11
  <1> QED BY <1>4, <1>5, <1>6, <1>7, <1>8, <1>9, <1>10, <1>11 DEF Next, WorkerStep, Terminated

\* Every way out of the loop leaves a reason, a stop, or an ended playlist.
LEMMA EndStep == TypeOk /\ EndTold /\ [Next]_vars => EndTold'
  <1> SUFFICES ASSUME TypeOk, EndTold, [Next]_vars PROVE EndTold'
    OBVIOUS
  <1> USE DEF vars, ghosts, heard, shown, EndTold, ResultIsHonest
  <1>1. CASE Load \/ Reload
    BY <1>1 DEF Load, Reload, StopSeen
  <1>2. CASE StartRound \/ StepOver \/ WindowStopped \/ WindowDone
    BY <1>2 DEF StartRound, StepOver, WindowStopped, WindowDone, StopSeen
  <1>3. CASE PlaySegment \/ LoseSegment \/ DemuxFails \/ DeadSegment
    BY <1>3 DEF PlaySegment, LoseSegment, DemuxFails, DeadSegment, SkipSegment, Consider,
                DeadSinkTold
  <1>4. CASE After
    BY <1>4 DEF After
  <1>5. CASE SetResult \/ MarkFinished \/ Stop
    BY <1>5 DEF SetResult, MarkFinished, Stop
  <1>6. CASE UNCHANGED vars
    BY <1>6
  <1> QED BY <1>1, <1>2, <1>3, <1>4, <1>5, <1>6 DEF Next, WorkerStep, Terminated

\* A sound server's lag is never taken for a feed that has gone backwards.
LEMMA SoundStep ==
    ASSUME MaxLag <= MAX_STALE_RELOADS
    PROVE  TypeOk /\ InOrder /\ InStep /\ [Next]_vars => InStep'
  <1> SUFFICES ASSUME TypeOk, InOrder, InStep, [Next]_vars, server' = "sound" PROVE InStep'
    BY DEF InStep
  <1>0. /\ fed \in Nat /\ cur \in Nat /\ pl.last \in Nat /\ pl.first \in Nat
        /\ lag \in 0..MaxLag /\ stale_reloads \in Nat /\ next_seq \in Int
        /\ last_edge \in Int
    BY DEF TypeOk, Segments, NoEdge
  <1> USE DEF vars, count, ghosts, heard, shown
  <1>1. server = "sound"
    BY DEF Next, Terminated
  <1>2. /\ pl.off = 0
        /\ fed # 0 => next_seq > fed
        /\ pc = "after" => ~pl.end
        /\ pc = "reload" => last_edge = pl.last /\ stale_reloads <= lag
        /\ pc \in {"round", "window", "after"} /\ last_edge = pl.last /\ ~pl.end
               => stale_reloads < lag
        /\ pc \in {"load", "hop"} => last_edge = NoEdge
    BY <1>1 DEF InStep
  <1>3. CASE Load
    <2>1. CASE Loaded
      <3>1. pl'.last # NoEdge
        BY <2>1, LoadedWindow DEF Segments, NoEdge
      <3> QED BY <1>1, <1>2, <1>3, <2>1, <3>1, LoadedWindow DEF Load, InStep
    <2>2. CASE ~Loaded
      BY <1>1, <1>2, <1>3, <2>2 DEF Load, InStep
    <2> QED BY <2>1, <2>2
  <1>4. CASE StartRound
    <2>1. pl.first \in pl.first..pl.last
      BY <1>0 DEF InOrder
    <2>2. fed # 0 => next_seq' > fed
      <3>1. fed # 0 => next_seq # -1
        BY DEF InOrder
      <3> QED BY <1>0, <1>2, <1>4, <3>1 DEF StartRound, Position, Seq
    <2> QED BY <1>2, <1>4, <2>2 DEF StartRound, InStep
  <1>5. CASE WindowStopped \/ StepOver \/ SetResult \/ MarkFinished \/ Stop
    BY <1>2, <1>5 DEF WindowStopped, StepOver, SetResult, MarkFinished, Stop, InStep
  <1>6. CASE WindowDone
    BY <1>2, <1>6 DEF WindowDone, InStep
  <1>7. CASE PlaySegment \/ LoseSegment \/ DemuxFails \/ DeadSegment
    <2>1. /\ Consider
          /\ fed' = fed \/ fed' = cur
          /\ pc = "window" /\ pc' \in {"window", "closing"}
          /\ UNCHANGED <<pl, last_edge, stale_reloads, lag>> /\ next_seq' = Seq(cur) + 1
      BY <1>7 DEF PlaySegment, LoseSegment, DemuxFails, DeadSegment, SkipSegment, Consider, Feed
    <2>2. Seq(cur) = cur /\ Seq(cur) = next_seq
      BY <1>0, <1>2, <2>1, PlaysNext DEF Seq
    <2>3. fed' # 0 => next_seq' > fed'
      BY <1>0, <1>2, <2>1, <2>2
    <2> QED BY <1>2, <2>1, <2>3 DEF InStep
  <1>8. CASE After
    <2>1. pc = "after" /\ ~pl.end /\ UNCHANGED <<pl, lag, fed>>
      BY <1>2, <1>8 DEF After
    <2>2. Seq(pl.last) = pl.last
      BY <1>0, <1>2 DEF Seq
    <2>3. ~Moved => stale_reloads < lag
      BY <1>2, <2>1, <2>2 DEF Moved
    <2>4. ~Moved => ~TooManyStale
      BY <1>0, <2>3 DEF TooManyStale
    <2>5. /\ next_seq' = next_seq
          /\ stale_reloads' = 0 \/ (~Moved /\ stale_reloads' = stale_reloads + 1)
      BY <1>8, <2>4 DEF After, Staleness
    <2>6. stale_reloads' <= lag'
      BY <1>0, <2>1, <2>3, <2>5
    <2>7. last_edge' = pl.last /\ pc' \in {"closing", "reload"}
      BY <1>8, <2>2 DEF After
    <2> QED BY <1>2, <2>1, <2>5, <2>6, <2>7 DEF InStep
  <1>9. CASE Reload
    <2>1. CASE StopSeen
      BY <1>2, <1>9, <2>1 DEF Reload, InStep
    <2>2. CASE ~StopSeen
      <3>1. /\ Loaded /\ pc = "reload" /\ pc' = "round"
            /\ UNCHANGED <<fed, next_seq, last_edge, stale_reloads>>
        BY <1>1, <1>9, <2>2 DEF Reload
      <3>2. \/ pl'.last > pl.last
            \/ pl'.last = pl.last /\ (pl'.end \/ lag' = lag + 1)
        BY <1>1, <3>1, LoadedWindow
      <3>3. pl'.off = 0
        BY <1>1, <1>2, <3>1, LoadedWindow
      <3>4. last_edge' = pl'.last /\ ~pl'.end => stale_reloads' < lag'
        BY <1>0, <1>2, <3>1, <3>2
      <3> QED BY <1>2, <3>1, <3>3, <3>4 DEF InStep
    <2> QED BY <2>1, <2>2
  <1>10. CASE UNCHANGED vars
    BY <1>2, <1>10 DEF InStep
  <1> QED BY <1>3, <1>4, <1>5, <1>6, <1>7, <1>8, <1>9, <1>10 DEF Next, WorkerStep, Terminated

-----------------------------------------------------------------------------
(* Theorems                                                                *)

\* hls_stream_start's state satisfies the invariant.
LEMMA InitIInv == Init => IInv
  <1> SUFFICES ASSUME Init PROVE IInv
    OBVIOUS
  <1>1. FlagsOk
    BY DEF Init, FlagsOk, Steps
  <1>2. PlaceOk
    BY DEF Init, PlaceOk, Segments
  <1>3. CountsOk
    BY DEF Init, CountsOk, NoEdge
  <1>4. TypeOk
    BY <1>1, <1>2, <1>3, TypeParts
  <1>5. InOrder /\ Marked /\ EndTold
    BY DEF Init, InOrder, Marked, EndTold, ResultIsHonest
  <1> QED BY <1>4, <1>5 DEF IInv

\* In every reachable state of the worker, for any limits, window, tags and server: the
\* invariant the theorems below follow from (hls.c:360-720).
THEOREM Invariance == Spec => []IInv
  <1>1. IInv /\ [Next]_vars => IInv'
    <2> SUFFICES ASSUME IInv, [Next]_vars PROVE IInv'
      OBVIOUS
    <2>1. TypeOk'
      BY FlagsStep, PlaceStep, CountsStep, TypeParts, TypePartsNext DEF IInv
    <2> QED BY <2>1, OrderStep, MarkedStep, EndStep DEF IInv
  <1> QED BY <1>1, InitIInv, PTL DEF Spec

\* The worker's state is in range, its counts of failures within their limits, and the
\* result 0 means a stop or the end of an ended playlist (hls.c:540-543, 638-641, 716).
THEOREM WorkerStaysSound == Spec => []WorkerSound
  <1>1. IInv => WorkerSound
    BY DEF IInv, EndTold, WorkerSound
  <1> QED BY <1>1, Invariance, PTL

\* Whatever the server does, bytes from two sides of a break the worker can see never
\* meet in a demuxer that was not reset in between (hls.c:463-470, 618-627, 663-669).
THEOREM BreaksAreReset == Spec => BreaksReset
  <1>1. IInv /\ [Next]_vars => [Splices /\ Break => ResetNow]_vars
    <2> SUFFICES ASSUME IInv, Splices, ~ResetNow PROVE ~Break
      OBVIOUS
    <2> QED BY NoBreakUnmarked
            DEF IInv, Splices, PlaySegment, DemuxFails, SkipSegment
  <1> QED BY <1>1, Invariance, PTL DEF Spec, BreaksReset

\* A server that answers every load, shows one broadcast in order and has nothing new
\* for no more loads in a row than the code tolerates never has a segment played twice
\* or out of order (hls.c:656-669).
THEOREM NothingReplayed ==
    ASSUME MaxLag <= MAX_STALE_RELOADS, "failing" \notin Servers
    PROVE  Spec => NoReplay
  <1> DEFINE Forward == server # "erratic" /\ Splices => ~Backwards
  <1>1. Init => InStep
    BY DEF Init, InStep
  <1>2. IInv /\ InStep /\ [Next]_vars => InStep'
    BY SoundStep DEF IInv
  <1>3. IInv /\ InStep /\ [Next]_vars => [Forward]_vars
    <2> SUFFICES ASSUME IInv, InStep, server # "erratic", Splices
                 PROVE  ~Backwards
      OBVIOUS
    <2>1. server = "sound"
      BY DEF IInv, TypeOk
    <2>2. pl.off = 0 /\ next_seq > fed /\ Consider
      BY <2>1 DEF InStep, Splices, PlaySegment, DemuxFails, SkipSegment
    <2>3. cur = next_seq
      BY <2>2, PlaysNext DEF IInv, Seq, TypeOk
    <2> QED BY <2>2, <2>3 DEF Backwards, IInv, TypeOk, Segments
  <1> QED BY <1>1, <1>2, <1>3, Invariance, PTL DEF Spec, NoReplay

=============================================================================
