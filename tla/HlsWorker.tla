----------------------------- MODULE HlsWorker ------------------------------
(***************************************************************************)
(* src/src/hls.c: the worker of an HLS source.  It reloads a live playlist,*)
(* downloads the segments it has not seen and feeds them to a demuxer that *)
(* keeps state from one segment to the next.                               *)
(*                                                                         *)
(* The server is in the loads: each load that succeeds shows a window of   *)
(* consecutive segments, numbered by the server.  A segment is its place   *)
(* in the broadcast (1, 2, ...), which the worker cannot see; it sees the  *)
(* sequence number the playlist gives it, which a server that sends none   *)
(* restarts from 0 at every load.  Time is counted in half target          *)
(* durations, the shortest nap of a round.                                 *)
(***************************************************************************)
EXTENDS Integers

CONSTANTS MAX_SEG_FAILS, MAX_RELOAD_FAILS, MAX_STALE_RELOADS,
          STALL,          \* STALL_TARGETS, in half targets
          Disc,           \* segments tagged EXT-X-DISCONTINUITY
          Window,         \* bound: segments in a playlist
          MaxPub,         \* bound: segments ever published
          MaxLag,         \* loads in a row a sound server has nothing new for
          Servers         \* the kinds of server to expect

ASSUME LimitAssumption ==
    /\ MAX_SEG_FAILS \in Nat /\ MAX_RELOAD_FAILS \in Nat
    /\ MAX_STALE_RELOADS \in Nat /\ STALL \in Nat
ASSUME BoundAssumption ==
    Window \in Nat \ {0} /\ MaxPub \in Nat \ {0} /\ MaxLag \in Nat
ASSUME ServerAssumption ==
    Disc \subseteq 1..MaxPub /\ Servers \subseteq {"sound", "failing", "erratic"}

VARIABLES
    server,
    pc,             \* "load", "hop", "round", "window", "after", "reload",
                    \* "closing", "closed", "finished"
    stop,           \* s->stop
    pl,             \* the playlist: its segments, their numbering, its endlist
    next_seq,       \* -1: have_start = 0
    cur,            \* play_window's i, as the segment it points at
    considered,     \* play_window's *considered > 0
    played,         \* segments_done has grown this round
    seg_fails, reload_fails, stale_reloads, last_edge,
    idle,           \* time since last_progress
    pending_disc,
    ready_sent,
    err,            \* err[0] # '\0'
    result,         \* "none" until the worker sets s->result
    lag,            \* consecutive loads that brought nothing new
    fresh,          \* the demuxer has been reset since it was last fed
    fed,            \* the last segment fed to it
    renumbered,     \* the numbering has changed since then
    over,           \* the tagged segments stepped over since then
    tried           \* the last segment play_segment was called for

count  == <<seg_fails, reload_fails, stale_reloads, last_edge, idle>>
shown  == <<pl, lag, renumbered>>       \* what a load changes
heard  == <<fresh, fed, over>>          \* what a feed changes
ghosts == <<lag, renumbered, heard, tried>>
vars   == <<server, pc, stop, pl, next_seq, cur, considered, played, count,
            pending_disc, ready_sent, err, result, ghosts>>

Seq(c)  == c + pl.off                   \* seg->seq
NoEdge  == -1
Segments == 0..MaxPub
Steps == {"load", "hop", "round", "window", "after", "reload",
          "closing", "closed", "finished"}

TypeOk ==
    /\ server \in Servers /\ pc \in Steps
    /\ {stop, considered, played, pending_disc, ready_sent, err, fresh,
        renumbered} \subseteq BOOLEAN
    /\ pl \in [first : Segments, last : Segments, off : -MaxPub..0, end : BOOLEAN]
    /\ next_seq \in -1..(MaxPub + 1) /\ cur \in 0..(MaxPub + 1)
    /\ seg_fails \in 0..(MAX_SEG_FAILS + 1)
    /\ reload_fails \in 0..(MAX_RELOAD_FAILS + 1)
    /\ stale_reloads \in 0..MAX_STALE_RELOADS
    /\ last_edge \in NoEdge..MaxPub /\ idle \in 0..(STALL + 1)
    /\ result \in {"none", "ok", "failed"}
    /\ lag \in 0..MaxLag /\ {fed, tried} \subseteq Segments
    /\ over \subseteq Disc

Init ==
    /\ server \in Servers
    /\ pc = "load" /\ stop = FALSE
    /\ pl = [first |-> 0, last |-> 0, off |-> 0, end |-> FALSE]
    /\ next_seq = -1 /\ cur = 0 /\ considered = FALSE /\ played = FALSE
    /\ seg_fails = 0 /\ reload_fails = 0 /\ stale_reloads = 0
    /\ last_edge = NoEdge /\ idle = 0
    /\ pending_disc = FALSE /\ ready_sent = FALSE /\ err = FALSE
    /\ result = "none"
    /\ lag = 0 /\ fresh = TRUE /\ fed = 0 /\ tried = 0
    /\ renumbered = FALSE /\ over = {}

-----------------------------------------------------------------------------
(* Loads                                                                   *)

Larger(a, b) == IF a > b THEN a ELSE b

\* A cache that serves old copies, an encoder that restarts.
Erratic == server = "erratic"

\* load_playlist returns a media playlist with segments.  A sound server shows
\* the newest ones and is late for a few loads at most; an erratic one shows what
\* it likes, numbered as it likes.
Loaded ==
    \E last \in 1..MaxPub, end \in BOOLEAN :
    \E first \in Larger(last - Window + 1, 1)..last :
    \E off \in IF Erratic THEN {pl.off, -first} ELSE {pl.off} :
        /\ first + off >= 0
        /\ \/ Erratic
           \/ /\ last >= pl.last /\ first >= pl.first
              /\ last > pl.last \/ end \/ lag < MaxLag
        /\ pl' = [first |-> first, last |-> last, off |-> off, end |-> end]
        /\ lag' = IF last > pl.last \/ Erratic THEN 0
                  ELSE IF lag = MaxLag THEN lag ELSE lag + 1
        /\ renumbered' = (renumbered \/ off # pl.off)

\* The first load: media, or a master to hop from, or nothing usable.
Load ==
    /\ pc \in {"load", "hop"}
    /\ \/ Loaded /\ pc' = "round" /\ UNCHANGED err
       \/ /\ pc' = IF pc = "load" THEN "hop" ELSE "closing"
          /\ err' = (pc = "hop")        \* "points at another master"
          /\ UNCHANGED shown
       \/ pc' = "closing" /\ err' = TRUE /\ UNCHANGED shown
    /\ UNCHANGED <<stop, next_seq, cur, considered, played, count, pending_disc,
                   ready_sent, result, heard, tried>>

-----------------------------------------------------------------------------
(* A round: position, play the window, look at what happened, nap, reload  *)

\* live_start_index: the first segment of an ended playlist; of a live one, as
\* far back from the edge as the durations say.
LiveStart(c) == IF pl.end THEN c = pl.first ELSE c \in pl.first..pl.last

\* Faulty variant: the gap is not marked.
FellBehindSilently == pending_disc' = pending_disc

\* "a discontinuity whether or not one was tagged"
FellBehindMarks == pending_disc' = TRUE

Position ==
    \/ /\ next_seq = -1
       /\ \E c \in pl.first..pl.last : LiveStart(c) /\ next_seq' = Seq(c)
       /\ UNCHANGED pending_disc
    \/ /\ next_seq # -1 /\ next_seq < Seq(pl.first)
       /\ next_seq' = Seq(pl.first)
       /\ FellBehindMarks
    \/ /\ next_seq # -1 /\ next_seq >= Seq(pl.first)
       /\ UNCHANGED <<next_seq, pending_disc>>

StartRound ==
    /\ pc = "round"
    /\ Position
    /\ cur' = pl.first /\ considered' = FALSE /\ played' = FALSE
    /\ pc' = "window"
    /\ UNCHANGED <<stop, pl, count, ready_sent, err, result, ghosts>>

\* Faulty variant: a plain flag, read once before the loop.
StopMissed == FALSE

\* atomic_load(&s->stop)
StopSeen == stop

\* play_window sees a stop request before the next segment.
WindowStopped ==
    /\ pc = "window" /\ cur <= pl.last /\ StopSeen
    /\ err' = FALSE /\ pc' = "closing"
    /\ UNCHANGED <<stop, pl, next_seq, cur, considered, played, count,
                   pending_disc, ready_sent, result, ghosts>>

\* A segment below next_seq: "already played, or stepped over".
StepOver ==
    /\ pc = "window" /\ cur <= pl.last /\ ~StopSeen
    /\ Seq(cur) < next_seq
    /\ pending_disc' = (pending_disc \/ cur \in Disc)
    /\ over' = over \cup (Disc \cap {cur})
    /\ cur' = cur + 1
    /\ UNCHANGED <<pc, stop, pl, next_seq, considered, played, count,
                   ready_sent, err, result, lag, renumbered, fresh, fed, tried>>

\* play_segment's first statement, and what play_window does with any result.
Consider ==
    /\ pc = "window" /\ cur <= pl.last /\ ~StopSeen
    /\ Seq(cur) >= next_seq
    /\ pending_disc' = FALSE
    /\ tried' = cur
    /\ considered' = TRUE
    /\ next_seq' = Seq(cur) + 1
    /\ UNCHANGED <<stop, pl, reload_fails, stale_reloads, last_edge, idle, result, lag>>

ResetNow == fresh \/ cur \in Disc \/ pending_disc

Feed == fed' = cur /\ over' = {} /\ renumbered' = FALSE

\* The segment is fetched, decrypted and fed, and the codec announced once it is
\* known.
PlaySegment ==
    /\ Consider
    /\ Feed /\ fresh' = FALSE
    /\ seg_fails' = 0 /\ played' = TRUE
    /\ ready_sent' \in {ready_sent, TRUE}
    /\ cur' = cur + 1
    /\ UNCHANGED <<pc, err>>

TooManySegFails == seg_fails >= MAX_SEG_FAILS

\* A gap in the audio, unless it is one too many in a row.
SkipSegment ==
    /\ Consider
    /\ seg_fails' = seg_fails + 1
    /\ err' = TRUE
    /\ cur' = cur + 1
    /\ pc' = IF TooManySegFails THEN "closing" ELSE "window"
    /\ UNCHANGED <<played, ready_sent>>

\* It cannot be fetched or decrypted.
LoseSegment == SkipSegment /\ fresh' = ResetNow /\ UNCHANGED <<fed, over, renumbered>>

\* It is fed until the demuxer gives up.  That demuxer has reset itself, the
\* other kind, if one is open, has not.
DemuxFails == SkipSegment /\ Feed /\ fresh' \in BOOLEAN

\* Faulty variant: the reason the sink gave is dropped.
DeadSinkForgotten == FALSE

\* "output closed"
DeadSinkTold == TRUE

\* The sink refuses the bytes (the ring was aborted) or there is no memory.  A
\* stop that cuts a segment short is taken to arrive before it.
DeadSegment ==
    /\ Consider
    /\ err' = DeadSinkTold
    /\ pc' = "closing"
    /\ fresh' = ResetNow
    /\ UNCHANGED <<cur, played, seg_fails, ready_sent, fed, over, renumbered>>

WindowDone ==
    /\ pc = "window" /\ cur > pl.last
    /\ pc' = IF StopSeen \/ pl.end THEN "closing" ELSE "after"
    /\ err' = IF StopSeen \/ pl.end THEN FALSE ELSE err
    /\ UNCHANGED <<stop, pl, next_seq, cur, considered, played, count,
                   pending_disc, ready_sent, result, ghosts>>

\* "considered > 0 || edge != last_edge"
Moved == considered \/ Seq(pl.last) # last_edge

\* Too many reloads offered nothing new: back to the live edge.
Resync ==
    /\ \E c \in pl.first..pl.last : LiveStart(c) /\ next_seq' = Seq(c)
    /\ pending_disc' = TRUE
    /\ stale_reloads' = 0

\* Faulty variant: ++stale_reloads >= MAX_STALE_RELOADS.
TooManyStaleEarly == stale_reloads + 1 >= MAX_STALE_RELOADS

TooManyStale == stale_reloads + 1 > MAX_STALE_RELOADS

Staleness ==
    \/ /\ Moved
       /\ stale_reloads' = 0 /\ UNCHANGED <<next_seq, pending_disc>>
    \/ /\ ~Moved /\ ~TooManyStale
       /\ stale_reloads' = stale_reloads + 1 /\ UNCHANGED <<next_seq, pending_disc>>
    \/ /\ ~Moved /\ TooManyStale
       /\ Resync

\* Faulty variant: silence is never too long.
NeverStalls(t) == FALSE

Stalled(t) == t > STALL

\* What the round brought: no progress for too long ends the stream.
After ==
    /\ pc = "after"
    /\ Staleness
    /\ last_edge' = Seq(pl.last)
    /\ idle' = IF played THEN 0 ELSE idle
    /\ IF Stalled(idle')
       THEN pc' = "closing" /\ err' = TRUE
       ELSE pc' = "reload" /\ UNCHANGED err
    /\ UNCHANGED <<stop, pl, cur, considered, played, seg_fails, reload_fails,
                   ready_sent, result, ghosts>>

\* The nap and the reload take at least half a target.
TimePasses == \E t \in 1..2 : idle' = IF idle + t > STALL THEN STALL + 1 ELSE idle + t

Reload ==
    /\ pc = "reload"
    /\ IF StopSeen
       THEN /\ err' = FALSE /\ pc' = "closing"
            /\ UNCHANGED <<shown, idle, reload_fails>>
       ELSE /\ TimePasses
            /\ \/ /\ Loaded
                  /\ reload_fails' = 0 /\ pc' = "round" /\ UNCHANGED err
               \/ /\ server # "sound"
                  /\ reload_fails' = reload_fails + 1
                  /\ IF reload_fails >= MAX_RELOAD_FAILS
                     THEN err' = TRUE /\ pc' = "closing"
                     ELSE err' \in {err, TRUE} /\ pc' = "round"
                  /\ UNCHANGED shown
    /\ UNCHANGED <<stop, next_seq, cur, considered, played, seg_fails,
                   stale_reloads, last_edge, pending_disc, ready_sent, result,
                   heard, tried>>

\* done: the result, then rb_close, then finished.
SetResult ==
    /\ pc = "closing"
    /\ result' = IF stop \/ ~err THEN "ok" ELSE "failed"
    /\ pc' = "closed"
    /\ UNCHANGED <<stop, pl, next_seq, cur, considered, played, count,
                   pending_disc, ready_sent, err, ghosts>>

MarkFinished ==
    /\ pc = "closed"
    /\ pc' = "finished"
    /\ UNCHANGED <<stop, pl, next_seq, cur, considered, played, count,
                   pending_disc, ready_sent, err, result, ghosts>>

\* hls_stream_stop raises the flag at any moment, and waits for the worker.
Stop ==
    /\ ~stop
    /\ stop' = TRUE
    /\ UNCHANGED <<pc, pl, next_seq, cur, considered, played, count,
                   pending_disc, ready_sent, err, result, ghosts>>

Terminated == pc = "finished" /\ stop /\ UNCHANGED vars

WorkerStep ==
    \/ Load \/ StartRound \/ WindowStopped \/ StepOver \/ PlaySegment
    \/ LoseSegment \/ DemuxFails \/ DeadSegment \/ WindowDone \/ After \/ Reload
    \/ SetResult \/ MarkFinished

Next == ((WorkerStep \/ Stop) /\ UNCHANGED server) \/ Terminated

Spec == Init /\ [][Next]_vars

\* The worker runs: its downloads time out, and whoever reads its ring drains it
\* or aborts it.
FairSpec == Spec /\ WF_vars(WorkerStep /\ UNCHANGED server)

-----------------------------------------------------------------------------
(* Properties                                                              *)

\* Bytes of segment cur go to a demuxer last fed with another segment.
Splices == (PlaySegment \/ DemuxFails) /\ fed # 0

Between == (fed + 1)..cur

Tagged == Disc \cap Between # {}

Slid == cur > tried + 1

Backwards == cur <= fed

\* A break the worker can see: in one numbering any, across a renumbering only a
\* tag it stepped over on the way.
Break ==
    IF renumbered THEN over \cap Between # {} ELSE Tagged \/ Slid \/ Backwards

\* Audio from two sides of a break never meets in one demuxer state: a tagged
\* discontinuity, a stretch the window slid past and a jump back are each
\* followed by a reset before the next bytes, even when the segment that
\* carried the tag was skipped (hls.c:463-470, 529-534, 618-627, 663-669).
BreaksReset == [][Splices /\ Break => ResetNow]_vars

\* A stream that broke is not reported as one that ended: the result is 0 only
\* after a stop or at the end of an ended playlist (hls.c:540-543, 638-641, 716).
ResultIsHonest == result = "ok" => stop \/ pl.end

\* The worker's state is in range, each count of failures in its limit, and what it
\* reports is true.
WorkerSound == TypeOk /\ ResultIsHonest

\* The worker never goes quiet: as long as it runs it plays another segment in
\* the end, whatever the server's numbering does (hls.c:649-681).
NeverQuiet == []<>(played \/ pc = "finished")

\* A worker told to stop finishes, which is what the reaper that joins it and
\* the player's report_stream_end wait for (hls.c:525, 634, 687, 820-831).
StopEndsIt == stop ~> (pc = "finished")

\* "otherwise a feed that publishes a little late would be dragged backwards and
\* replay what it just played" (hls.c:656-659): a server that is late for no more
\* loads than the code tolerates, and never shows an older window, is not.
NoReplay == [][server # "erratic" /\ Splices => ~Backwards]_vars

\* "pending_disc carries a discontinuity that belonged to a segment we never
\* played" (hls.c:459-460): the demuxer is reset only at a break.
ResetOnlyAtBreaks ==
    [][Splices /\ ResetNow /\ ~fresh => Break]_vars

=============================================================================
