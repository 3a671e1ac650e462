------------------------------- MODULE Player -------------------------------
(***************************************************************************)
(* src/src/player.c: playback of one station.  Four kinds of thread meet   *)
(* here: the UI thread, which calls player_init, player_play, player_stop  *)
(* and player_shutdown one after another; the decode thread a play starts; *)
(* one network worker per connection (http_stream.c or hls.c), seen here   *)
(* through what it does to its ring and through its callbacks; and one     *)
(* detached reaper per connection given up, which waits for the worker.    *)
(*                                                                         *)
(* A step is one critical section or one access to an atomic; what a       *)
(* thread reads in one step and uses in a later one may be stale.  Local   *)
(* work is merged into a neighbouring step only where no other thread can  *)
(* tell the difference.  A connection is an address, and a freed address   *)
(* is handed out again by the next calloc.                                 *)
(***************************************************************************)
EXTENDS Integers, FiniteSets

CONSTANTS Conns,            \* addresses calloc can return for a Conn
          NoConn,           \* NULL
          MAX_REAPERS,      \* reapers at which player_play refuses
          MAX_SOURCE_HOPS,  \* playlist hops one decode thread follows
          PREBUFFER,        \* PREBUFFER_BYTES, in units of REBUFFER_BYTES
          RB_CAPACITY,      \* capacity of a ring, in the same unit
          MaxLeaks,         \* bound: reapers that could not be started
          MaxGen            \* bound: no new play, stop or init past this g_gen

ASSUME ConnsAssumption == IsFiniteSet(Conns) /\ NoConn \notin Conns
ASSUME LimitAssumption == MAX_REAPERS \in Nat /\ MAX_SOURCE_HOPS \in Nat
ASSUME RingAssumption ==
    /\ PREBUFFER \in Nat \ {0} /\ RB_CAPACITY \in Nat
    /\ PREBUFFER <= RB_CAPACITY
ASSUME BoundAssumption == MaxLeaks \in Nat /\ MaxGen \in Nat

VARIABLES
    g_stop, g_gen,
    state,        \* g_st.state
    ctGen,        \* generation whose callback wrote g_st.content_type; 0: empty
    g_conn, g_rb, \* current connection; connection whose ring is read
    g_src,        \* connection owning the attached g_http or g_hls
    g_reapers,
    upc,          \* where the UI thread is inside player.c
    call,         \* the call it is executing
    uconn,        \* the Conn *c of player_stop
    audio,        \* g_audio is open
    timedOut,     \* the last shutdown gave up waiting
    dpc,          \* where the decode thread is; "none": no thread to join
    dconn,        \* decode_thread's c
    dead,         \* connection the decode thread took and must release
    hops,         \* decode_thread's hops
    playing,      \* PcmCtx.playing
    decoder,      \* g_dec is open
    alloc,        \* [Conns -> BOOLEAN]: the Conn is allocated
    gen,          \* the generation its callbacks carry
    worker,       \* where its network worker is: "http" or "hls" until it has
                  \* announced what it receives; "none": joined, not started
    aborted, fill,\* its ring: aborted flag, units stored
    reaper        \* where its reaper is; "leaked": no reaper could be started

status  == <<state, ctGen>>
handles == <<g_conn, g_rb, g_src>>
ui      == <<upc, call, uconn, audio, timedOut>>
decode  == <<dpc, dconn, dead, hops, playing, decoder>>
ring    == <<aborted, fill>>
conns   == <<alloc, gen, worker, ring, reaper>>
vars    == <<g_stop, g_gen, status, handles, g_reapers, ui, decode, conns>>

States   == {"IDLE", "CONNECTING", "BUFFERING", "PLAYING", "ERROR"}
Calls    == {"none", "play", "stop", "spawnFailed", "shutdown"}
UiSteps  == {"off", "idle", "take", "abort", "join", "clear", "release",
             "reset", "open", "spawn", "spawnError", "wait"}
DecSteps == {"none", "start", "prebuf", "drain", "drained",
             "empty", "classify", "swap", "attach", "retire", "feed", "pcm", "audio", "play",
             "underrun", "rebuf", "ending", "errCheck", "errWrite",
             "out", "outRelease", "exited"}
WorkSteps == {"none", "http", "hls", "stream", "closing", "closed", "finished"}
ReapSteps == {"none", "stop", "join", "free", "drop", "leaked"}

MaybeConn == Conns \cup {NoConn}

Flags ==
    /\ {g_stop, audio, timedOut, playing, decoder} \subseteq BOOLEAN
    /\ alloc \in [Conns -> BOOLEAN]
    /\ aborted \in [Conns -> BOOLEAN]

TypeOk ==
    /\ Flags
    /\ g_gen \in Nat /\ g_reapers \in Int
    /\ state \in States /\ ctGen \in Nat
    /\ {g_conn, g_rb, g_src, uconn, dconn, dead} \subseteq MaybeConn
    /\ upc \in UiSteps /\ call \in Calls
    /\ dpc \in DecSteps /\ hops \in Nat
    /\ gen \in [Conns -> Nat]
    /\ worker \in [Conns -> WorkSteps]
    /\ fill \in [Conns -> 0..RB_CAPACITY]
    /\ reaper \in [Conns -> ReapSteps]

\* Before player_init.  Generation 0 also marks "no source": the first play
\* stops first, so no connection ever carries it.
Init ==
    /\ g_stop = FALSE /\ g_gen = 0
    /\ state = "IDLE" /\ ctGen = 0
    /\ g_conn = NoConn /\ g_rb = NoConn /\ g_src = NoConn
    /\ g_reapers = 0
    /\ upc = "off" /\ call = "none" /\ uconn = NoConn
    /\ audio = FALSE /\ timedOut = FALSE
    /\ dpc = "none" /\ dconn = NoConn /\ dead = NoConn
    /\ hops = 0 /\ playing = FALSE /\ decoder = FALSE
    /\ alloc = [c \in Conns |-> FALSE]
    /\ gen = [c \in Conns |-> 0]
    /\ worker = [c \in Conns |-> "none"]
    /\ aborted = [c \in Conns |-> FALSE]
    /\ fill = [c \in Conns |-> 0]
    /\ reaper = [c \in Conns |-> "none"]

-----------------------------------------------------------------------------
(* Connections: starting a source and giving one up                        *)

\* calloc + rb_init + http_stream_start or hls_stream_start, which creates the
\* worker; the caller installs the handles under g_http_lock in the same step.
\* (The address of a Conn whose reaper has freed it but not yet counted down
\* is not reused: it would only rename the new connection.)
OpenConn(c, k) ==
    /\ ~alloc[c] /\ reaper[c] = "none"
    /\ alloc' = [alloc EXCEPT ![c] = TRUE]
    /\ gen' = [gen EXCEPT ![c] = g_gen]
    /\ worker' = [worker EXCEPT ![c] = k]
    /\ UNCHANGED <<ring, reaper>>
    /\ g_conn' = c /\ g_rb' = c /\ g_src' = c

Leaked == {c \in Conns : reaper[c] = "leaked"}

\* conn_release: abort the ring, count a reaper, start it.  If no thread can be
\* had the count goes back and the Conn is leaked.  (An installed connection
\* always has a handle, so the branch that frees inline is never taken.)  What
\* is left in the ring is forgotten here: nobody reads it again.
ConnRelease(c) ==
    IF c = NoConn THEN UNCHANGED <<ring, reaper, g_reapers>>
    ELSE /\ aborted' = [aborted EXCEPT ![c] = TRUE]
         /\ fill' = [fill EXCEPT ![c] = 0]
         /\ \/ /\ reaper' = [reaper EXCEPT ![c] = "stop"]
               /\ g_reapers' = g_reapers + 1
            \/ /\ Cardinality(Leaked) < MaxLeaks
               /\ reaper' = [reaper EXCEPT ![c] = "leaked"]
               /\ UNCHANGED g_reapers

\* stream_finished(): a stopped or cleared handle counts as finished.
StreamFinished ==
    ~g_stop /\ g_src # NoConn => worker[g_src] = "finished"

-----------------------------------------------------------------------------
(* The UI thread                                                           *)

Idle == upc = "idle"

player_init ==
    /\ upc = "off" /\ g_gen < MaxGen
    /\ \E open \in BOOLEAN : audio' = open
    /\ state' = "IDLE" /\ ctGen' = 0
    /\ g_stop' = FALSE
    /\ upc' = "idle" /\ timedOut' = FALSE
    /\ UNCHANGED <<g_gen, handles, g_reapers, call, uconn, decode, conns>>

\* player_play, player_stop and player_shutdown all begin with player_stop's
\* first statement.
BeginStop(what) ==
    /\ Idle
    /\ what # "shutdown" => g_gen < MaxGen
    /\ call' = what
    /\ g_stop' = TRUE
    /\ upc' = "take"
    /\ UNCHANGED <<g_gen, status, handles, g_reapers, uconn, audio, timedOut,
                   decode, conns>>

\* Detach the handles and take the connection, under g_http_lock.
StopTake ==
    /\ upc = "take"
    /\ uconn' = g_conn
    /\ g_conn' = NoConn /\ g_src' = NoConn
    /\ upc' = "abort"
    /\ UNCHANGED <<g_stop, g_gen, status, g_rb, g_reapers, call, audio,
                   timedOut, decode, conns>>

StopAbort ==
    /\ upc = "abort"
    /\ aborted' = IF uconn = NoConn THEN aborted
                  ELSE [aborted EXCEPT ![uconn] = TRUE]
    /\ upc' = "join"
    /\ UNCHANGED <<g_stop, g_gen, status, handles, g_reapers, call, uconn,
                   audio, timedOut, decode, alloc, gen, worker,
                   fill, reaper>>

\* Faulty variant: the network worker is joined here too.
JoinableWithWorker ==
    /\ dpc \in {"none", "exited"}
    /\ uconn # NoConn => worker[uconn] = "finished"

\* pthread_join, when g_thread_running.
Joinable == dpc \in {"none", "exited"}

StopJoin ==
    /\ upc = "join" /\ Joinable
    /\ dpc' = "none" /\ dconn' = NoConn
    /\ upc' = "clear"
    /\ UNCHANGED <<g_stop, g_gen, status, handles, g_reapers, call, uconn,
                   audio, timedOut, dead, hops, playing, decoder, conns>>

StopClear ==
    /\ upc = "clear"
    /\ decoder' = FALSE
    /\ state' = "IDLE" /\ ctGen' = 0
    /\ g_gen' = g_gen + 1
    /\ g_rb' = NoConn
    /\ upc' = "release"
    /\ UNCHANGED <<g_stop, g_conn, g_src, g_reapers, call, uconn, audio,
                   timedOut, dpc, dconn, dead, hops, playing, conns>>

\* conn_release(c), then back to the caller of player_stop.
AfterStop ==
    IF call = "play" THEN "reset"
    ELSE IF call = "stop" THEN "idle"
    ELSE IF call = "spawnFailed" THEN "spawnError" ELSE "wait"

StopRelease ==
    /\ upc = "release"
    /\ ConnRelease(uconn)
    /\ uconn' = NoConn
    /\ upc' = AfterStop
    /\ call' = IF call = "stop" THEN "none" ELSE call
    /\ UNCHANGED <<g_stop, g_gen, status, handles, audio, timedOut, decode,
                   alloc, gen, worker>>

\* Faulty variant: g_stop is still set when the play reports its early errors.
StopKept == g_stop

\* "Clear the stop flag before any early exit, or set_error drops the message"
StopAfterReset == FALSE

PlayReset ==
    /\ upc = "reset"
    /\ g_stop' = StopAfterReset
    /\ state' = "CONNECTING" /\ ctGen' = 0
    /\ upc' = "open"
    /\ UNCHANGED <<g_gen, handles, g_reapers, call, uconn, audio, timedOut,
                   decode, conns>>

\* "Too many connections still closing"
TooManyReapers == g_reapers >= MAX_REAPERS

\* set_error is silent while a stop is in progress.
ErrorShown == IF g_stop THEN state ELSE "ERROR"

\* Every early return of player_play: no audio port, no URL, too many reapers,
\* no memory, http_stream_start failed - the last two at any time.
PlayRefused ==
    /\ upc = "open"
    /\ state' = ErrorShown
    /\ upc' = "idle" /\ call' = "none"
    /\ UNCHANGED <<g_stop, g_gen, ctGen, handles, g_reapers, uconn,
                   audio, timedOut, decode, conns>>

PlayOpens(c) ==
    /\ upc = "open"
    /\ audio /\ ~TooManyReapers
    /\ OpenConn(c, "http")
    /\ upc' = "spawn"
    /\ UNCHANGED <<g_stop, g_gen, status, g_reapers, call, uconn, audio,
                   timedOut, decode>>

PlaySpawns ==
    /\ upc = "spawn"
    /\ dpc' = "start" /\ dconn' = g_conn
    /\ upc' = "idle" /\ call' = "none"
    /\ UNCHANGED <<g_stop, g_gen, status, handles, g_reapers, uconn, audio,
                   timedOut, dead, hops, playing, decoder, conns>>

\* pthread_create failed: player_stop again, then the error.
PlayCannotSpawn ==
    /\ upc = "spawn"
    /\ call' = "spawnFailed"
    /\ g_stop' = TRUE
    /\ upc' = "take"
    /\ UNCHANGED <<g_gen, status, handles, g_reapers, uconn, audio, timedOut,
                   decode, conns>>

PlaySpawnError ==
    /\ upc = "spawnError"
    /\ state' = "ERROR"
    /\ upc' = "idle" /\ call' = "none"
    /\ UNCHANGED <<g_stop, g_gen, ctGen, handles, g_reapers, uconn,
                   audio, timedOut, decode, conns>>

\* player_shutdown's wait: every reaper has counted down, or 35 s have passed.
ShutdownDone ==
    /\ upc = "wait"
    /\ \/ g_reapers = 0 /\ timedOut' = FALSE
       \/ g_reapers > 0 /\ timedOut' = TRUE
    /\ audio' = FALSE
    /\ upc' = "off" /\ call' = "none"
    /\ UNCHANGED <<g_stop, g_gen, status, handles, g_reapers, uconn, decode,
                   conns>>

UiStep ==
    \/ StopTake \/ StopAbort \/ StopJoin \/ StopClear \/ StopRelease
    \/ PlayReset \/ PlayRefused \/ (\E c \in Conns : PlayOpens(c))
    \/ PlaySpawns \/ PlayCannotSpawn \/ PlaySpawnError \/ ShutdownDone

-----------------------------------------------------------------------------
(* The decode thread                                                       *)

shared == <<g_stop, g_gen, g_reapers, ui>>

Goto(step) ==
    /\ dpc' = step
    /\ UNCHANGED <<dconn, dead, hops, playing, decoder>>

\* pre and buf are allocated, or not.
DecodeStart ==
    /\ dpc = "start"
    /\ (Goto("prebuf") \/ Goto("errCheck"))
    /\ UNCHANGED <<shared, status, handles, conns>>

\* The pre-buffer loop ends: the three conditions it polls stay true once true,
\* so the instant at which each was sampled does not matter.
Prebuffered ==
    /\ dpc = "prebuf"
    /\ g_stop \/ fill[g_rb] >= PREBUFFER \/ StreamFinished
    /\ Goto("drain")
    /\ UNCHANGED <<shared, status, handles, conns>>

\* rb_read with no timeout until PREBUFFER bytes are in hand or it has no more.
Drain ==
    /\ dpc = "drain"
    /\ IF g_stop
       THEN Goto("out") /\ UNCHANGED fill
       ELSE LET n == IF aborted[g_rb] THEN 0
                     ELSE IF fill[g_rb] < PREBUFFER THEN fill[g_rb] ELSE PREBUFFER
            IN /\ fill' = [fill EXCEPT ![g_rb] = @ - n]
               /\ Goto(IF n > 0 THEN "drained" ELSE "empty")
    /\ UNCHANGED <<shared, status, handles, alloc, gen, worker,
                   aborted, reaper>>

Drained ==
    /\ dpc \in {"drained", "empty"}
    /\ Goto(IF g_stop THEN "out" ELSE IF dpc = "empty" THEN "ending" ELSE "classify")
    /\ UNCHANGED <<shared, status, handles, conns>>

\* "Too many playlist redirections"
TooManyHops == hops >= MAX_SOURCE_HOPS

\* What the body is: a playlist or an HLS manifest to follow, ...
ClassifyPlaylist ==
    /\ dpc = "classify"
    /\ hops' = hops + 1
    /\ \/ dpc' = IF TooManyHops THEN "errCheck" ELSE "swap"
       \/ dpc' = "errCheck"           \* no usable URL in the playlist
    /\ UNCHANGED <<dconn, dead, playing, decoder>>
    /\ UNCHANGED <<shared, status, handles, conns>>

\* ... text or an unknown format, or a decoder that will not open, ...
ClassifyUnplayable ==
    /\ dpc = "classify"
    /\ Goto("errCheck")
    /\ UNCHANGED <<shared, status, handles, conns>>

\* ... or audio: open the decoder and feed it what was pre-buffered.
ClassifyAudio ==
    /\ dpc = "classify"
    /\ decoder' = TRUE /\ playing' = FALSE
    /\ dpc' = "feed"
    /\ UNCHANGED <<dconn, dead, hops>>
    /\ UNCHANGED <<shared, status, handles, conns>>

\* switch_source, under g_lock: "everything describing the OLD body has to go",
\* and a new generation begins.
SwitchReset ==
    /\ dpc = "swap"
    /\ state' = "CONNECTING" /\ ctGen' = 0
    /\ g_gen' = g_gen + 1
    /\ Goto("attach")
    /\ UNCHANGED <<g_stop, g_reapers, ui, handles, conns>>

\* Faulty variant: switch_source does not look at g_stop again.
SwitchGoesOn == FALSE

\* "stopped while we were setting up"
SwitchStopped == g_stop

\* switch_source, under g_http_lock: install the new connection unless a stop
\* got there first; the old one is now this thread's to release.
SwitchInstall(c, k) ==
    /\ dpc = "attach" /\ ~SwitchStopped
    /\ OpenConn(c, k)
    /\ dead' = dconn /\ dconn' = c
    /\ dpc' = "retire"
    /\ UNCHANGED <<hops, playing, decoder>>
    /\ UNCHANGED <<shared, status>>

\* The stop owns the connection; or there is no memory or no worker thread for
\* a new one, and the old one is still installed.
SwitchFails ==
    /\ dpc = "attach"
    /\ Goto(IF SwitchStopped THEN "out" ELSE "errCheck")
    /\ UNCHANGED <<shared, status, handles, conns>>

SwitchRetire ==
    /\ dpc = "retire"
    /\ ConnRelease(dead)
    /\ dead' = NoConn /\ dpc' = "prebuf"
    /\ UNCHANGED <<dconn, hops, playing, decoder>>
    /\ UNCHANGED <<g_stop, g_gen, ui, status, handles, alloc, gen, worker>>

\* decoder_feed: PCM to play, none yet, or data it cannot decode.
FeedPcm ==
    /\ dpc = "feed"
    /\ Goto(IF g_stop THEN "out" ELSE IF playing THEN "audio" ELSE "pcm")
    /\ UNCHANGED <<shared, status, handles, conns>>

FeedNothing ==
    /\ dpc = "feed"
    /\ (Goto("play") \/ Goto("errCheck"))
    /\ UNCHANGED <<shared, status, handles, conns>>

\* on_pcm, first grain since the last (re)buffer.
FirstPcm ==
    /\ dpc = "pcm"
    /\ playing' = TRUE /\ state' = "PLAYING"
    /\ dpc' = "audio"
    /\ UNCHANGED <<dconn, dead, hops, decoder>>
    /\ UNCHANGED <<shared, ctGen, handles, conns>>

\* audio_out_write, which may fail.  One grain stands for all those of the feed:
\* a later one repeats the g_stop test and the write.
AudioWrite ==
    /\ dpc = "audio"
    /\ (Goto("play") \/ Goto("errCheck"))
    /\ UNCHANGED <<shared, status, handles, conns>>

\* rb_read with READ_TIMEOUT_MS: some bytes, a timeout, or -1.
RingEnded == aborted[g_rb] \/ (fill[g_rb] = 0 /\ worker[g_rb] \in {"closed", "finished"})

PlayStopped ==
    /\ dpc = "play" /\ g_stop
    /\ Goto("out")
    /\ UNCHANGED <<shared, status, handles, conns>>

PlayReads ==
    /\ dpc = "play" /\ ~g_stop
    /\ ~aborted[g_rb]
    /\ \E n \in 1..fill[g_rb] : fill' = [fill EXCEPT ![g_rb] = @ - n]
    /\ Goto("feed")
    /\ UNCHANGED <<shared, status, handles, alloc, gen, worker,
                   aborted, reaper>>

PlayEnds ==
    /\ dpc = "play" /\ ~g_stop
    /\ RingEnded
    /\ Goto("ending")
    /\ UNCHANGED <<shared, status, handles, conns>>

\* Nothing arrived for UNDERRUN_MS and the source is not over.
PlayUnderruns ==
    /\ dpc = "play" /\ ~g_stop
    /\ fill[g_rb] = 0 /\ ~RingEnded /\ ~StreamFinished
    /\ Goto("underrun")
    /\ UNCHANGED <<shared, status, handles, conns>>

\* Faulty variant: the next PCM does not count as the first one.
StillPlaying == playing

\* "ctx.playing = 0"
PlayingAfterUnderrun == FALSE

Underrun ==
    /\ dpc = "underrun"
    /\ state' = "BUFFERING"
    /\ playing' = PlayingAfterUnderrun
    /\ dpc' = "rebuf"
    /\ UNCHANGED <<dconn, dead, hops, decoder>>
    /\ UNCHANGED <<shared, ctGen, handles, conns>>

Rebuffered ==
    /\ dpc = "rebuf"
    /\ g_stop \/ fill[g_rb] >= 1 \/ StreamFinished
    /\ Goto("play")
    /\ UNCHANGED <<shared, status, handles, conns>>

\* report_stream_end: the ring closes before the worker says it has finished,
\* so wait for that before asking it for its result.
StreamEnds ==
    /\ dpc = "ending"
    /\ StreamFinished
    /\ Goto(IF g_stop THEN "out" ELSE "errCheck")
    /\ UNCHANGED <<shared, status, handles, conns>>

\* set_error looks at g_stop, then takes g_lock.
ErrorCheck ==
    /\ dpc = "errCheck"
    /\ Goto(IF g_stop THEN "out" ELSE "errWrite")
    /\ UNCHANGED <<shared, status, handles, conns>>

ErrorWrite ==
    /\ dpc = "errWrite"
    /\ state' = "ERROR"
    /\ Goto("out")
    /\ UNCHANGED <<shared, ctGen, handles, conns>>

\* Faulty variant: a thread that ends by itself leaves its connection installed.
OutTakesNever == FALSE

\* "exactly one of us retires it, never both"
OutTakes == ~g_stop

DecodeOut ==
    /\ dpc = "out"
    /\ IF OutTakes
       THEN /\ dead' = g_conn
            /\ g_conn' = NoConn /\ g_src' = NoConn /\ g_rb' = NoConn
       ELSE UNCHANGED <<dead, handles>>
    /\ dpc' = "outRelease"
    /\ UNCHANGED <<dconn, hops, playing, decoder>>
    /\ UNCHANGED <<shared, status, conns>>

DecodeExit ==
    /\ dpc = "outRelease"
    /\ ConnRelease(dead)
    /\ dead' = NoConn /\ dpc' = "exited"
    /\ hops' = 0 /\ playing' = FALSE
    /\ UNCHANGED <<dconn, decoder>>
    /\ UNCHANGED <<g_stop, g_gen, ui, status, handles, alloc, gen, worker>>

DecodeStep ==
    \/ DecodeStart \/ Prebuffered \/ Drain \/ Drained
    \/ ClassifyPlaylist \/ ClassifyUnplayable \/ ClassifyAudio
    \/ SwitchReset \/ SwitchFails \/ SwitchRetire
    \/ (\E c \in Conns, k \in {"http", "hls"} : SwitchInstall(c, k))
    \/ FeedPcm \/ FeedNothing \/ FirstPcm \/ AudioWrite
    \/ PlayStopped \/ PlayReads \/ PlayEnds \/ PlayUnderruns
    \/ Underrun \/ Rebuffered \/ StreamEnds
    \/ ErrorCheck \/ ErrorWrite \/ DecodeOut \/ DecodeExit

-----------------------------------------------------------------------------
(* A network worker, as far as the player can tell                         *)

rest == <<g_stop, g_gen, handles, g_reapers, ui, decode>>

WorkerGoes(c, step) ==
    /\ worker' = [worker EXCEPT ![c] = step]
    /\ UNCHANGED <<alloc, gen, reaper>>

Downloading(c) == worker[c] \in {"http", "hls", "stream"}

\* Faulty variant: a callback of an abandoned connection is let through.
AnyCallback(c) == TRUE

\* (uintptr_t)user == g_gen, under g_lock
Current(c) == gen[c] = g_gen

\* "if (g_st.state == PLAYER_CONNECTING) g_st.state = PLAYER_BUFFERING"
StateAfterHeaders == IF state = "CONNECTING" THEN "BUFFERING" ELSE state

\* on_headers or on_hls_ready.  An http worker announces its headers before the
\* first audio byte; an HLS worker its codec after the first segment's bytes.
Announce(c) ==
    /\ worker[c] \in {"http", "hls"}
    /\ WorkerGoes(c, "stream")
    /\ IF Current(c) THEN ctGen' = gen[c] /\ state' = StateAfterHeaders
                     ELSE UNCHANGED <<ctGen, state>>
    /\ UNCHANGED <<ring, rest>>

\* Faulty variant: a full ring takes more.
AlwaysRoom(c) == TRUE

HasRoom(c) == fill[c] < RB_CAPACITY

\* rb_write: blocks while the ring is full, fails once it is aborted, and a
\* failed write ends the transfer.
RingWrite(c) ==
    /\ worker[c] \in {"hls", "stream"}
    /\ IF aborted[c]
       THEN WorkerGoes(c, "closing") /\ UNCHANGED ring
       ELSE /\ HasRoom(c)
            /\ fill' = [fill EXCEPT ![c] = @ + 1]
            /\ UNCHANGED <<aborted, alloc, gen, worker, reaper>>
    /\ UNCHANGED <<status, rest>>

\* The transfer ends, for any reason the network has.
TransferEnds(c) ==
    /\ Downloading(c)
    /\ WorkerGoes(c, "closing")
    /\ UNCHANGED <<status, ring, rest>>

\* rb_close(out), and then "finished = 1".
CloseRing(c) ==
    /\ worker[c] = "closing"
    /\ WorkerGoes(c, "closed")
    /\ UNCHANGED <<status, ring, rest>>

MarkFinished(c) ==
    /\ worker[c] = "closed"
    /\ WorkerGoes(c, "finished")
    /\ UNCHANGED <<status, ring, rest>>

WorkerStep(c) ==
    \/ Announce(c) \/ RingWrite(c)
    \/ TransferEnds(c) \/ CloseRing(c) \/ MarkFinished(c)

-----------------------------------------------------------------------------
(* reap_thread                                                             *)

reaperRest == <<g_stop, g_gen, status, handles, ui, decode>>

\* http_stream_stop or hls_stream_stop: raise the worker's stop flag - it is up
\* exactly while the reaper is at "join" - and abort the ring ...
ReapStop(c) ==
    /\ reaper[c] = "stop"
    /\ aborted' = [aborted EXCEPT ![c] = TRUE]
    /\ reaper' = [reaper EXCEPT ![c] = "join"]
    /\ UNCHANGED <<alloc, gen, worker, fill, g_reapers, reaperRest>>

\* Faulty variant: the reaper does not wait for the worker.
WorkerLeftBehind(c) == TRUE

\* pthread_join(s->thread)
WorkerJoinable(c) == worker[c] = "finished"

\* ... and join the worker, however long it takes.
ReapJoin(c) ==
    /\ reaper[c] = "join" /\ WorkerJoinable(c)
    /\ worker' = [worker EXCEPT ![c] = IF @ = "finished" THEN "none" ELSE @]
    /\ reaper' = [reaper EXCEPT ![c] = "free"]
    /\ UNCHANGED <<alloc, gen, ring, g_reapers, reaperRest>>

\* rb_free and free.  The next owner of the address gets a zeroed Conn.
ReapFree(c) ==
    /\ reaper[c] = "free"
    /\ alloc' = [alloc EXCEPT ![c] = FALSE]
    /\ gen' = [gen EXCEPT ![c] = 0]
    /\ aborted' = [aborted EXCEPT ![c] = FALSE]
    /\ fill' = [fill EXCEPT ![c] = 0]
    /\ reaper' = [reaper EXCEPT ![c] = "drop"]
    /\ UNCHANGED <<worker, g_reapers, reaperRest>>

\* "Last statement on purpose"
ReapDrop(c) ==
    /\ reaper[c] = "drop"
    /\ g_reapers' = g_reapers - 1
    /\ reaper' = [reaper EXCEPT ![c] = "none"]
    /\ UNCHANGED <<alloc, gen, worker, ring, reaperRest>>

ReaperStep(c) == ReapStop(c) \/ ReapJoin(c) \/ ReapFree(c) \/ ReapDrop(c)

-----------------------------------------------------------------------------

\* The application has shut the player down and every thread it waited for, or
\* gave up on, has gone.
Terminated ==
    /\ upc = "off" /\ g_gen >= MaxGen
    /\ \A c \in Conns : reaper[c] \in {"none", "leaked"}
    /\ UNCHANGED vars

Next ==
    \/ player_init
    \/ \E what \in {"play", "stop", "shutdown"} : BeginStop(what)
    \/ UiStep
    \/ DecodeStep
    \/ \E c \in Conns : WorkerStep(c)
    \/ \E c \in Conns : ReaperStep(c)
    \/ Terminated

Spec == Init /\ [][Next]_vars

\* Faulty variant: the stop joins the worker without telling it to stop.
NeverTold(c) == FALSE

\* http_stream_stop has set s->stop and waits in pthread_join.
ToldToStop(c) == reaper[c] = "join"

\* A worker told to stop winds down: curl's progress callback sees the flag, a
\* ring write fails, and a DNS lookup or connect returns in the end.  A worker
\* whose transfer has ended reaches "finished".
WindDown(c) ==
    \/ ToldToStop(c) /\ TransferEnds(c)
    \/ CloseRing(c) \/ MarkFinished(c)

Fairness ==
    /\ WF_vars(UiStep)
    /\ WF_vars(DecodeStep)
    /\ \A c \in Conns : WF_vars(WindDown(c)) /\ WF_vars(ReaperStep(c))

FairSpec == Spec /\ Fairness

-----------------------------------------------------------------------------
(* Properties                                                              *)

WithReaper(c) == reaper[c] \in {"stop", "join", "free", "leaked"}

\* Every allocated connection has exactly one owner - the player, the stop that
\* took it, the decode thread that must release it, or its reaper - and a free
\* one has none: a stop, a source swap and a self-ended station can overlap in
\* any order and still retire each connection once, never twice and never not
\* at all (player.c:305-343, 499-521, 684-719).
OneOwner ==
    /\ \A c \in Conns : alloc[c] <=> (c \in {g_conn, uconn, dead} \/ WithReaper(c))
    /\ \A c \in {g_conn, uconn, dead} \ {NoConn} : ~WithReaper(c)
    /\ g_conn # NoConn => g_conn \notin {uconn, dead}
    /\ uconn # NoConn => uconn # dead

ReadsRing == {"prebuf", "drain", "drained", "empty", "classify", "swap", "attach", "feed",
              "pcm", "audio", "play", "underrun", "rebuf"}

\* No thread can touch a freed connection: the ring the decode thread reads, the
\* handle stream_finished asks, and the ring a live worker writes all belong to
\* an allocated Conn whose reaper, if any, has not passed the join
\* (player.c:108-120, 475, 544-560).
NoUseAfterFree ==
    /\ dpc \in ReadsRing => g_rb # NoConn /\ alloc[g_rb] /\ reaper[g_rb] = "none"
    /\ g_src # NoConn => alloc[g_src] /\ reaper[g_src] = "none"
    /\ \A c \in Conns : worker[c] # "none" => alloc[c] /\ reaper[c] # "free"
    /\ dpc \in {"feed", "pcm", "audio", "play", "underrun", "rebuf"} => decoder

\* Nothing an abandoned connection says reaches the status line: what the
\* classifier and the UI read as content type came from the current source
\* (player.c:169-179, 285-295, 714).
ContentTypeIsCurrent == ctGen \in {0, g_gen}

Busy == {"CONNECTING", "BUFFERING", "PLAYING"}

\* Whenever the UI thread is between calls, a station shown as connecting,
\* buffering or playing has a decode thread that will move it on: no refusal and
\* no way out of the decode thread leaves the user watching a dead station
\* (player.c:88-99, 499-525, 600-674).
NoDeadStation ==
    Idle /\ state \in Busy => dpc \notin {"none", "out", "outRelease", "exited"}

\* While PCM flows the status says so (or an error): the flag that suppresses
\* repeated state writes never outlives a change of state made elsewhere
\* (player.c:234-242, 486-489).
SoundMeansPlaying ==
    playing /\ dpc \in {"feed", "audio", "play"} => state = "PLAYING"

Reaping == {c \in Conns : reaper[c] \in {"stop", "join", "free", "drop"}}

\* The count the cap is tested against is the number of reapers not yet done,
\* and it exceeds the cap only by what one station's own hops and its final
\* release can add (player.c:30, 544-560, 618-627).
ReapersBounded ==
    /\ g_reapers = Cardinality(Reaping)
    /\ g_reapers <= MAX_REAPERS + MAX_SOURCE_HOPS

\* A shutdown that did not time out returns to a caller that may tear down curl:
\* no worker and no reaper is left, except for what was leaked
\* (player.c:553-558, 731-751).
CleanShutdown ==
    upc = "off" /\ ~timedOut =>
        \A c \in Conns : alloc[c] \/ worker[c] # "none" => reaper[c] = "leaked"

\* An error stays on screen until the user acts: no late callback and no later
\* step of the decode thread replaces it (player.c:176, 204, 252-261).
ErrorSticks == [][state = "ERROR" /\ state' # "ERROR" => upc = "clear"]_vars

\* The UI thread is never stuck: every call returns, although a stop waits for
\* the decode thread and a shutdown for the reapers (player.c:698-705, 745-747).
CallsReturn == (upc \notin {"idle", "off"}) ~> (upc \in {"idle", "off"})

\* A connection given to a reaper is freed in the end (player.c:544-560).
ReapedIsFreed == \A c \in Conns : (reaper[c] = "stop") ~> (reaper[c] = "none")

\* A source that is over does not stay installed: the decode thread reports its
\* end, or follows it elsewhere, or a stop takes it (player.c:149-163, 472-479).
EndedSourceRetired ==
    \A c \in Conns : (g_src = c /\ worker[c] = "finished") ~> (g_src # c)

\* The connection the status is about: the installed one, or the one a stop has
\* taken while it waits for the thread that reads it.
Station ==
    IF g_conn # NoConn THEN g_conn
    ELSE IF upc \in {"abort", "join", "clear"} THEN uconn ELSE NoConn

Closing == {c \in Conns : alloc[c]} \ {Station}

Called == IF call = "spawnFailed" THEN "play" ELSE call

Caller == INSTANCE Session
    WITH on <- upc # "off", call <- Called, shown <- state, station <- Station,
         closing <- Closing, leaked <- Leaked,
         lost <- timedOut, Limit <- MAX_REAPERS

\* To its caller the player is one session without threads: whatever the threads
\* are doing, the status and the station behind it move together, a call that has
\* begun is not overtaken by a hop or by the end of the station, no connection is
\* lost sight of, and none that is closing holds up the next station below the cap
\* (player.h:4-35).
ImplementsSession == Caller!Spec

=============================================================================
