# TLA+ models of Vita Radio

Vita Radio is an internet radio player for the PlayStation Vita, in C. This
directory holds TLA+ models of it, configurations that check them with TLC, and
proofs checked with TLAPS. Every definition is translated from the source under
`src/`; `PROJECT.json` records, for each, the lines it stands for.

## 1. The system

One process with one UI thread, and a second, tiny process (the installer
title). Three to five further threads come and go while a station plays.

| component | state it keeps | operations | how it meets the others |
|---|---|---|---|
| ring buffer `ringbuf.c` | array, head, tail, count, `closed`, `aborted`, one mutex, one condition variable | write, read (forever, poll, timed), close, abort, reset | between one network worker and the decode thread; aborted by a third thread |
| player `player.c` | `g_st` (state, content type) under `g_lock`, `g_conn`/`g_http`/`g_hls` under `g_http_lock`, `g_rb`, `g_stop`, `g_gen`, `g_reapers` | init, play, stop, shutdown; decode thread; `switch_source`; `conn_release`; `reap_thread`; callbacks of the workers | owns connections; reads rings; is called back by workers on their threads |
| HTTP stream worker `http_stream.c` | curl transfer, header latch, `stop`, `finished`, result | start, stop, header/write/progress callbacks | writes a ring, calls back headers and titles |
| HLS worker `hls.c` | playlist, `next_seq`, staleness and failure counters, `pending_disc`, segment buffer, key cache, `stop`, `finished`, result | load, position, play a window, play a segment, reload | downloads segments, feeds the demuxers, writes a ring |
| blocking fetch `http_get.c` | one document in memory | get | called by the HLS worker (playlists, keys), the directory client and the updater |
| demuxers `ts_demux.c`, `adts_scan.c`, `icy.c` | partial packets, PES and frame state | feed, reset | fed by the workers in arbitrary pieces |
| favourites and settings `favourites.c`, `settings.c` | a list or a theme index, a file, its `.tmp` and `.bak` | load, change, save | called by the main loop; survive a power cut through the card |
| updater `updater.c`, `promote.c`, `zip_extract.c`, and the helper title `updater/main.c` | `s_state`, one worker thread, staged package and token on the card | check, install, launch, shutdown; promote | main loop gates input on its state; helper shares only files with it |
| main loop `main.c` | tab, selection, chips, three station lists (`station_list.c`) | input, tick, teardown | calls everything above |
| directory client `rbrowser.c` | last good mirror | search, top, by tag, by country | blocks the main loop while it asks |
| text and data `m3u8.c`, `playlist.c`, `json.c`, `release_json.c`, `sniff.c`, `url_util.c`, `version.c`, `pkg_meta.c` | none | parse, classify, compare | pure functions of buffers |
| codecs and crypto `decoder.c`, `aes128.c`, `sha1.c`, `hls_crypt.c`, `audio_out.c` | library handles | wrappers | called by the decode thread, the HLS worker and the updater |
| user interface `ui.c`, `theme.c`, `ime.c` | drawing state | draw, keyboard dialog | called by the main loop only |

What is hard about it, and what must hold:

* **Player.** A stop on the UI thread, a playlist hop on the decode thread, a
  station that ends by itself, workers that cannot be interrupted for seconds
  and reapers that outlive the station all meet at `g_conn`. Correct means: each
  connection is retired exactly once, nothing freed is touched, callbacks of an
  abandoned connection are ignored, no station is shown that nobody plays, and
  no call blocks the UI on the network.
* **Ring.** One condition variable for two sides, chunked writes, timed waits on
  a clock that can step. Correct means: a byte FIFO, no lost wakeup, no
  truncated stream on close, no thread stuck after an abort.
* **HLS worker.** A live playlist is only ever seen through a sliding window, can
  be late, renumbered, or fail to load. Correct means: audio from two sides of a
  break never meets in one demuxer state, nothing is played twice, the worker
  neither spins nor goes silent, and its result tells a broken stream from an
  ended one.
* **Files.** The Vita's rename refuses to replace. Correct means: no power cut or
  failed operation leaves a torn file or loses every copy of the list.
* **Updater.** A staged package, a one-shot token, a helper title that can be
  opened at any time, and a teardown that must join the installing thread.
* **HTTP stream.** Redirects, error pages and metadata blocks arrive through two
  callbacks, in any pieces. Correct means: only the station's audio enters the ring,
  and the result names what happened, whatever curl says.
* **Segments.** One buffer and four cached keys serve all of them. Correct means: what
  is demuxed is this segment, whole, under its own key.
* **Parsers.** The same bytes must mean the same thing however the network
  splits them; after loss or junk a parser must neither emit a splice nor trust a
  position it cannot know; what a playlist says of a segment must be what its server
  meant by it.
* **Browser.** Three lists, a star on every row, requests that fail. Correct means:
  what is on the screen belongs together.

`PROJECT.json` lists each such hazard at its line, with the properties that
cover it or the reason none does yet.

## 2. The modules

| module | models | instance |
|---|---|---|
| `ByteFifo` | what `ringbuf.h` promises: a bounded byte queue that can be closed and aborted | abstract specification |
| `RingBuf` | `ringbuf.c` in full, and its refinement of `ByteFifo` | `RingBuf.cfg` |
| `Session` | what `player.h` promises its caller: a status, and a station behind it, without threads | abstract specification |
| `Player` | `player.c`, its refinement of `Session`, and the two workers as far as it can tell them apart | `Player.cfg` through `MCPlayer` (symmetry), `PlayerLive.cfg` |
| `RingBufProofs` | theorems about `RingBuf`, its refinement of `ByteFifo` among them | |
| `PlayerProofs` | theorems about `Player` | |
| `SafeSave` | `fav_save`/`fav_load`, which `settings.c` repeats operation for operation | `SafeSave.cfg` through `MCSafeSave` (both kinds of card), `SafeSaveWindow.cfg` |
| `SafeSaveProofs`, `MCSafeSaveProofs` | theorems about `SafeSave`, and about the two cards together | |
| `Updater` | `updater.c`, what of `main.c` drives it, and the helper title `updater/main.c` | `Updater.cfg`, `UpdaterLimbo.cfg` |
| `UpdaterProofs` | theorems about `Updater` | |
| `HlsWorker` | the worker loop of `hls.c` and a playlist server | `HlsWorker.cfg`, `HlsReloadFails.cfg`, `HlsRepeatedReset.cfg` |
| `HlsWorkerProofs` | theorems about `HlsWorker` | |
| `IcyParser` | `icy.c` | part of `HttpStream` |
| `HttpStream` | `http_stream.c`, libcurl as it calls back, and a station's server | `HttpStream.cfg` through `MCHttpStream` |
| `HttpStreamProofs` | theorems about `HttpStream` and the parser in it | |
| `HttpGet` | `http_get.c` | part of `HlsSegment` |
| `HlsSegment` | `play_segment` of `hls.c`: download, key, decryption, feed, announcement | `Units.cfg` through `MCUnits` |
| `TsDemux` | `ts_demux.c` | the same |
| `AdtsScan` | `adts_scan.c` | the same |
| `M3u8` | `m3u8_parse` and `m3u8_pick_variant` | the same |
| `Browser` | tabs, lists, chips and search of `main.c`, `station_list.c`, the requests of `rbrowser.c` | the same |
| `UnitsProofs` | theorems about all five on the bench, and `HttpGet` in one of them | |

`MCUnits` puts the five sequential components `TsDemux`, `AdtsScan`, `M3u8`, `Browser`
and `HlsSegment` on one bench: a behaviour picks one and the others rest. They share
no state, so the run is the union of five, not their product.

An operator whose comment begins with "Faulty variant" is a plausible mistake in
the definition that follows it. No specification uses it; swapping it in for that
definition makes TLC report the property that `PROJECT.json` pairs with it, which
shows that the property depends on that piece of the code.

### RingBuf

A step is a critical section: from the moment a thread holds the mutex to its
unlock or its wait. `waitSet` is the set of threads parked on the condition
variable, `Broadcast` empties it, `SpuriousWake` removes a thread for no reason.
`head`, `tail`, `count` and the array are the fields of the struct, `CopyIn` and
`CopyOut` the two `memcpy` calls each way. Bytes are numbered in the order they
are offered, so a wrong index is a wrong byte. A write longer than the free space
is several steps (`WriteChunk`). `Reset` needs both sides outside, as its callers do.

A timed read has two clocks under it. `elapsed` is monotonic time since `started`, `due`
how far off `deadline` is on the wall clock, `delay` what is left of the wait. `Tick`
moves all three; `WallStep` sets the wall clock, which moves `due` only, since the library
turns the deadline into a delay when a wait is entered (`ringbuf.c:111-113`, `WaitUntil`).
A wait that is over (`Expire`) leaves the reader in `expired` until it has the lock
(`TimeOut`); then an end or data that came meanwhile wins, and otherwise the monotonic
clock decides between giving up and `Rearm`, which takes a new deadline for what is left
and waits for it; the clock may be set between the two (`NewDeadline`). `early`, `ahead` and
`back` count early expiries and how often or how far the clock was set. Left out: a thread
held up between its readings of the two clocks, which are taken at one moment here.

`ImplementsFifo` maps the ring to `ByteFifo` by reading the stored bytes from
`head`, and each answer of a read to one the queue would give: a timeout only where there
is nothing to have, the end only of an aborted or a drained queue.

### Player

A connection is an address out of `Conns`; a freed one is handed out again, as
`calloc` may. Four kinds of thread interleave: the UI thread (`upc`, one call
after the other), the decode thread (`dpc`), one worker per connection (`worker`)
and one reaper per connection given up (`reaper`). A step is one critical section
of `g_lock` or `g_http_lock` or one access to an atomic; reads that a thread uses
later (the `g_stop` test in `set_error`, the check of the cap before opening)
are steps of their own. `ring` is seen as an aborted flag and a fill level, which
`RingBuf` justifies. `worker` holds what of `http_stream.c` and `hls.c` the player
can observe: announce, write, end, `rb_close`, `finished`. `ctGen` is the
generation of the callback that wrote the content type. Titles, notes, byte
counters and the contents of `g_st.error` are left out. Classification
(`sniff.c`, `playlist.c`), decoders and the audio port answer with every outcome
they have.

`ImplementsSession` maps all this to `Session`, where there is one status, at most one
station, and a set of connections that are closing. The station is the installed
connection or, once a stop has taken that one, the stop's, until the decode thread
that may still speak for it is joined and the status is cleared (`Station`). A
connection is closing from then, or from the hop or the end that replaced it, until its
memory is freed. What `Session` rules out: a status that says something is received
while there is no station, a hop or an end that overtakes a call, a call that returns
with a status that does not fit its outcome, a connection that is neither the
station nor closing, a station opened with the cap on closing connections reached, a
shutdown that returns early without having timed out. It allows a station to change the
status while a stop is under way, which the code does too.

### SafeSave

The card maps each of `path`, `tmp`, `bak` to the number of the change it holds,
to nothing, or to `Torn`. Every step is one file operation of `fav_save`; rename,
remove and power loss are modelled as the external things they are. With
`RenameReplaces = FALSE` rename refuses an existing target, as `favourites.c:90-93`
says of the Vita. Directory operations reach the card in order, data only with
`fsync`, so a cut may tear whatever is unsynced. `SaveStep` may fail at every
`fopen`, write and sync; failing renames, removes and reads are counted by
`faults`.

### HlsWorker

One action per stage of the loop of `worker` (`hls.c:566-726`): `Load`,
`StartRound` (position, including "fell behind the live window"), `StepOver`,
`PlaySegment`, `LoseSegment`, `DemuxFails`, `DeadSegment`, `WindowDone`, `After`
(staleness, resync, stall), `Reload`, `SetResult`, `MarkFinished`, and `Stop` at
any point. The server is the nondeterminism of `Loaded`: each load shows a window
of consecutive segments. A sound server only moves forward and is late at most
`MaxLag` loads in a row; an erratic one shows any window at any time and can
renumber. Time advances by a half or a whole target duration a round, and `STALL`
is compared with the sum. `lag`, `renumbered`, `fed`, `over` and `tried` are
history the properties need; `fresh` is the demuxer's own state after a reset.
`server` is picked at the start: "sound", "failing" (sound, but a load may fail) or
"erratic". What one segment goes through is one step here and `HlsSegment` there.

### Updater

Three processes of control share a card: the application's `main()` (`mpc`), its
worker thread (`wpc`, check or install) and the helper title (`hpc`). `files` holds the
staging directory, the package directory, the token, the pending tag and the result;
`unsynced` the names whose data may still be lost, since none of these writes is
followed by `fsync`. A package, token or tag is the number of the install that made it,
and `release` maps it to a release, because the digest in the token is of `param.sfo`
and two packages of one release have the same. Every unlink, rename and write is a
step, so a power cut or the helper, which ends the application when it starts
(`AppCloses`), can come between any two. `Sample` and `Act` are one frame of the main
loop: the state is sampled once and acted on afterwards, with START outside the gate.
The promoter, renames of directories, the power and the user are external. The removal of
the token is taken to succeed: the helper does not look at what `sceIoRemove` returns
(`updater/main.c:91`), and where it failed the token could be spent twice. `spent`
and `promotions` are history.

### HttpStream and IcyParser

A step is one line of headers, one call of `write_cb` or one turn of the loop in
`icy_feed`; `Worker` is the thread, `Stop` and `Abort` come from outside at any time.
A body is a sequence of bytes that say what they are (station audio, a metadata
block, a redirect's page, an error page), and libcurl delivers it in any pieces
(`Deliver`), the last one cut anywhere. The server redirects, refuses, promises a block
size or does not, promises a bad one first, and breaks off where it likes (`Answers`,
`Follow`, `TransferEnds`). `Verdict` is the order of tests at the end of `worker`.
The key `StreamTitle='` and the terminator are one byte each, a metadata unit is
`UNIT` bytes instead of 16. `StationOnly` is stated byte by byte: `ToHear` is the set of
places in the response that a listener should hear, `HeardBy` counts them, and the ring
holds at each count the byte of that place and nothing behind. `TitlesAreChanges` is
stated the same way, from the response alone: a block that has been read to its end is
news (`News`) if it has a title and that is not the title of the last block before it that
has one, and what `on_title` has heard is one title (`TitleAt`) for each such block, in
their order.

### HlsSegment and HttpGet

The buffer, its two flags, the key cache and the stream type outlive a call of
`play_segment`; everything else is set by it. `SegWrite` is one call of `seg_write_cb`,
and a download can end in the middle, at the size limit, without memory or by a stop,
which leaves the buffer as it was. A piece carries the segment, its number and the key
it is encrypted with; decrypting with any other key makes noise, which the padding
check refuses or, by chance, lets pass. `HttpGet` fetches keys: a status line starts
the document over, and a server answers with the key, part of it, or something
longer. A server that answers with another 16 bytes is left out (`KeysAssumption`): the
code looks at a key's length only, and neither it nor anyone else could tell.
`http_get.c:117` and `http_stream.c` both say that libcurl hands over the bodies of
redirects, and the models deliver them there; the segment download has no header
callback (`hls.c:796`) and relies on not being given them, so `HlsSegment` does not.

### TsDemux and AdtsScan

A unit stands for the bytes the code looks at together, so a packet is `PKT` units and
a frame header two. `TsDemux` sees broadcasts in which up to two packets are lost,
repeated, scrambled, flagged as damaged, preceded by junk or by something with a
sync byte in it, in chunks of one unit or of twelve; `AdtsScan` sees every order of
three items (frames, a frame with a header inside, tags that tell their length,
too long ones, lying ones, junk) in pieces of one, five or sixteen. Which streams may
arrive is an assumption (`StreamsAssumption`), because the scanner looks one header ahead
and no further (`adts_scan.c:118-129`) and a locked one believes any header where it stands:
bytes inside a frame that read as a header are there, but lead to no other header
(`OnAirRight`), and neither a frame nor a tag of the length it tells ends right in front of
such bytes. A tag that lies about its length may end anywhere if it says that
it is longer than the buffer, for there the code drops its lock (`adts_scan.c:205-209`);
one that claims less keeps it (`adts_scan.c:97-113`), so right behind the end it claims
no false header may come before a true one. Any order and cut of items within this is
covered, truncated last frames, nonsense tags and bad headers included. Units carry where they come
from, and the properties look at that only: the code's operators look at what a byte
would show. In `TsDemux`, `AudioIsPlayable` compares what comes out with the packets that
arrived without a gap; in `AdtsScan`, `FramesAreWhole` asks for frames from their first
to their last unit wherever the scanner is entitled to know.

### M3u8

The text is produced line by line, one action per tag, and the state is
`m3u8_parse`'s. `PublishedAsServed` compares the result with what the lines say when
read as RFC 8216 reads them: the number of each segment, its key, its break, the lowest
variant. Breaks are compared from two sides (`BreaksTagged`): one that lies right before
its segment is marked, and a segment is marked only if a break lies between it and the
segment before. Between the two are the addresses that are dropped (section 6). The paths on
which memory runs out (`m3u8.c:366-368`, `413-416`, `436-441`) are left out. A value that
is absent or out of range is `None`; zero is a number like any other.

### Browser

A frame is `FrameStarts`, which picks the buttons pressed, and a handler per button in
the order of `main`. A request blocks the loop, one step per mirror tried. Memory may
run out in every list, the favourites file may not be read or not be written, the
keyboard may be closed without a query. `WithUrl` is the loop of `build_result` that
drops rows without an address.

## 3. The runs

| run | question | bounds | distinct states |
|---|---|---|---|
| `ringbuf` | Is the ring a FIFO that answers as one, does a timed read keep its time however the wall clock is set, and does everybody waiting get out? | 3 bytes, calls of up to 4, 6 bytes between resets; timeout 2, clock set forward by 1 and back by 1 | 262,113 |
| `player` | Every interleaving of stops, plays, hops, ends, late callbacks and reapers | 3 addresses (symmetric), cap 1, one hop, 3 generations, 1 leak | 1,310,371 |
| `player_live` | Do calls return, do reapers finish, do ended sources go? | 2 addresses, one generation from the UI, one hop | 79,824 |
| `save` | What survives where rename refuses, and where it replaces? | 4 saves; 1 failing operation and 1 power cut, or 3 power cuts | 1,972 |
| `save_window` | Is the file always there on the Vita? (no) | 2 saves, nothing failing | |
| `updater` | Is every update promoted once, only as staged, and does START get out? | 2 installs, 1 power cut, 1 newer release | 381,693 |
| `updater_limbo` | Is a ready update always launched? (no) | 1 install, no power cut | |
| `hls` | Breaks, replays, results, progress and stop against a sound but late server and an erratic one | 3 segments, window 2, 1 tagged | 525,978 |
| `hls_reload_fails` | Do failed reloads cause a replay? (yes) | never late, reloads may fail | |
| `hls_repeated_reset` | Is a tag honoured once? (no) | never late, one tagged segment | |
| `http_stream` | Is it the station's audio, and does the result say what happened? | block size 2, 4 blocks, one redirect | 518,682 |
| `units` | Five sequential components, each over its inputs | see section 2 and below | 1,973,249 |

Why the bounds are enough. *Ring*: a write of 4 into a ring of 3 blocks after a
full chunk, and 6 bytes wrap both indices twice; a third byte makes "full",
"empty" and "partly full across the end" different states. Of the clocks, a
timeout of two units can be cut short in its middle by the forward step and be stretched by
the backward one, in either order and around the re-arm; `MaxTime` is assumed to be no less
than the timeout and the backward steps together, so that no wait outlasts the time that is
counted, and the theorem of section 5 has any number of steps of any size. *Player*: three
addresses let a station hop while an earlier station's connection is still with
its reaper and a third is installed; with two hops more or a higher cap the same
steps only repeat, and the theorems of section 5 remove the bound. A generation is
consumed by each play, stop and hop, so three allow a play, its hop and another
call on top. *Files*: four saves give each of `path`, `tmp`, `bak` an older
neighbour; the fault and the cut can fall on any operation of any of them.
*Updater*: a second install is what a stale token or a leftover package needs; one power
cut may fall on any of its operations, and the helper may be opened without limit.
Two releases are enough for "available" and "up to date"; a package of a third, which no
install staged, is what the user may leave in the package directory.
*HLS*: the limits of the code (5 failed segments, 5 failed reloads, 2 stale ones)
are lowered to 1 or 2, which keeps "one below" and "at" the limit apart; a window of
two over three segments is the least in which a tag can be stepped over, slide out
unseen, or be re-listed. `MaxLag` of the sound server is the code's own tolerance:
lateness beyond it does make the worker replay, which `hls.c:643-659` accepts.
*HTTP stream*: a block size of 2 puts a block in the middle of a body, behind a piece that
ends inside it, and behind one that ends on it; the four blocks hold a title, the same
again, one that is too long in the middle of a character, and none.
*Units*: a packet of 3 units has a header, a payload and a place inside it where a false
sync byte can sit, and 16 packets hold both tables twice, one of them in two packets,
and two PES, the second with two video packets inside, so that a gap of another PID can fall
into an open PES; two faults at any distance include a loss that the counter cannot see. The
ADTS buffer of 8 units holds two frames and less than the long tag; a piece of sixteen is
longer than the buffer, so that it is filled more than once in a call. Six lines of a
playlist are enough for two segments with a key, a break and a number between them.
Three keys in a cache of two use both slots again; a segment of 3 pieces is beyond the
limit of 2. Two stations, three chips and three mirrors leave room for a favourite that is
in every list, an answer with a row dropped, one without rows, and a mirror in the
middle that answers.

## 4. Fairness

* `RingBuf!Fairness`: a thread that can run runs, time passes during a timed read, and a
  wait whose delay is over ends. No caller is ever obliged to call, close or abort, and
  nobody to set a clock.
* `Player!Fairness`: the UI thread inside a call and the decode thread run. A
  worker is only obliged to end its transfer once it has been told to stop
  (`ToldToStop`): then curl's progress callback returns non-zero
  (`http_stream.c:194-200`), ring writes fail, and a DNS lookup or a connect has a
  timeout (`player.c:698-701` explains why the UI does not wait for that). A
  healthy transfer may run for ever.
* `HlsWorker!FairSpec`: the worker itself runs. Its downloads have low-speed
  and connect limits, its naps are bounded, and a blocked ring write ends when the
  reader drains the ring or aborts it, which is `RingBuf`'s `WaitersReleased`.
  Nothing obliges the server or the user.

* `Updater!Fairness`: `main()` and the helper run, and so does the worker while it does
  not wait for the network. A transfer is only obliged to end once `s_abort` is up
  (`TransferCancelled`), which curl's progress callback looks at (`updater.c:242-272`).

`SafeSave`, `HttpStream` and the units have no liveness property.

## 5. What is proved

For every value of the constants, by TLAPS. Each module states its inductive invariant
as a conjunction of named parts, proves that every action keeps each part, and takes the
properties of the runs from it.

* `RingBufProofs`, for any capacity, stream and chunk sizes. `IInv` is `RingSound` with
  `InCall`: what a caller in the middle of a chunked write or a timed read still has to
  do, without which neither the wakeups nor the end of the stream are inductive, and
  `TimeKept` for the clocks. From it `RingStaysSound` and `TimedReadsKeepTime`. That a read
  does not spin is not inductive by itself: a deadline that has come too near is an early
  expiry to come, long before it happens. `TimeKept` says that whatever of the deadline, the
  delay or an expired wait falls short of the caller's time (`Short`) is owed to a forward
  step that no early expiry has used up, and that a deadline beyond it is no further beyond
  than the clock was set back. `RingImplementsFifo` is the step simulation of
  `ByteFifo`: a critical section of the ring is a step of the queue or changes nothing
  the queue shows, its answers included. The lemmas under it are about reading the array around its end.
* `PlayerProofs`. The assumptions are those of `Player`: a finite set of
  addresses, natural limits. The inductive invariant is
  `IInv == TypeOk /\ Ownership /\ Status /\ Counted /\ Room /\ Facing`. `OneOwner` alone is not
  inductive: whether a step of the UI thread keeps it depends on where the decode
  thread is. `UiPhases` and `DecodePhases` say which thread may hold which handle at
  which program point, `ConnPhases` ties a connection's memory to its worker and
  reaper, `Status` ties the status line to the thread behind it, `Counted` equates
  `g_reapers` with the set of unfinished reapers, `Room` bounds that set by the cap
  plus the hops used. From it: `ExactlyOneOwner`, `NeverUsedAfterFree`,
  `OnlyCurrentCallbacks`, `StationIsAlive`, `SoundIsShown`, `ReapersCounted`,
  `ShutdownLeavesNothing`, and the action property `ErrorsStick`. The bounds
  `MaxGen` and `MaxLeaks` are arbitrary naturals in the proof.
  `PlayerImplementsSession` is the step simulation of `Session`. It needs one part more,
  `Facing`: which call the UI thread is in at which place (`CallPhases`), that between the
  new generation of a stop and the next connection no connection is of the current
  one (`NoneCurrent`, or the late headers of an old one would turn the new
  "connecting" into "buffering"), and that a busy status has a station or a play about to
  open one (`Manned`). `UiRefines`, `DecodeRefines`, `WorkerRefines` and `ReaperRefines`
  name, thread by thread, the step of the session that each action is.
* `SafeSaveProofs`. `FilesAreWhole` and `SavesAreDurable` hold for any number of
  saves, faults and cuts on both kinds of card, from the invariant `Sound` (what each
  stage of a save knows about `tmp` and `path`). `OldListKept` needs no bound on the
  faults either: a save that reports failure leaves the old list under the file's name,
  or in `.bak` with nothing under that name (`Keeping` says where the old list is at each
  stage). That it is under the file's own name, `SavesStaySound`, needs
  `MaxFaults <= 1`: when the second rename fails and the one that puts the old file back
  fails too, it stays in `.bak`. `PowerCutsLoseNothing` needs `MaxFaults = 0`: with
  failing directory operations every copy can be lost, see below.
  `ReplacingRenameLoadsSaved` also needs `RenameReplaces`, for the reason the run
  `save_window` shows. `MCSafeSaveProofs` carries the last one over to the specification
  of the run `save`, which picks one of two cards (`ReplacingRenameStaysSafe`).
* `UpdaterProofs`, for any number of installs, releases and power cuts. `OneShot` is not
  inductive, since it does not say why the token on the card is unused. `Phases` says
  which of the three processes can run together, `Staged` what the staging directory,
  the package, the token and the pending tag hold at each step of the worker, and
  `Spending` that a token on the card was never used and that the helper promotes only
  after it is gone. From these: `PromotedOnce`, `PromotedAsAuthorised`, `FilesAgree`.
* `HlsWorkerProofs`, for any limits, windows and tags. `WorkerStaysSound` and
  `BreaksAreReset` hold against every server, the erratic one included; the part `Marked`
  of the invariant says that a break not yet met by a reset has `pending_disc` up or a
  fresh demuxer. `NothingReplayed` needs `MaxLag <= MAX_STALE_RELOADS` (a feed later than
  the code tolerates is dragged back on purpose) and a server whose loads do not fail, which
  is what the run `hls_reload_fails` is about; its invariant `InStep` bounds
  `stale_reloads` by the loads the server really was late for.
* `HttpStreamProofs`, for any block size, bodies and redirects, with the ICY parser
  inside. The theorems are `StreamTypes`, `StreamIsAudio`, `VerdictIsHonest` and
  `TitlesStayChanges`. That the
  ring holds the station's audio is inductive only together with where the parser is:
  `PlacedOk` ties its state and counters to the place in the body that `write_cb` has
  reached, `HeadOk` the header fields to the response whose lines were read, `RingOk`
  and `HeardOk` the ring to the count of audio before that place, and `EndedOk` and
  `ToldOk` the result to the way the transfer ended. `TitlesOk` adds what the parser
  remembers of titles: `meta` is the part of the current block that has been read, `last_title`
  the title of the last block that has one, and `titles` has one entry for each block of
  `News`. The step that ends a block is the hard one: `OneEnd` says that it adds that
  block to the blocks read and no other, `TitleOfBlock` that what `icy_extract_title` finds
  in the collected pieces is what the block says, and `NewsMore` that the earlier blocks are
  news or not as before.
* `UnitsProofs`, for the bench of `MCUnits` with any inputs. `Browser`: `MirrorsAskedOnce`
  and `ScreenStaysTrue` from `BrowserInv`, whose parts `Stars` and `FavsKept` relate the three
  lists to the favourites and these to the file. `HlsSegment` and `HttpGet`:
  `SegmentsAreServed` from `SegInv`, whose parts say what is in the buffer at each stage
  (`Playing`), that every cached key is that of its address (`KeysOk`), and what a key's
  document holds while it is fetched (`Getting`). `M3u8`: `PlaylistsAreRead` from
  `M3u8Inv`, which says that the parser's registers in front of a line (`next_seq`,
  `seen_segment_uri`, `have_streaminf`, `key`) are functions of the text before it, as
  `PublishedAsServed` reads it; `BreakInv` does the
  same for `pending_disc` and the breaks of the segments handed over; `CheapestPicked` is
  about the recursion of `m3u8_pick_variant`. `AdtsScan`: `ScannerNeverFails`, the claim of `adts_scan.c:230` that
  a full buffer can always decide, from `ScanInv`: whenever input is left behind the drained
  buffer it was full (`n0 = SCAN_CAP`), and no frame with the header behind it is longer than
  that. `FramesStayWhole` is the rest of `FramesAreWhole`, from `PlaceInv`: the buffer is
  a stretch of what was fed (`Window`), and `Cursor` is the place in the stream that is
  judged next, behind the tag that is being skipped if there is one; what was emitted
  were frames, in order, all before it (`Ascending`), and no frame of `Sure` before it
  was missed (`Done`); it never stands inside such a frame, a frame that follows one is
  met with the lock on, and a scanner that is locked stands where it is in sync
  (`Aligned`). `UnitsKeepTheirTypes` is `UnitsTypeOk` for all five: `TsInv` bounds the buffer and the
  junk of `TsDemux` against what a turn of its loop wants, `SegSizes` the segment and the key's
  document with its redirects, and `M3u8Types` the lists by the lines read.

The assumptions are those the modules declare: types and finiteness of their
constants, limits that are at least one, and the ones on servers and streams named in
section 2 (`KeysAssumption`, `StreamsAssumption`). TLC
evaluates them on every run. `RingSound`, `SharedFilesSound` and `WorkerSound` contain
their modules' type invariants, which are thereby proved too.

`ReapersCounted` (never more reapers than the cap and the hops used), `ErrorsStick` (only
a stop takes an error off the screen), `OldListKept` and `ReplacingRenameLoadsSaved` are
stated by no run: the first follows the counter, the run `player` checks the second as
part of the session, the third covers more faults than the run `save` has, and that run
checks the fourth together with the presence of the file.

Only model-checked:

* liveness of every module (`WaitersReleased`, `CallsReturn`, `ReapedIsFreed`,
  `EndedSourceRetired`, `NeverQuiet`, `StopEndsIt`, `ShutdownReturns`): liveness under
  fairness is outside what TLAPS proves here;
* `AudioIsPlayable` of `TsDemux`: what has to come out is a fold over the sequence of
  packets that arrived, and what the code holds is a fold over their payloads. To relate the
  two is an induction over the length of that sequence, and the provers cannot
  instantiate the library's induction theorems. Where a recursion could be unrolled by
  hand (`WithUrl` and `best` in `UnitsProofs`), the proof goes by the least index at
  which the claim would fail; where a fold could be replaced by a set of places
  (`News` in `HttpStream`, `ToHear` before it), the property is stated so. The packets of
  a PES are not a set of places: whether one counts depends on the one before it.

## 6. Where the code and its words differ

* `save_window`. `settings.c:73-75` and `favourites.c:94-97` say that the old file
  steps aside "so there is no window in which the settings are simply absent". On the
  Vita there is one: between `rename(path, bak)` and `rename(tmp, path)` no file has
  the name the loader opens, and the loader looks at no other. Nothing is lost
  (`SavedSomewhere`), but a cut there starts with nothing loaded, and the next save
  removes the `.bak`.
* `updater_limbo`. `updater.h:15` says of `UPD_READY` that the "main loop must call
  updater_launch()". START while the package is being staged leaves the main loop;
  `updater_shutdown` raises `s_abort`, which nothing looks at after unpacking, and joins a
  worker that goes on to `UPD_READY`. The application exits with a staged, authorised
  package that no later start mentions.
* `hls_reload_fails`. `stale_reloads` counts reloads that failed as reloads that
  offered nothing new (`hls.c:31`, `656-662`, `697-710`), so three network errors in a
  row on a healthy feed send the worker back to the live edge of the old playlist,
  and it plays again what it has played.
* `hls_repeated_reset`. `pending_disc` is described as "a discontinuity that belonged
  to a segment we never played" (`hls.c:459-460`), but `play_window` sets it for every
  tagged segment below `next_seq` (`hls.c:532`), the played ones included: the demuxer
  is reset after every reload for as long as that segment is listed.

Other behaviour that the models show, worth knowing:

* *Ring.* `ringbuf.c:111-113` claims "immunity to the long stall" and that "the remaining
  exposure is a forward step". A backward step between the `clock_gettime` of
  `wall_deadline_in` and the library's conversion makes the delay longer by that step, as
  does one during a wait that a wake-up without data sends back into
  `pthread_cond_timedwait` with the old deadline. The read then sleeps past `timeout_ms`
  unless data, a close or an abort wakes it; `SleepBounded`, a part of
  `TimedReadKeepsTime`, says by how much at most, and fails without its `+ back`.
* *Files.* With two failing directory operations, or one and two cuts, `SafeSave` can lose
  every copy. `main.c:421` ignores a failed `fav_load`: the list is empty, and a later
  toggle overwrites the good file (`unsaved` in `Browser`).
* *HLS.* A live playlist frozen without `EXT-X-ENDLIST` is replayed from its live edge for
  ever. A key stays cached under its address for the life of the station, so one that is
  replaced under the same address makes every segment after it fail. A page answered
  with status 200 in place of a segment is taken for ADTS, yields no audio, counts as
  progress, and as the first segment fixes the codec shown as AAC. A segment that fails
  does not reset a demuxer that was fed before it. A segment whose address does not
  resolve takes its discontinuity with it (`m3u8.c:402`), and `EXT-X-MEDIA-SEQUENCE` after
  the first segment is ignored.
* *HTTP.* A redirect whose body came and whose target then fails is reported as
  "HTTP 302". A bad `icy-metaint` followed by a good one keeps its notice.
* *Demuxers.* A counter gap on any PID with payload ends the PES that is open
  (`ts_demux.c:282`), also when the PID is not the audio's, which stays silent until its next
  PES. A loss of exactly the counter's modulus is not seen. A damaged packet right behind a candidate
  delays the lock. An ID3 tag cut by a chunk or longer than the buffer drops the ADTS
  lock, one that is whole in the buffer keeps it, also if it lies about its length; while
  locked, a false header right where a frame or a tag ends is believed.
* *Browser.* Buttons pressed in the same frame as a chip act on the list that chip
  brought. `rb_register_click` is called by nobody.

## 7. Not modelled, and the plan

Done, in this order: `ByteFifo` and `RingBuf`, `Player` with its proofs, `SafeSave`
with its proofs, `HlsWorker`, `Updater`, `IcyParser` and `HttpStream`, `TsDemux`,
`AdtsScan`, `M3u8`, `Browser`, `HttpGet` and `HlsSegment`; then the proofs about `RingBuf`,
`Updater`, `HlsWorker`, `HttpStream`, `Browser`, `HlsSegment` and `M3u8`, and the types of
all five on the bench; then the titles of `HttpStream`, the
frames of `AdtsScan`, and `Session` with its refinement by `Player`. Next:

1. `AudioIsPlayable`: a statement of what can be played that is a set of places, as those
   of the titles and of the ICY audio are.
2. `HlsWorker` with `HlsSegment` in the place of its segment steps.

Left out for good: the ciphers and the hash (published test vectors say more than a
small instance), JSON and XML text parsing, zip reading, drawing, the keyboard dialog,
and the wrappers of codec, audio and network libraries, which the models meet as
nondeterministic answers. `playlist.c`, `sniff.c`, `version.c` and `url_util.c` are
pure functions of one short text with tests of their own; `Player` takes the verdicts of the
first two as choices.
