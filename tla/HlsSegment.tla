----------------------------- MODULE HlsSegment -----------------------------
(***************************************************************************)
(* src/src/hls.c: play_segment, of which HlsWorker knows only the outcome. *)
(* A segment is downloaded into a buffer that all segments share, its key  *)
(* comes out of a small cache or from http_get, it is decrypted, told from *)
(* its bytes to be a transport stream or not, and demuxed.  Any earlier    *)
(* segment may have been left at any point.                                *)
(*                                                                         *)
(* A segment is a record [of, parts, ts, codec, key]: key is NotEncrypted, *)
(* an address, or Unusable for what m3u8.c marks as encrypted without one. *)
(* The buffer holds pieces of HttpGet; as is the key a piece is encrypted  *)
(* with, "plain", or "noise" for what the wrong key makes of it.           *)
(***************************************************************************)
EXTENDS HttpGet

CONSTANTS SegmentsServed, SEGMENT_MAX, KEY_BYTES, KEY_CAP, KEY_CACHE_SLOTS

NotEncrypted == "none"
Unusable     == "unusable"

ASSUME SegmentAssumption ==
    /\ KEY_CACHE_SLOTS \in Nat \ {0}
    /\ {SEGMENT_MAX, KEY_BYTES, KEY_CAP} \subseteq Nat
    /\ SegmentsServed \subseteq
          [of : STRING, parts : Nat, ts : BOOLEAN, codec : STRING, key : STRING]

VARIABLES
    segpc,          \* "idle", "fetch", "fetched", "key", "keyfetch", "decrypt", "feed",
                    \* "announce", "over"
    seg,            \* the segment play_segment was called for
    s_stop,
    s_seg,          \* the SegBuf: [data, too_large, oom]
    seg_status,
    segSent,        \* what the server has sent for this segment
    segLeft,        \* what it has still to send
    broken,         \* rc # CURLE_OK
    keys, key_next, seg_key,
    ts,             \* "closed", or what ts_demux_stream_type tells
    ready           \* the codec announced, or "none"

transfer == <<s_seg, seg_status, segSent, segLeft, broken>>
cache    == <<keys, key_next, seg_key>>
segVars  == <<segpc, seg, s_stop, transfer, cache, ts, ready, getVars>>

Parts(of, n, as) == [i \in 1..n |-> [of |-> of, n |-> i, as |-> as]]

\* What is on the server under a segment's address, and under a seg_key's.
BodyOf(s)   == Parts(s.of, s.parts, IF s.key = NotEncrypted THEN "plain" ELSE s.key)
WholeKey(k) == Parts(k, KEY_BYTES, "plain")

Addresses == {s.key : s \in SegmentsServed}
Piece     == [of : {"page"} \cup {s.of : s \in SegmentsServed} \cup Addresses,
              n : Nat, as : {"plain", "noise"} \cup Addresses]

\* Whatever is as long as a key is taken for one, so what is served under a key's
\* address and is that long has to be that key.
ASSUME KeysAssumption ==
    \A s \in SegmentsServed : s.key \notin {NotEncrypted, Unusable} =>
        \A d \in Documents(s.key) :
            d \in Seq(Piece) /\ (Len(d) = KEY_BYTES => d = WholeKey(s.key))

NoSegment == [of |-> "", parts |-> 0, ts |-> FALSE, codec |-> "", key |-> NotEncrypted]

Empty == [data |-> <<>>, too_large |-> FALSE, oom |-> FALSE]

SegStart ==
    /\ segpc = "idle" /\ seg = NoSegment
    /\ s_stop = FALSE /\ s_seg = Empty /\ seg_status = 0
    /\ segSent = <<>> /\ segLeft = <<>> /\ broken = FALSE
    /\ keys = [i \in 1..KEY_CACHE_SLOTS |-> [uri |-> NotEncrypted, key |-> <<>>]]
    /\ key_next = 1 /\ seg_key = <<>>
    /\ ts = "closed" /\ ready = "none"
    /\ get = NoGet /\ getSent = <<>> /\ getLeft = <<>>

\* hls_stream_stop, at any moment.
SegStop ==
    /\ ~s_stop /\ s_stop' = TRUE
    /\ UNCHANGED <<segpc, seg, transfer, cache, ts, ready, getVars>>

\* play_segment returns 0 or -1, the next call may come; after -2 none does.
SegReturns(rc) ==
    /\ segpc' = IF rc = -2 THEN "over" ELSE "idle"
    /\ seg' = NoSegment /\ seg_key' = <<>>
    /\ segSent' = <<>> /\ segLeft' = <<>> /\ broken' = FALSE
    /\ UNCHANGED s_seg

Skipped == SegReturns(IF s_stop THEN -2 ELSE -1)

-----------------------------------------------------------------------------
(* fetch_segment and its callback                                          *)

\* Faulty variant: the buffer's flags are cleared, its bytes are not.
Appending(b) == [b EXCEPT !.too_large = FALSE, !.oom = FALSE]

Emptied(b) == Empty

\* A discontinuity resets the demuxers; a segment without a usable key is refused;
\* any other is asked for.
PlaySegment ==
    /\ segpc = "idle" /\ ~s_stop
    /\ ts' \in {ts, IF ts = "closed" THEN ts ELSE ""}
    /\ \E s \in SegmentsServed :
         IF s.key = Unusable THEN UNCHANGED <<segpc, seg, transfer>>
         ELSE /\ segpc' = "fetch" /\ seg' = s
              /\ s_seg' = Emptied(s_seg)
              /\ \/ seg_status' = 200 /\ segLeft' \in {BodyOf(s), Page, <<>>}
                 \/ seg_status' = 404 /\ segLeft' \in {Page, <<>>}
              /\ UNCHANGED <<segSent, broken>>
    /\ UNCHANGED <<s_stop, cache, ready, getVars>>

Transferring == segpc = "fetch" /\ UNCHANGED <<seg, seg_status, cache, ts, ready, getVars>>

\* seg_write_cb is handed n pieces.
SegWrite ==
    /\ Transferring
    /\ \E n \in DOMAIN segLeft :
         /\ segSent' = segSent \o SubSeq(segLeft, 1, n)
         /\ segLeft' = SubSeq(segLeft, n + 1, Len(segLeft))
         /\ IF s_stop \/ Len(s_seg.data) + n > SEGMENT_MAX
            THEN /\ s_seg' = [s_seg EXCEPT !.too_large = ~s_stop]
                 /\ broken' = TRUE /\ segpc' = "fetched"
            ELSE \/ /\ s_seg' = [s_seg EXCEPT !.data = @ \o SubSeq(segLeft, 1, n)]
                    /\ UNCHANGED <<segpc, broken>>
                 \/ /\ s_seg' = [s_seg EXCEPT !.oom = TRUE]
                    /\ broken' = TRUE /\ segpc' = "fetched"
    /\ UNCHANGED s_stop

\* The transfer ends: complete, broken off (a stop breaks it off too), or closed
\* early by a server that had not told the length.
SegEnds ==
    /\ Transferring
    /\ segpc' = "fetched"
    /\ broken' \in BOOLEAN
    /\ segLeft' = <<>>
    /\ UNCHANGED <<s_stop, s_seg, segSent>>

BodyUsable == ~s_seg.too_large /\ ~s_seg.oom /\ ~broken /\ seg_status \in 200..299
          /\ s_seg.data # <<>>

Fetched ==
    /\ segpc = "fetched"
    /\ IF s_stop \/ ~BodyUsable THEN Skipped
       ELSE /\ segpc' = IF seg.key = NotEncrypted THEN "feed" ELSE "key"
            /\ UNCHANGED <<seg, s_seg, segSent, segLeft, broken, seg_key>>
    /\ UNCHANGED <<s_stop, seg_status, keys, key_next, ts, ready, getVars>>

-----------------------------------------------------------------------------
(* segment_key and the cache                                               *)

Hits(uri) == {i \in DOMAIN keys : keys[i].uri = uri}

KeyCached ==
    /\ segpc = "key" /\ Hits(seg.key) # {}
    /\ \E i \in Hits(seg.key) :
         (\A j \in Hits(seg.key) : i <= j) /\ seg_key' = keys[i].key
    /\ segpc' = "decrypt"
    /\ UNCHANGED <<seg, s_stop, transfer, keys, key_next, ts, ready, getVars>>

KeyAsked ==
    /\ segpc = "key" /\ Hits(seg.key) = {}
    /\ GetStart(seg.key, KEY_CAP)
    /\ segpc' = "keyfetch"
    /\ UNCHANGED <<seg, s_stop, transfer, cache, ts, ready, getSent, getLeft>>

KeyFetching ==
    /\ segpc = "keyfetch" /\ GetStep
    /\ UNCHANGED <<segpc, seg, s_stop, transfer, cache, ts, ready>>

\* key_cache_put takes the slots in turn; without memory for the address the key
\* is used and not kept.
KeyCachePut ==
    \/ /\ keys' = [keys EXCEPT ![key_next] = [uri |-> seg.key, key |-> get.body]]
       /\ key_next' = (key_next % KEY_CACHE_SLOTS) + 1
    \/ UNCHANGED <<keys, key_next>>

\* The key of a segment is what its address answered, if that is as long as a key.
KeyFetched ==
    /\ segpc = "keyfetch" /\ get.at = "done"
    /\ IF get.ok /\ Len(get.body) = KEY_BYTES
       THEN /\ seg_key' = get.body /\ KeyCachePut /\ segpc' = "decrypt"
            /\ UNCHANGED <<seg, s_seg, segSent, segLeft, broken>>
       ELSE SegReturns(-1) /\ UNCHANGED <<keys, key_next>>
    /\ GetFree
    /\ UNCHANGED <<s_stop, seg_status, ts, ready>>

\* hls_decrypt_segment: what is whole and under this key comes out; anything else
\* is refused by its length or its padding, or passes by chance.
Decrypted(data) ==
    [i \in DOMAIN data |->
        [data[i] EXCEPT !.as = IF data[i].as # "plain" /\ seg_key = WholeKey(data[i].as)
                               THEN "plain" ELSE "noise"]]

Decrypt ==
    /\ segpc = "decrypt"
    /\ \/ /\ s_seg' = [s_seg EXCEPT !.data = Decrypted(@)]
          /\ segpc' = "feed"
          /\ UNCHANGED <<seg, segSent, segLeft, broken, seg_key>>
       \/ /\ s_seg.data # BodyOf(seg) \/ seg_key # WholeKey(seg.key)
          /\ SegReturns(-1)
    /\ UNCHANGED <<s_stop, seg_status, keys, key_next, ts, ready, getVars>>

-----------------------------------------------------------------------------
(* feed_segment and announce_ready                                         *)

\* A piece is longer than three packets; pages and noise have no sync bytes.
looks_like_ts ==
    /\ seg.ts /\ s_seg.data[1].of = seg.of
    /\ s_seg.data[1].n = 1 /\ s_seg.data[1].as = "plain"

\* No memory for a demuxer, a stop or a dead ring ends the stream; a segment that
\* does not demux is skipped, and its demuxer has reset itself.
FeedFails ==
    /\ segpc = "feed"
    /\ \/ SegReturns(-2) /\ ts' = ts
       \/ looks_like_ts /\ SegReturns(-1) /\ ts' = ""
    /\ UNCHANGED <<s_stop, seg_status, keys, key_next, ready, getVars>>

\* A transport stream tells its codec once a PMT has been seen; adts_scan_feed
\* takes anything.
FeedSegment ==
    /\ segpc = "feed"
    /\ ts' \in IF looks_like_ts THEN {seg.codec, IF ts = "closed" THEN "" ELSE ts} ELSE {ts}
    /\ segpc' = "announce"
    /\ UNCHANGED <<seg, s_stop, transfer, cache, ready, getVars>>

announce_ready ==
    /\ segpc = "announce"
    /\ ready' = IF ready # "none" THEN ready
                ELSE IF ~looks_like_ts THEN "aac"
                ELSE IF ts = "" THEN "none" ELSE ts
    /\ SegReturns(0)
    /\ UNCHANGED <<s_stop, seg_status, keys, key_next, ts, getVars>>

SegNext ==
    \/ PlaySegment \/ SegStop
    \/ SegWrite \/ SegEnds \/ Fetched
    \/ KeyCached \/ KeyAsked \/ KeyFetching \/ KeyFetched \/ Decrypt
    \/ FeedFails \/ FeedSegment \/ announce_ready

SegOver == segpc = "over" \/ (segpc = "idle" /\ s_stop)

-----------------------------------------------------------------------------
(* Properties                                                              *)

SegTypeOk ==
    /\ Len(s_seg.data) <= SEGMENT_MAX /\ key_next \in 1..KEY_CACHE_SLOTS
    /\ seg \in SegmentsServed \cup {NoSegment} /\ {s_stop, broken} \subseteq BOOLEAN
    /\ GetTypeOk

\* However the segments before it ended, what is demuxed is what the server sent
\* for this segment, all of it, in order, and of a good answer; what was encrypted
\* has been decrypted with the key of its own address, and nothing else has
\* (hls.c:174-198, 224-270, 355-387, 472-501; http_get.c:105-126).
SegmentAsServed ==
    segpc = "feed" =>
        /\ seg_status \in 200..299 /\ seg.key # Unusable
        /\ Len(s_seg.data) = Len(segSent)
        /\ \A i \in DOMAIN segSent :
              LET was == segSent[i]  is == s_seg.data[i]
              IN  /\ is.of = was.of /\ is.n = was.n
                  /\ was.as # "plain" => is.as = "plain"
                  /\ seg.key = NotEncrypted => is.as = was.as

=============================================================================
