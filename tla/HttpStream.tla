----------------------------- MODULE HttpStream -----------------------------
(***************************************************************************)
(* src/src/http_stream.c: the worker of a plain HTTP station, around the   *)
(* IcyParser it owns.  libcurl calls header_cb for every header line and   *)
(* write_cb for every piece of every body, those of the responses it is    *)
(* redirected by included; xferinfo_cb, which it calls about once a second,*)
(* ends the transfer after a stop.  What libcurl does is modelled from     *)
(* this use of it.  The ring buffer is RingBuf: here it is what has been   *)
(* written to it and whether it was aborted.                               *)
(***************************************************************************)
EXTENDS IcyParser, SequencesExt

CONSTANTS METAINT,      \* the block size a server announces
          MAXREDIRS,    \* CURLOPT_MAXREDIRS
          Blocks        \* inputs: the metadata blocks of a station, UNIT bytes each

ASSUME StreamAssumption ==
    /\ METAINT \in Nat \ {0} /\ MAXREDIRS \in Nat
    /\ \A b \in Blocks : b \in Seq(0..CONT) /\ Len(b) = UNIT

VARIABLES
    pc,             \* where the worker is
    \* what libcurl is doing
    hop,            \* redirects followed
    resp,           \* the response being received
    unread,         \* its header lines still to come
    off,            \* bytes of its body delivered
    code,           \* CURLINFO_RESPONSE_CODE
    rc,             \* what curl_easy_perform returns
    \* HttpStream
    stop, metaint, metaint_bad, content_type, got_body, audio_bytes,
    http_status, result, notice,
    \* the ring and the player
    aborted, closed, ring,
    announced       \* the calls of on_headers

head   == <<metaint, metaint_bad, content_type>>
wire   == <<hop, resp, unread, off, code>>
end    == <<rc, result, notice, closed>>
vars   == <<pc, wire, head, end, stop, got_body, audio_bytes, http_status,
            aborted, ring, announced, icyVars>>

-----------------------------------------------------------------------------
(* What a server may answer                                                *)

Audio(k) == [val |-> 1, is |-> "audio", at |-> k]
Other(v) == [val |-> v, is |-> "other", at |-> 0]

\* A length byte and its block.
Block(b) == <<Other(IF b = <<>> THEN 0 ELSE 1)>> \o [k \in DOMAIN b |-> Other(b[k])]

Run(n) == [k \in 1..METAINT |-> Audio(n * METAINT + k)]

Station(a, b) == Run(0) \o Block(a) \o Run(1) \o Block(b) \o Run(2)
Page == <<Other(1)>>

Answers ==
    LET Response(statuses, metas, bodies) ==
            [status : statuses, meta : metas, typed : BOOLEAN,
             follow : {FALSE}, body : bodies]
        Maybe == Blocks \cup {<<>>}
    IN  Response({200}, {"good"}, {Station(a, b) : a \in Maybe, b \in Maybe})
        \cup Response({200}, {"bad"}, {Station(a, <<>>) : a \in Maybe})
        \cup Response({200}, {"none"}, {<<>>, Run(0) \o Run(1)})
        \cup Response({204}, {"none"}, {<<>>})
        \cup Response({404}, {"none", "good"}, {<<>>, Page})
        \cup [status : {302}, meta : {"none", "good", "bad"}, typed : {TRUE},
              follow : BOOLEAN, body : {<<>>, Page}]

NoResponse == [status |-> 0, meta |-> "none", typed |-> FALSE,
               follow |-> FALSE, body |-> <<>>]

Steps == {"start", "nobundle", "wait", "headers", "body", "write", "feed", "performed",
          "close", "finish", "finished"}

Init ==
    /\ pc \in {"start", "nobundle"}   \* s->ca_file is NULL in the second
    /\ hop = 0 /\ resp = NoResponse /\ unread = {} /\ off = 0 /\ code = 0
    /\ rc = "none" /\ stop = FALSE
    /\ metaint = 0 /\ metaint_bad = FALSE /\ content_type = 0 /\ got_body = FALSE
    /\ audio_bytes = 0 /\ http_status = 0 /\ result = "none" /\ notice = FALSE
    /\ aborted = FALSE /\ closed = FALSE /\ ring = <<>> /\ announced = <<>>
    /\ icy = icy_init(0) /\ data = <<>> /\ titles = <<>>

-----------------------------------------------------------------------------
(* The worker starts                                                       *)

\* "no CA bundle configured"
NoBundle ==
    /\ pc = "nobundle"
    /\ result' = "failed" /\ pc' = "close"
    /\ UNCHANGED <<wire, head, rc, notice, closed, stop, got_body, audio_bytes,
                   http_status, aborted, ring, announced, icyVars>>

Perform ==
    /\ pc = "start" /\ pc' = "wait"
    /\ UNCHANGED <<wire, head, end, stop, got_body, audio_bytes, http_status,
                   aborted, ring, announced, icyVars>>

-----------------------------------------------------------------------------
(* header_cb                                                               *)

\* Faulty variant: the body latch is not re-armed by a new response.
LatchKept == got_body' = got_body /\ metaint' = 0 /\ metaint_bad' = FALSE

\* A new status line: "the body latch has to re-arm with it".
Rearm == got_body' = FALSE /\ metaint' = 0 /\ metaint_bad' = FALSE

StatusLine ==
    /\ pc = "wait"
    /\ \E r \in Answers :
        /\ resp' = r /\ code' = r.status
        /\ unread' = (IF r.meta = "none" THEN {} ELSE {"meta"})
                     \cup (IF r.typed THEN {"type"} ELSE {})
    /\ off' = 0 /\ pc' = "headers"
    /\ Rearm /\ content_type' = 0
    /\ UNCHANGED <<hop, end, stop, audio_bytes, http_status, aborted, ring,
                   announced, icyVars>>

\* icy-metaint is a block size, or a value that must not be trusted.
HeaderLine ==
    /\ pc = "headers"
    /\ \E h \in unread :
        /\ unread' = unread \ {h}
        /\ IF h = "type" THEN content_type' = resp.status /\ UNCHANGED <<metaint, metaint_bad>>
           ELSE /\ metaint' = (IF resp.meta = "good" THEN METAINT ELSE 0)
                /\ metaint_bad' = (metaint_bad \/ resp.meta = "bad")
                /\ UNCHANGED content_type
    /\ UNCHANGED <<pc, hop, resp, off, code, end, stop, got_body, audio_bytes,
                   http_status, aborted, ring, announced, icyVars>>

HeadersEnd ==
    /\ pc = "headers" /\ unread = {} /\ pc' = "body"
    /\ UNCHANGED <<wire, head, end, stop, got_body, audio_bytes, http_status,
                   aborted, ring, announced, icyVars>>

-----------------------------------------------------------------------------
(* write_cb                                                                *)

Redirecting(status) == status >= 300 /\ status <= 399

status_is_streamable(status) ==
    status >= 200 /\ status <= 299 /\ status \notin {204, 205}

\* libcurl has the next piece of the body, of any size.
Deliver ==
    /\ pc = "body"
    /\ \E n \in 1..(Len(resp.body) - off) :
        /\ data' = SubSeq(resp.body, off + 1, off + n)
        /\ off' = off + n
    /\ pc' = "write"
    /\ UNCHANGED <<hop, resp, unread, code, head, end, stop, got_body, audio_bytes,
                   http_status, aborted, ring, announced, icy, titles>>

\* write_cb took everything, or less, which is CURLE_WRITE_ERROR.
Took    == pc' = "body" /\ UNCHANGED rc
Refused == pc' = "performed" /\ rc' = "failed"

\* The first piece of a body that ends here: a redirect's is swallowed, an error
\* page's ends the transfer.
Announce(status) == announced' = Append(announced, [type |-> content_type, status |-> status])

FirstPiece ==
    /\ got_body' = TRUE /\ http_status' = code
    /\ IF Redirecting(code) THEN Took /\ data' = <<>> /\ UNCHANGED <<announced, icy>>
       ELSE /\ Announce(code)
            /\ IF status_is_streamable(code)
               THEN pc' = "feed" /\ icy' = icy_init(metaint) /\ UNCHANGED <<rc, data>>
               ELSE Refused /\ data' = <<>> /\ UNCHANGED icy

LaterPiece ==
    /\ IF Redirecting(http_status) THEN Took /\ data' = <<>>
       ELSE IF status_is_streamable(http_status)
       THEN pc' = "feed" /\ UNCHANGED <<rc, data>>
       ELSE Refused /\ data' = <<>>
    /\ UNCHANGED <<got_body, http_status, announced, icy>>

WriteStopped ==
    Refused /\ data' = <<>> /\ UNCHANGED <<got_body, http_status, announced, icy>>

WriteCb ==
    /\ pc = "write"
    /\ \/ stop /\ WriteStopped
       \/ ~stop /\ ~got_body /\ FirstPiece
       \/ ~stop /\ got_body /\ LaterPiece
    /\ UNCHANGED <<wire, head, result, notice, closed, stop, audio_bytes, aborted,
                   ring, titles>>

\* icy_audio_cb: rb_write takes the run, or is aborted with a part of it stored.
FeedAudio ==
    /\ pc = "feed" /\ data # <<>> /\ InAudio
    /\ \/ /\ ~aborted
          /\ ring' = ring \o SubSeq(data, 1, AudioRun)
          /\ audio_bytes' = audio_bytes + AudioRun
          /\ PassAudio /\ UNCHANGED <<pc, rc>>
       \/ /\ aborted
          /\ \E k \in 0..(AudioRun - 1) : ring' = ring \o SubSeq(data, 1, k)
          /\ Refused /\ data' = <<>> /\ UNCHANGED <<audio_bytes, icy, titles>>
    /\ UNCHANGED <<wire, head, result, notice, closed, stop, got_body, http_status,
                   aborted, announced>>

FeedMeta ==
    /\ pc = "feed" /\ data # <<>>
    /\ ReadLen \/ ReadMeta
    /\ UNCHANGED <<pc, wire, head, end, stop, got_body, audio_bytes, http_status,
                   aborted, ring, announced>>

Fed ==
    /\ pc = "feed" /\ data = <<>>
    /\ IF stop THEN Refused ELSE Took
    /\ UNCHANGED <<wire, head, result, notice, closed, stop, got_body, audio_bytes,
                   http_status, aborted, ring, announced, icyVars>>

-----------------------------------------------------------------------------
(* libcurl ends a response, follows it, or ends the transfer               *)

\* The whole body has come and it names another place.
Follow ==
    /\ pc = "body" /\ resp.follow /\ off = Len(resp.body)
    /\ IF hop < MAXREDIRS THEN hop' = hop + 1 /\ pc' = "wait" /\ UNCHANGED rc
       ELSE pc' = "performed" /\ rc' = "failed" /\ UNCHANGED hop
    /\ UNCHANGED <<resp, unread, off, code, head, result, notice, closed, stop,
                   got_body, audio_bytes, http_status, aborted, ring, announced, icyVars>>

\* A station may end, or be cut off, after any byte.
TransferEnds ==
    /\ \/ pc = "body" /\ ~resp.follow /\ rc' = "ok"
       \/ pc = "wait" /\ hop = 0 /\ rc' = "ok"          \* no status line
       \/ pc \in {"wait", "headers", "body"} /\ rc' = "failed"
    /\ pc' = "performed"
    /\ UNCHANGED <<wire, head, result, notice, closed, stop, got_body, audio_bytes,
                   http_status, aborted, ring, announced, icyVars>>

\* xferinfo_cb
Cancelled ==
    /\ pc \in {"wait", "headers", "body"} /\ stop
    /\ pc' = "performed" /\ rc' = "failed"
    /\ UNCHANGED <<wire, head, result, notice, closed, stop, got_body, audio_bytes,
                   http_status, aborted, ring, announced, icyVars>>

-----------------------------------------------------------------------------
(* The end of the worker                                                   *)

\* Faulty variant: whatever libcurl is content with is a clean end.
VerdictOfCurl(status) == IF rc = "ok" /\ status # 0 THEN "clean" ELSE "failed"

\* The status first, "because refusing the body above makes rc CURLE_WRITE_ERROR";
\* then rc, then no response at all, then no audio.
Verdict(status) ==
    IF status > 0 /\ ~status_is_streamable(status) THEN "status"
    ELSE IF rc # "ok" \/ status = 0 \/ audio_bytes = 0 THEN "failed" ELSE "clean"

LastHeaders ==
    IF got_body THEN UNCHANGED <<http_status, announced>>
    ELSE /\ http_status' = code
         /\ IF code > 0 THEN Announce(code) ELSE UNCHANGED announced

Conclude ==
    /\ pc = "performed"
    /\ \/ stop /\ result' = "clean" /\ UNCHANGED <<http_status, announced>>
       \/ ~stop /\ LastHeaders /\ result' = Verdict(http_status')
    /\ notice' = (result' = "clean" /\ metaint_bad)
    /\ pc' = "close"
    /\ UNCHANGED <<wire, head, rc, closed, stop, got_body, audio_bytes, aborted,
                   ring, icyVars>>

CloseRing ==
    /\ pc = "close" /\ closed' = TRUE /\ pc' = "finish"
    /\ UNCHANGED <<wire, head, rc, result, notice, stop, got_body, audio_bytes,
                   http_status, aborted, ring, announced, icyVars>>

Finish ==
    /\ pc = "finish" /\ pc' = "finished"
    /\ UNCHANGED <<wire, head, end, stop, got_body, audio_bytes, http_status,
                   aborted, ring, announced, icyVars>>

-----------------------------------------------------------------------------
(* The player: it aborts the ring at any time, and asks the worker to stop *)

Abort ==
    /\ ~aborted /\ aborted' = TRUE
    /\ UNCHANGED <<pc, wire, head, end, stop, got_body, audio_bytes, http_status,
                   ring, announced, icyVars>>

\* http_stream_stop, up to its join.
Stop ==
    /\ ~stop /\ stop' = TRUE
    /\ UNCHANGED <<pc, wire, head, end, got_body, audio_bytes, http_status,
                   aborted, ring, announced, icyVars>>

Joined == pc = "finished" /\ UNCHANGED vars

Worker ==
    \/ NoBundle \/ Perform \/ StatusLine \/ HeaderLine \/ HeadersEnd
    \/ Deliver \/ WriteCb \/ FeedAudio \/ FeedMeta \/ Fed
    \/ Follow \/ TransferEnds \/ Cancelled \/ Conclude \/ CloseRing \/ Finish

Next == Worker \/ Abort \/ Stop \/ Joined

Spec == Init /\ [][Next]_vars

-----------------------------------------------------------------------------
(* Properties                                                              *)

Statuses == {0, 200, 204, 302, 404}
Bytes == [val : 0..CONT, is : {"audio", "other"}, at : 0..(3 * METAINT)]

TypeOk ==
    /\ pc \in Steps
    /\ hop \in 0..MAXREDIRS /\ resp \in Answers \cup {NoResponse}
    /\ unread \subseteq {"meta", "type"} /\ off \in 0..Len(resp.body)
    /\ {code, content_type, http_status} \subseteq Statuses
    /\ rc \in {"none", "ok", "failed"}
    /\ {stop, metaint_bad, got_body, notice, aborted, closed} \subseteq BOOLEAN
    /\ metaint \in {0, METAINT} /\ audio_bytes \in 0..Len(ring)
    /\ result \in {"none", "clean", "failed", "status"}
    /\ Range(ring) \cup Range(data) \subseteq Bytes
    /\ \A a \in Range(announced) : a.type \in Statuses /\ a.status \in Statuses
    /\ icy.state \in {"audio", "len", "meta"}
    /\ icy.audio_left \in 0..METAINT /\ icy.meta_left \in 0..UNIT
    /\ Len(icy.meta) + icy.meta_left \in {0, UNIT} /\ Len(icy.last_title) <= TITLE_MAX

\* The bytes of a response a listener should hear: the audio of a stream; all of
\* it where the block size was unusable, as the notice says (http_stream.c:115-122).
ToHear ==
    {k \in DOMAIN resp.body :
        /\ status_is_streamable(resp.status)
        /\ resp.meta = "bad" \/ resp.body[k].is = "audio"}

\* How many of them are among the first k.
HeardBy(k) == Cardinality({m \in ToHear : m <= k})

\* The ring holds the audio of the response in its order, without a byte of a
\* metadata block, an error page or a redirect's body, however the network cut it
\* (http_stream.c:86-96, 168-172; icy.c:32-82): while a body is being received all
\* of what has been read of it, afterwards no more than what has come.  on_headers
\* was called once, before, with that response's own headers (http_stream.h:21).
StationOnly ==
    /\ pc \in {"headers", "body", "feed"} => Len(ring) = HeardBy(off - Len(data))
    /\ Len(ring) <= HeardBy(off)
    /\ \A k \in ToHear : HeardBy(k) <= Len(ring) => ring[HeardBy(k)] = resp.body[k]
    /\ ring # <<>> =>
           announced = <<[type |-> IF resp.typed THEN resp.status ELSE 0,
                          status |-> resp.status]>>

\* A stream nobody stopped is a clean end exactly if it ended by itself and gave
\* audio; one whose last answer was not a stream is told by its status
\* (http_stream.c:232-260).
ResultIsHonest ==
    pc = "finished" /\ ~stop =>
        /\ closed
        /\ result = "clean" <=> rc = "ok" /\ ring # <<>>
        /\ result = "status" <=> http_status > 0 /\ ~status_is_streamable(http_status)
        /\ result = "clean" => (notice <=> resp.meta = "bad")

\* Where the blocks end that the parser has read.
BlocksRead ==
    {n \in 1..(off - Len(data)) :
        /\ resp.body[n].is = "other"
        /\ n < Len(resp.body) => resp.body[n + 1].is = "audio"}

\* Where the block that ends at n begins, its length byte left out, and its title.
Begins(n) ==
    CHOOSE m \in 1..n : /\ resp.body[m].is = "audio" \/ m = 1
                       /\ \A k \in (m + 1)..n : resp.body[k].is = "other"
TitleAt(n) ==
    icy_extract_title([k \in 1..(n - Begins(n) - 1) |-> resp.body[Begins(n) + 1 + k].val])

\* The blocks whose title is not that of the last block before that has one.
News ==
    {n \in BlocksRead :
        /\ TitleAt(n) # <<>>
        /\ \A m \in BlocksRead :
               /\ m < n /\ TitleAt(m) # <<>>
               /\ \A k \in BlocksRead : m < k /\ k < n => TitleAt(k) = <<>>
               => TitleAt(m) # TitleAt(n)}

\* How many of them end among the first n bytes.
NewsBy(n) == Cardinality({m \in News : m <= n})

\* on_title hears of a title when it changes and then only, whatever pieces its
\* block came in, and never of half a character (icy.c:22-29, 119-127).
TitlesAreChanges ==
    /\ pc \in {"feed", "body"} /\ got_body /\ resp.meta = "good" /\ status_is_streamable(resp.status) =>
        /\ Len(titles) = Cardinality(News)
        /\ \A n \in News : titles[NewsBy(n)] = TitleAt(n)
    /\ \A t \in Range(titles) :
        \E b \in Blocks : \E i \in DOMAIN b :
            /\ i + Len(t) <= Len(b) /\ t = SubSeq(b, i, i + Len(t) - 1)
            /\ b[i + Len(t)] # CONT
=============================================================================
