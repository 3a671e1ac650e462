------------------------------ MODULE AdtsScan ------------------------------
(***************************************************************************)
(* src/src/adts_scan.c: the ADTS frames of a bare AAC stream that carries  *)
(* ID3 tags between them, fed in chunks of any length.                     *)
(*                                                                         *)
(* A unit of the stream stands for as many bytes as the code looks at      *)
(* together: it is <<kind, place, says, item>>, the place of the unit in   *)
(* its item and the length the item's first unit declares.  The kinds are  *)
(* "frame", "tag", "fake" (bytes that read as the header of a frame),      *)
(* "bad" (a 0xFF that does not) and "other".                               *)
(***************************************************************************)
EXTENDS Integers, Sequences, FiniteSetsExt

CONSTANTS ADTS_HDR, ADTS_LOOK,      \* units of a frame header, of a tag header
          SCAN_CAP, ID3_MAX,
          Streams,                  \* what may arrive, and the resets to expect
          Pieces                    \* lengths of the chunks it is fed in

\* "the working buffer can always hold the largest item it has to decide about"
AdtsUnit ==
    {u \in {"frame", "tag", "fake", "bad", "other"} \X Nat \X Nat \X Nat :
        u[1] \in {"frame", "fake"} => u[3] + ADTS_LOOK <= SCAN_CAP}

ASSUME AdtsAssumption ==
    /\ {ADTS_HDR, ADTS_LOOK, SCAN_CAP, ID3_MAX} \subseteq Nat \ {0}
    /\ ADTS_HDR <= ADTS_LOOK /\ ADTS_LOOK <= SCAN_CAP
    /\ Pieces \subseteq Nat \ {0}
    /\ \A s \in Streams : s.units \in Seq(AdtsUnit) /\ s.breaks \in Nat

Heading(v, kind) == v[1] = kind /\ v[2] = 0

\* A frame or a tag the code takes for what it is.
Real(v) == Heading(v, "frame") \/ (Heading(v, "tag") /\ v[3] \in 1..ID3_MAX)

\* A scanner in sync at q meets the next frame or tag before bytes that read as one.
InSync(u, q) ==
    \A r \in q..Len(u) : Heading(u[r], "fake") => \E h \in q..r : Real(u[h])

\* What no scanner that looks one header ahead can tell apart is not on the air: the
\* frames are whole and in order, bytes inside one that read as a header lead to no
\* other (only one whose successor is there too is believed), and neither they nor a
\* tag that fits the buffer but lies about its length end right before such bytes.
OnAirRight(u) ==
    \A q \in DOMAIN u :
        /\ Heading(u[q], "frame") =>
               /\ u[q][3] >= ADTS_HDR /\ u[q][4] > 0
               /\ \A r \in (q + 1)..Min({q + u[q][3] - 1, Len(u)}) : u[r][4] = u[q][4]
               /\ \A r \in (q + 1)..Len(u) : Heading(u[r], "frame") => u[r][4] > u[q][4]
               /\ InSync(u, q + u[q][3])
        /\ Heading(u[q], "tag") /\ u[q][3] \in 1..SCAN_CAP => InSync(u, q + u[q][3])
        /\ Heading(u[q], "fake") =>
               /\ u[q][3] >= ADTS_HDR
               /\ q + u[q][3] + ADTS_LOOK <= Len(u) + 1
               /\ ~(Real(u[q + u[q][3]]) \/ Heading(u[q + u[q][3]], "fake"))

ASSUME StreamsAssumption == \A s \in Streams : OnAirRight(s.units)

VARIABLES
    stream,         \* everything that arrives
    at,             \* units of it fed so far
    rest,           \* of this call's chunk, still to take
    step,           \* "out" of adts_scan_feed, or its next part: "fill", "drain"
    n0,             \* adts_scan_feed's before
    scan,           \* a->buf
    skip_left, locked,
    frames,         \* the items emitted since the scanner was fresh; 0: no frame
    heard,          \* where in stream that was
    stopped,        \* the sink has asked to stop
    failed,         \* adts_scan_feed has returned -1
    breaks          \* bound: discontinuities to come

scanner  == <<scan, skip_left, locked, frames>>
adtsVars == <<stream, at, rest, step, n0, scanner, heard, stopped, failed, breaks>>

After(p, n) == SubSeq(p, n + 1, Len(p))

-----------------------------------------------------------------------------
(* Headers                                                                 *)

Begins(p, kinds) == p # <<>> /\ p[1][1] \in kinds /\ p[1][2] = 0

Says(p) == p[1][3]

\* The frame length at p, 0 if that is no header or not all of one.
adts_len(p) ==
    IF Len(p) >= ADTS_HDR /\ Begins(p, {"frame", "fake"}) THEN Says(p) ELSE 0

\* The same for a tag; a length no tag has is a corrupt header.
id3_len(p) ==
    IF Len(p) >= ADTS_LOOK /\ Begins(p, {"tag"}) /\ Says(p) <= ID3_MAX THEN Says(p) ELSE 0

IsFF(p) == Begins(p, {"frame", "fake", "bad"})

-----------------------------------------------------------------------------
(* drain: one turn of its loop at the front of the buffer                  *)

Draining == step = "drain" /\ scan # <<>>

Tag == id3_len(scan)

\* A tag header split across feeds; a frame header, the frame or, before sync is
\* confirmed, the header that has to follow it.
Undecided ==
    \/ Begins(scan, {"tag"}) /\ Len(scan) < ADTS_LOOK
    \/ IsFF(scan) /\ Len(scan) < ADTS_HDR
    \/ /\ adts_len(scan) # 0
       /\ Len(scan) < adts_len(scan) + (IF locked THEN 0 ELSE ADTS_LOOK)

\* "unless the length it declares lands on something real: the next frame, or an
\* interleaved ID3 tag"
FollowedByReal ==
    LET next == After(scan, adts_len(scan)) IN adts_len(next) # 0 \/ id3_len(next) # 0

Accepted == adts_len(scan) # 0 /\ (locked \/ FollowedByReal)

DropTag ==
    /\ Draining /\ ~Undecided /\ Tag # 0
    /\ scan' = After(scan, Tag)
    /\ skip_left' = IF Tag > Len(scan) THEN Tag - Len(scan) ELSE 0
    /\ UNCHANGED <<stream, at, rest, step, n0, locked, frames, heard, stopped,
                   failed, breaks>>

\* What the emitted units are: a frame, whole and nothing but it.
Emitted ==
    LET p == SubSeq(scan, 1, adts_len(scan))
    IN IF \A i \in DOMAIN p : p[i][4] = p[1][4] THEN p[1][4] ELSE 0

EmitFrame ==
    /\ Draining /\ ~Undecided /\ Accepted
    /\ locked' = TRUE
    /\ frames' = Append(frames, Emitted)
    /\ scan' = After(scan, adts_len(scan))
    /\ \/ UNCHANGED <<step, rest, stopped>>
       \/ stopped' = TRUE /\ step' = "out" /\ rest' = 0
    /\ UNCHANGED <<stream, at, n0, skip_left, heard, failed, breaks>>

\* Junk, one unit at a time; a bad or unconfirmed header loses the sync.
SkipUnit ==
    /\ Draining /\ ~Undecided /\ Tag = 0 /\ ~Accepted
    /\ locked' = (locked /\ ~IsFF(scan))
    /\ scan' = Tail(scan)
    /\ UNCHANGED <<stream, at, rest, step, n0, skip_left, frames, heard, stopped,
                   failed, breaks>>

\* drain returns.  Without progress the call ends: for want of input, or with -1.
DrainEnds ==
    /\ step = "drain" /\ (scan = <<>> \/ Undecided)
    /\ step' = IF Len(scan) = n0 THEN "out" ELSE "fill"
    /\ failed' = (Len(scan) = n0 /\ rest > 0)
    /\ rest' = IF Len(scan) = n0 THEN 0 ELSE rest
    /\ UNCHANGED <<stream, at, n0, scanner, heard, stopped, breaks>>

-----------------------------------------------------------------------------
(* adts_scan_open, adts_scan_reset, adts_scan_feed                         *)

AdtsStart(s) ==
    /\ stream = s.units /\ breaks = s.breaks
    /\ at = 0 /\ rest = 0 /\ step = "out" /\ n0 = 0
    /\ scan = <<>> /\ skip_left = 0 /\ locked = FALSE
    /\ frames = <<>> /\ heard = 0 /\ stopped = FALSE /\ failed = FALSE

AdtsInit == \E s \in Streams : AdtsStart(s)

\* The worker resets the scanner between two segments.
AdtsDiscontinuity ==
    /\ step = "out" /\ ~stopped /\ breaks > 0
    /\ breaks' = breaks - 1
    /\ scan' = <<>> /\ skip_left' = 0 /\ locked' = FALSE
    /\ frames' = <<>> /\ heard' = at
    /\ UNCHANGED <<stream, at, rest, step, n0, stopped, failed>>

AdtsFeed ==
    /\ step = "out" /\ ~stopped /\ at < Len(stream)
    /\ rest' \in {Min({n, Len(stream) - at}) : n \in Pieces}
    /\ step' = "fill"
    /\ UNCHANGED <<stream, at, n0, scanner, heard, stopped, failed, breaks>>

Inside == Min({skip_left, Len(scan)})
Passed == Min({skip_left - Inside, rest})

\* Faulty variant: where a tag ends, the stream is taken to be in step.
LockKeptOverTag == locked

\* "Where it says the audio resumes, a lone 0xFFF is not proof of a frame"
LockAfterTag == locked /\ skip_left = 0

\* Skip what is left of a tag, then top up the buffer.
Fill ==
    /\ step = "fill" /\ skip_left = Inside + Passed
    /\ LET kept == After(scan, Inside)
           from == at + Passed
           k == Min({SCAN_CAP - Len(kept), rest - Passed})
       IN /\ scan' = kept \o SubSeq(stream, from + 1, from + k)
          /\ at' = from + k /\ rest' = rest - Passed - k
          /\ n0' = Len(kept) + k
          /\ step' = IF Len(kept) + k = 0 THEN "out" ELSE "drain"
    /\ skip_left' = 0 /\ locked' = LockAfterTag
    /\ UNCHANGED <<stream, frames, heard, stopped, failed, breaks>>

\* "whole feed swallowed by the tag"
Swallow ==
    /\ step = "fill" /\ skip_left > Inside + Passed
    /\ skip_left' = skip_left - Inside - Passed
    /\ scan' = After(scan, Inside)
    /\ at' = at + Passed /\ rest' = 0 /\ step' = "out"
    /\ UNCHANGED <<stream, n0, locked, frames, heard, stopped, failed, breaks>>

AdtsOver == step = "out" /\ (stopped \/ at = Len(stream))

AdtsNext ==
    \/ AdtsDiscontinuity \/ AdtsFeed \/ Fill \/ Swallow
    \/ DropTag \/ EmitFrame \/ SkipUnit \/ DrainEnds

-----------------------------------------------------------------------------
(* Properties                                                              *)

AdtsTypeOk ==
    /\ at \in 0..Len(stream) /\ rest \in 0..(Len(stream) - at) /\ heard \in 0..at
    /\ step \in {"out", "fill", "drain"} /\ n0 \in 0..SCAN_CAP
    /\ Len(scan) \in 0..SCAN_CAP /\ skip_left \in 0..ID3_MAX
    /\ {locked, stopped, failed} \subseteq BOOLEAN

Heads(what) == {q \in (heard + 1)..Len(stream) : stream[q][1] = what /\ stream[q][2] = 0}

\* The units behind position q say where a tag that lies about its length ends.
Covered == UNION {q..(q + stream[q][3] - 1) : q \in {t \in Heads("tag") : stream[t][3] <= ID3_MAX}}

\* The frames that arrive whole and behind no such tag.
Free ==
    {q \in Heads("frame") : q \notin Covered /\ q + stream[q][3] - 1 <= Len(stream)}

\* The frames whose place in the stream can be told: a frame or a tag follows, or
\* such a frame comes right before.
Followed ==
    {q \in Free : LET next == After(stream, q + stream[q][3] - 1)
                  IN Len(next) >= ADTS_LOOK /\ (adts_len(next) # 0 \/ id3_len(next) # 0)}

Sure == Followed \cup {q \in Free : \E p \in Followed : p + stream[p][3] = q}

\* "Emits only whole ADTS frames, in order, with tags and junk removed"
\* (adts_scan.h:23), and never fails for want of room (adts_scan.c:226-232): each
\* frame at most once, no fragment and no fake, and every frame whose place can be
\* told - however the stream is cut into chunks, through tags cut anywhere or
\* longer than the buffer, and behind a tag that lies about its length and is
\* longer than the buffer (behind one that is not, the lock is kept: OnAirRight).
FramesAreWhole ==
    /\ ~failed
    /\ \A i \in DOMAIN frames : frames[i] > (IF i = 1 THEN 0 ELSE frames[i - 1])
    /\ AdtsOver /\ ~stopped =>
           \A q \in Sure : \E i \in DOMAIN frames : frames[i] = stream[q][4]

=============================================================================
