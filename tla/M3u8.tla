-------------------------------- MODULE M3u8 --------------------------------
(***************************************************************************)
(* src/src/m3u8.c: the playlist parser, one step per line of the text.     *)
(*                                                                         *)
(* A line is a record whose field t is the tag it carries ("seq", "key",   *)
(* ...), "comment" for one the code ignores, "uri" for an address and      *)
(* "nul" for a line with a NUL inside.  A value is None where the tag      *)
(* declares none, or none that is valid.  Memory is never short: the three *)
(* gotos to `done` that free the playlist (m3u8.c:366, 413, 436) are left  *)
(* out.                                                                    *)
(***************************************************************************)
EXTENDS Integers, Sequences, FiniteSets, FiniteSetsExt

CONSTANTS SEQ_MAX,          \* LLONG_MAX
          Playlist(_),      \* is this sequence of lines worth reading further?
          Lines             \* the lines that may follow

None == -1

ASSUME M3u8Assumption ==
    /\ SEQ_MAX \in Nat
    /\ \A l \in Lines :
          /\ l.t = "stream" => l.bandwidth \in Nat
          /\ l.t = "seq" => l.value \in {None} \cup 0..SEQ_MAX

VARIABLES
    text,           \* the lines read
    rc,             \* "more" while the loop runs, then 0 or -1
    seen_header, seen_segment_uri,
    have_extinf, have_streaminf, pending_disc, pending_bw,
    next_seq,
    key,            \* key_enc, key_uri, key_iv of the last EXT-X-KEY
    kind, variants, segments, media_sequence, endlist

pending  == <<have_extinf, have_streaminf, pending_disc, pending_bw>>
numbers  == <<next_seq, seen_segment_uri, media_sequence>>
parsing  == <<seen_header, pending, numbers, key>>
playlist == <<kind, variants, segments, endlist>>
m3u8Vars == <<text, rc, parsing, playlist>>

NoKey == [enc |-> FALSE, uri |-> None, iv |-> None]

M3u8Start ==
    /\ text = <<>> /\ rc = "more"
    /\ seen_header = FALSE /\ seen_segment_uri = FALSE
    /\ have_extinf = FALSE /\ have_streaminf = FALSE
    /\ pending_disc = FALSE /\ pending_bw = 0
    /\ next_seq = 0 /\ media_sequence = 0
    /\ key = NoKey
    /\ kind = "unknown" /\ variants = <<>> /\ segments = <<>> /\ endlist = FALSE

-----------------------------------------------------------------------------
(* The tags                                                                *)

Discarded == variants' = <<>> /\ segments' = <<>> /\ kind' = "unknown" /\ endlist' = FALSE

\* "not a playlist at all", or a NUL inside the response: m3u8_free, and -1.
BadLine(l) ==
    /\ l.t = "nul" \/ (~seen_header /\ l.t # "header")
    /\ rc' = "bad" /\ media_sequence' = 0
    /\ Discarded
    /\ UNCHANGED <<seen_header, pending, next_seq, seen_segment_uri, key>>

Header(l) ==
    /\ l.t = "header" /\ ~seen_header
    /\ seen_header' = TRUE
    /\ UNCHANGED <<rc, pending, numbers, key, playlist>>

\* "ignored by design", a second header with it.
Comment(l) ==
    /\ l.t \in {"comment", "header"}
    /\ UNCHANGED <<pending, numbers, key, playlist>>

Extinf(l) ==
    /\ l.t = "inf"
    /\ have_extinf' = TRUE
    /\ UNCHANGED <<have_streaminf, pending_disc, pending_bw, numbers, key, playlist>>

StreamInf(l) ==
    /\ l.t = "stream"
    /\ pending_bw' = l.bandwidth /\ have_streaminf' = TRUE
    /\ kind' = "master"
    /\ UNCHANGED <<have_extinf, pending_disc, numbers, key, variants, segments, endlist>>

TargetDuration(l) ==
    /\ l.t = "target"
    /\ kind' = IF kind = "unknown" THEN "media" ELSE kind
    /\ UNCHANGED <<pending, numbers, key, variants, segments, endlist>>

\* A value that is no number in range, or one behind the first segment, is ignored.
SequenceCounts(l) == l.value # None /\ ~seen_segment_uri

MediaSequence(l) ==
    /\ l.t = "seq"
    /\ IF SequenceCounts(l) THEN next_seq' = l.value /\ media_sequence' = l.value
                            ELSE UNCHANGED <<next_seq, media_sequence>>
    /\ UNCHANGED <<seen_segment_uri, pending, key, playlist>>

PlaylistBreak(l) ==
    /\ l.t = "disc"
    /\ pending_disc' = TRUE
    /\ UNCHANGED <<have_extinf, have_streaminf, pending_bw, numbers, key, playlist>>

EndList(l) ==
    /\ l.t = "end"
    /\ endlist' = TRUE
    /\ UNCHANGED <<pending, numbers, key, kind, variants, segments>>

Usable128(l) == l.method = "AES-128" /\ ~l.cut

KeyTag(l) ==
    /\ l.t = "key"
    /\ key' = [enc |-> l.method \notin {"", "NONE"},
               uri |-> IF Usable128(l) THEN l.uri ELSE None,
               iv  |-> IF Usable128(l) THEN l.iv ELSE None]
    /\ UNCHANGED <<pending, numbers, playlist>>

-----------------------------------------------------------------------------
(* The addresses                                                           *)

\* Faulty variant: the counter overflows.
Overflowing(seq) == seq + 1

\* "Saturates rather than wrapping"
Saturated(seq) == Min({seq + 1, SEQ_MAX})

\* seq_take.
SeqTaken == next_seq' = Saturated(next_seq)

\* Faulty variant: a line that is dropped takes no number.
NumberedIfKept(l) ==
    IF have_extinf /\ l.resolves THEN SeqTaken /\ seen_segment_uri' = TRUE
    ELSE UNCHANGED <<next_seq, seen_segment_uri>>

\* "it takes its sequence number even when it has to be dropped"
Numbering(l) ==
    IF ~have_streaminf THEN SeqTaken /\ seen_segment_uri' = TRUE
    ELSE UNCHANGED <<next_seq, seen_segment_uri>>

Uri(l) == l.t = "uri" /\ Numbering(l) /\ UNCHANGED <<media_sequence, key, kind, endlist>>

\* Neither EXTINF nor STREAM-INF before it.
Unannounced(l) ==
    /\ Uri(l) /\ ~have_streaminf /\ ~have_extinf
    /\ UNCHANGED <<pending, variants, segments>>

Unresolvable(l) ==
    /\ Uri(l) /\ (have_streaminf \/ have_extinf) /\ ~l.resolves
    /\ have_streaminf' = FALSE /\ have_extinf' = FALSE /\ pending_disc' = FALSE
    /\ UNCHANGED <<pending_bw, variants, segments>>

Variant(l) ==
    /\ Uri(l) /\ have_streaminf /\ l.resolves
    /\ variants' = Append(variants, [line |-> Len(text) + 1, bandwidth |-> pending_bw])
    /\ have_streaminf' = FALSE
    /\ UNCHANGED <<have_extinf, pending_disc, pending_bw, segments>>

\* Without an explicit IV, seq_iv makes it from the number.
Iv(seq) == IF key.iv # None THEN <<"tag", key.iv>> ELSE <<"seq", seq>>

Segment(l) ==
    /\ Uri(l) /\ ~have_streaminf /\ have_extinf /\ l.resolves
    /\ segments' = Append(segments,
           [line |-> Len(text) + 1, seq |-> next_seq, discontinuity |-> pending_disc,
            encrypted |-> key.enc, key_uri |-> key.uri, iv |-> Iv(next_seq)])
    /\ have_extinf' = FALSE /\ pending_disc' = FALSE
    /\ UNCHANGED <<have_streaminf, pending_bw, variants>>

-----------------------------------------------------------------------------
(* m3u8_parse, m3u8_pick_variant                                           *)

Tagged(l) ==
    \/ Comment(l) \/ Extinf(l) \/ StreamInf(l) \/ TargetDuration(l) \/ MediaSequence(l)
    \/ PlaylistBreak(l) \/ EndList(l) \/ KeyTag(l)

Addressed(l) == Unannounced(l) \/ Unresolvable(l) \/ Variant(l) \/ Segment(l)

ReadLine ==
    rc = "more" /\ \E l \in Lines :
       /\ Playlist(text \o <<l>>)
       /\ text' = Append(text, l)
       /\ \/ BadLine(l)
          \/ Header(l)
          \/ seen_header /\ UNCHANGED <<rc, seen_header>> /\ (Tagged(l) \/ Addressed(l))

\* The end of the text; without a single line there was no header.
TextEnds ==
    /\ rc = "more"
    /\ rc' = IF seen_header THEN "ok" ELSE "bad"
    /\ UNCHANGED <<text, parsing, playlist>>

M3u8Over == rc # "more"

M3u8Next == ReadLine \/ TextEnds

\* m3u8_pick_variant's loop over the variants.
best[i \in 0..Len(variants)] ==
    IF i = 0 THEN 0
    ELSE IF /\ variants[i].bandwidth > 0
            /\ best[i - 1] = 0 \/ variants[i].bandwidth < variants[best[i - 1]].bandwidth
         THEN i
    ELSE best[i - 1]

\* The index of the variant to play; 0 if there is none.
pick_variant ==
    IF variants = <<>> THEN 0 ELSE Max({1, best[Len(variants)]})

-----------------------------------------------------------------------------
(* Properties                                                              *)

M3u8TypeOk ==
    /\ rc \in {"more", "ok", "bad"}
    /\ {seen_header, seen_segment_uri, have_extinf, have_streaminf, pending_disc, endlist}
         \subseteq BOOLEAN
    /\ {next_seq, media_sequence} \subseteq 0..SEQ_MAX
    /\ key.enc \in BOOLEAN /\ kind \in {"unknown", "master", "media"}
    /\ Len(variants) + Len(segments) <= Len(text)

Before(i, tags) == {j \in 1..(i - 1) : text[j].t \in tags}

\* The line is the address of a variant: a STREAM-INF came since the address before.
OfVariant(i) == Before(i, {"stream"}) # {} /\ Max(Before(i, {"uri", "stream"})) \in Before(i, {"stream"})

SegmentUris(i) == {j \in Before(i, {"uri"}) : ~OfVariant(j)}

\* What the server calls the segment at line i: its place behind the last valid
\* MEDIA-SEQUENCE that comes before every segment.
ServersNumber(i) ==
    LET first == IF SegmentUris(i) = {} THEN i ELSE Min(SegmentUris(i))
        said == {j \in Before(first, {"seq"}) : text[j].value # None}
        base == IF said = {} THEN 0 ELSE text[Max(said)].value
    IN Min({base + Cardinality(SegmentUris(i)), SEQ_MAX})

\* The key of the last EXT-X-KEY before line i: of this tag and of no other.
KeyedBySource(s) ==
    LET tags == Before(s.line, {"key"})
        k == text[Max(tags)]
    IN IF tags = {} THEN ~s.encrypted /\ s.key_uri = None /\ s.iv = <<"seq", s.seq>>
       ELSE /\ s.encrypted = (k.method \notin {"", "NONE"})
            /\ s.key_uri = (IF Usable128(k) THEN k.uri ELSE None)
            /\ s.iv = IF Usable128(k) /\ k.iv # None THEN <<"tag", k.iv>> ELSE <<"seq", s.seq>>

\* The line of the k-th segment handed over; 0 for none.
LineOf(k) == IF k = 0 THEN 0 ELSE segments[k].line

\* Whether line i is marked as behind a break: only if a DISCONTINUITY lies between
\* it and the line last, and surely if one lies behind every address before it.
MarkedRight(marked, i, last) ==
    LET tags == Before(i, {"disc"})
    IN /\ marked => \E j \in tags : last < j
       /\ (\E j \in tags : \A u \in Before(i, {"uri"}) : u < j) => marked

\* No break is made up, or told of two segments, and none is lost that lies right
\* before its segment.  In between are the addresses that are dropped: one that
\* does not resolve takes the break before it along, one without EXTINF does not.
BreaksTagged ==
    \A k \in DOMAIN segments :
        MarkedRight(segments[k].discontinuity, segments[k].line, LineOf(k - 1))

\* The lowest declared bandwidth, the first of those; else the first variant.
PickIsLowest ==
    LET declared == {i \in DOMAIN variants : variants[i].bandwidth > 0}
        lowest == {i \in declared : \A j \in declared :
                      variants[i].bandwidth <= variants[j].bandwidth}
    IN variants # <<>> =>
          pick_variant = IF declared = {} THEN 1 ELSE Min(lowest)

\* What the parser hands over is what the server publishes: every segment has the
\* number the server counts it under, though lines were dropped before it or the
\* numbering said twice, its own break, and the key and IV of the last key tag
\* before it, never a part of an earlier one; the variant picked is the cheapest
\* one; and a text that is no playlist, or is cut by a NUL, yields nothing
\* (m3u8.c:164-183, 320-383, 386-446, 477-492).
PublishedAsServed ==
    /\ \A i \in DOMAIN segments :
          /\ segments[i].seq = ServersNumber(segments[i].line)
          /\ KeyedBySource(segments[i])
    /\ BreaksTagged
    /\ PickIsLowest
    /\ rc = "bad" => segments = <<>> /\ variants = <<>>

=============================================================================
