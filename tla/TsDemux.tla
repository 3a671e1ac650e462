------------------------------ MODULE TsDemux -------------------------------
(***************************************************************************)
(* src/src/ts_demux.c: the audio of an MPEG transport stream, fed in       *)
(* chunks of any length.                                                   *)
(*                                                                         *)
(* A packet is PKT units, the first of them its header; a unit stands for  *)
(* as many bytes as the code looks at together.  A unit is a triple: its   *)
(* packet in Broadcast (0: no packet), its place in it, and what the way   *)
(* here did to it.  What a packet carries is in Broadcast:                 *)
(*   pid, pusi, af (units of adaptation field), signal (a discontinuity    *)
(*   the sender announces) and body, the payload units:                    *)
(*   [is |-> "ptr", n]             a pointer_field                         *)
(*   [is |-> "sec", id, k, total, names]   unit k of a section             *)
(*   [is |-> "hdr", skip]          the PES header of an audio stream       *)
(*   [is |-> "es", n]              unit n of the audio                     *)
(*   [is |-> "other"]              anything else                           *)
(***************************************************************************)
EXTENDS Integers, Sequences, FiniteSets, FiniteSetsExt, SequencesExt

CONSTANTS PKT, PES_HDR, CC_MOD, RESYNC_MAX,
          Broadcast,
          Arrivals,         \* what may arrive: the units, and the resets to expect
          Chunks            \* lengths of the chunks it is fed in

ASSUME TsAssumption ==
    /\ {PKT, PES_HDR, CC_MOD} \subseteq Nat \ {0}
    /\ RESYNC_MAX \in Nat
    /\ Chunks \subseteq Nat \ {0}

VARIABLES
    air,            \* everything that arrives
    pos,            \* units of it consumed
    calling,        \* inside ts_demux_feed
    left,           \* units of this call's chunk still to take
    buf, synced, junk,
    pmt_pid, aud_pid,
    pat, pmt,       \* the sections being collected
    pes,            \* pes_state, pes_hdr, pes_skip
    cc, cc_errors,
    es,             \* what the sink was given since the demuxer was fresh
    from,           \* where in air that was
    due,            \* what the sink is to be given since then
    refused,        \* the sink has refused bytes
    resets          \* bound: discontinuities to come

call   == <<pos, calling, left>>
tables == <<pmt_pid, aud_pid, pat, pmt>>
parsed == <<tables, pes, cc, cc_errors, es, refused>>
tsVars == <<air, call, buf, synced, junk, parsed, from, due, resets>>

PatPid  == "pat"
NullPid == "null"
NoPid   == "none"
Pids    == {Broadcast[i].pid : i \in DOMAIN Broadcast} \cup {NullPid}

PayloadUnit ==
    [is : {"ptr"}, n : Nat]
    \cup [is : {"sec"}, id : Nat, k : Nat, total : Nat \ {0}, names : Pids]
    \cup [is : {"hdr"}, skip : Nat] \cup [is : {"es"}, n : Nat] \cup [is : {"other"}]

AirUnit == (0..Len(Broadcast)) \X (0..(PKT - 1)) \X STRING

ASSUME BroadcastAssumption ==
    /\ Broadcast \in Seq([pid : STRING, pusi : BOOLEAN, af : 0..(PKT - 1),
                          signal : BOOLEAN, body : Seq(PayloadUnit)])
    /\ \A i \in DOMAIN Broadcast : Len(Broadcast[i].body) = PKT - 1 - Broadcast[i].af
    /\ \A a \in Arrivals : a.units \in Seq(AirUnit) /\ a.resets \in Nat

Closed == [open |-> FALSE, have |-> <<>>]
Opened == [open |-> TRUE, have |-> <<>>]
Idle   == [state |-> "idle", hdr |-> <<>>, skip |-> 0]
Start  == [state |-> "hdr", hdr |-> <<>>, skip |-> 0]

-----------------------------------------------------------------------------
(* Units                                                                   *)

IsHeader(u) == u[1] > 0 /\ u[2] = 0

\* The byte is 0x47.
IsSync(u) == IsHeader(u) \/ u[3] = "fake"

HdrOk(u) == IsSync(u) /\ u[3] # "tei"

Packet(u) == Broadcast[u[1]]

Carries(i) == Broadcast[i].af < PKT - 1

\* The continuity counter the sender gave packet i.
Counter == [i \in DOMAIN Broadcast |->
    Cardinality({j \in 1..(i - 1) : Broadcast[j].pid = Broadcast[i].pid /\ Carries(j)})
        % CC_MOD]

\* What a payload unit says; the bytes of a header read as payload say nothing.
Content(u) ==
    IF u[1] > 0 /\ u[2] > Packet(u).af
    THEN Packet(u).body[u[2] - Packet(u).af]
    ELSE [is |-> "other"]

-----------------------------------------------------------------------------
(* Sections                                                                *)

SecPush(s, p) == IF s.open THEN [s EXCEPT !.have = @ \o p] ELSE s

Total(s) == LET c == Content(s.have[1]) IN IF c.is = "sec" THEN c.total ELSE 1

Complete(s) == s.open /\ s.have # <<>> /\ Len(s.have) >= Total(s)

\* The first program's PID of a PAT, the first audio PID of a PMT.  A section put
\* together from two may name any PID.
Named(s, was) ==
    LET c == [k \in 1..Total(s) |-> Content(s.have[k])]
        whole == \A k \in DOMAIN c : c[k].is = "sec" /\ c[k].k = k /\ c[k].id = c[1].id
    IN IF ~Complete(s) THEN {was} ELSE IF whole THEN {Last(c).names} ELSE Pids

\* The packet's end of the old section, and its beginning of a new one.
PsiParts(s, p, pusi) ==
    LET rest == Tail(p)
        ptr == IF Content(p[1]).is = "ptr" THEN Content(p[1]).n ELSE PKT
    IN IF ~pusi THEN <<SecPush(s, p)>>
       ELSE IF ptr > Len(rest) THEN <<Closed>>
       ELSE <<SecPush(s, SubSeq(rest, 1, ptr)),
              SecPush(Opened, SubSeq(rest, ptr + 1, Len(rest)))>>

Kept(parts) == IF Complete(Last(parts)) THEN Closed ELSE Last(parts)

\* What the completed sections of a packet make of the PID they name.
NamedBy(parts, was) ==
    UNION {Named(Last(parts), w) : w \in Named(Head(parts), was)}

\* psi_feed for the PAT: a new PMT PID drops what was collected of the old one.
PatFeed(s, mt, p, pusi) ==
    \E parts \in {PsiParts(s, p, pusi)} :
       /\ pmt_pid' \in NamedBy(parts, pmt_pid)
       /\ pat' = Kept(parts)
       /\ pmt' = IF pmt_pid' # pmt_pid THEN Closed ELSE mt
       /\ UNCHANGED aud_pid

\* psi_feed for the PMT: a new audio PID waits for its first PES.
PmtFeed(s, p, pusi, was) ==
    \E parts \in {PsiParts(s, p, pusi)} :
       /\ aud_pid' \in NamedBy(parts, aud_pid)
       /\ pmt' = Kept(parts)
       /\ pes' = IF aud_pid' # aud_pid THEN Idle ELSE was
       /\ UNCHANGED <<pmt_pid, pat>>

-----------------------------------------------------------------------------
(* PES                                                                     *)

From(p, n) == SubSeq(p, n + 1, Len(p))

AudioHeader(h) == \A i \in DOMAIN h : Content(h[i]).is = "hdr"

\* The optional header, over as many packets as it takes.
SkipOver(skip, p) ==
    IF skip > Len(p)
    THEN [pes |-> [Idle EXCEPT !.state = "skip", !.skip = skip - Len(p)], out |-> <<>>]
    ELSE [pes |-> [Idle EXCEPT !.state = "data"], out |-> From(p, skip)]

CollectHeader(was, p) ==
    LET n == Min({PES_HDR - Len(was), Len(p)})
        h == was \o SubSeq(p, 1, n)
    IN IF Len(h) < PES_HDR THEN [pes |-> [Start EXCEPT !.hdr = h], out |-> <<>>]
       ELSE IF ~AudioHeader(h) THEN [pes |-> Idle, out |-> <<>>]
       ELSE SkipOver(Content(Last(h)).skip, From(p, n))

PesFeed(s, p) ==
    CASE s.state = "idle" -> [pes |-> Idle, out |-> <<>>]
      [] s.state = "hdr"  -> CollectHeader(s.hdr, p)
      [] s.state = "skip" -> SkipOver(s.skip, p)
      [] s.state = "data" -> [pes |-> s, out |-> p]

\* The sink takes the payload, or asks to stop.
Emit(s, p) ==
    \E fed \in {PesFeed(s, p)} :
       /\ pes' = fed.pes
       /\ es' = es \o [i \in DOMAIN fed.out |->
                         IF Content(fed.out[i]).is = "es" THEN Content(fed.out[i]).n ELSE 0]
       /\ refused' \in IF fed.out = <<>> THEN {FALSE} ELSE BOOLEAN
       /\ UNCHANGED tables

-----------------------------------------------------------------------------
(* Packets                                                                 *)

\* Flagged corrupt, a null packet, scrambled, or without a payload.
Ignored(u) == u[3] \in {"tei", "fake", "scr"} \/ Packet(u).pid = NullPid \/ ~Carries(u[1])

\* Faulty variant: a lost packet is counted, and the parts are joined.
GapSeenOnly(pid, n) == FALSE

\* Faulty variant: only the PIDs of the tables and of the audio are looked at.
GapOfOursOnly(pid, n) ==
    /\ pid \in {PatPid, pmt_pid, aud_pid}
    /\ cc[pid] >= 0 /\ n # (cc[pid] + 1) % CC_MOD

\* The counter is not the next one: packets of this PID are missing.
Gap(pid, n) == cc[pid] >= 0 /\ n # (cc[pid] + 1) % CC_MOD

\* The payload goes to whoever its PID belongs to; after a gap nothing collected
\* so far is continued.
Payload(pid, p, pusi, gap) ==
    LET was == IF gap THEN Idle ELSE pes
        sec(s, id) == IF gap /\ pid = id THEN Closed ELSE s
    IN \/ /\ pid = PatPid
          /\ PatFeed(sec(pat, PatPid), pmt, p, pusi)
          /\ pes' = was
          /\ UNCHANGED <<es, refused>>
       \/ /\ pid = pmt_pid
          /\ PmtFeed(sec(pmt, pmt_pid), p, pusi, was)
          /\ UNCHANGED <<es, refused>>
       \/ /\ pid \notin {PatPid, pmt_pid} /\ pid = aud_pid
          /\ Emit(IF pusi THEN Start ELSE was, p)
       \/ /\ pid \notin {PatPid, pmt_pid, aud_pid}
          /\ pes' = was
          /\ UNCHANGED <<tables, es, refused>>

\* process_pkt; the counter that is still the last one marks a legal duplicate.
ProcessPkt(p) ==
    \E u \in {Head(p)}, pid \in {Packet(Head(p)).pid}, n \in {Counter[p[1][1]]} :
       IF Ignored(u) \/ cc[pid] = n
       THEN UNCHANGED parsed
       ELSE /\ cc' = [cc EXCEPT ![pid] = n]
            /\ cc_errors' = IF Gap(pid, n) /\ ~Packet(u).signal THEN cc_errors + 1
                                                                ELSE cc_errors
            /\ Payload(pid, From(p, 1 + Packet(u).af), Packet(u).pusi, Gap(pid, n))

-----------------------------------------------------------------------------
(* What there is to play: the audio a listener can expect of the units        *)
(* behind position f of a, said of the packets in it and not of the code.     *)

\* Where packets start.
Starts(a, f) ==
    SelectSeq([q \in 1..Len(a) |-> q], LAMBDA q : q > f /\ IsHeader(a[q]))

\* Alignment has to be found at the first packet and behind junk, which takes a
\* second sound packet right behind; a packet that is not confirmed is lost.
Unaligned(a, head) ==
    LET n == Len(head)
        tei(x) == a[head[x]][3] = "tei"
        lost[x \in 1..n] ==
            /\ x = 1 \/ head[x] # head[x - 1] + PKT \/ lost[x - 1]
            /\ x = n \/ head[x + 1] # head[x] + PKT \/ tei(x) \/ tei(x + 1)
    IN {head[x] : x \in {y \in 1..n : lost[y]}}

\* The packets that get as far as their counter.
Counted(a, head, lost) ==
    LET at == SelectSeq(head, LAMBDA q : q \notin lost /\ ~Ignored(a[q]))
    IN [x \in DOMAIN at |-> a[at[x]][1]]

Usable(a, head) == Counted(a, head, Unaligned(a, head))

PidOf(i) == Broadcast[i].pid

\* How far the counter of h[x] is from that of the packet of its PID before it.
Advance(h) ==
    [x \in DOMAIN h |->
        LET before == {y \in 1..(x - 1) : PidOf(h[y]) = PidOf(h[x])}
        IN IF before = {} THEN 1
           ELSE (Counter[h[x]] - Counter[h[Max(before)]]) % CC_MOD]

\* The packets with the repeated ones out, and where among them something is
\* missing.
New(h, step) ==
    LET at == SelectSeq([x \in DOMAIN h |-> x], LAMBDA x : step[x] # 0)
    IN [x \in DOMAIN at |-> h[at[x]]]

WithoutRepeats(h) == New(h, Advance(h))

GapsIn(step) == {x \in DOMAIN step : step[x] # 1}

Gaps(h) == GapsIn(Advance(h))

\* The audio PID is known behind a whole PMT that comes behind a PAT.
Known(h, gap) ==
    LET pmt1(x) == PidOf(h[x]) = "pmt" /\ Broadcast[h[x]].pusi
        pmt2(x) == PidOf(h[x]) = "pmt" /\ ~Broadcast[h[x]].pusi
    IN {c \in DOMAIN h \ gap :
           /\ pmt2(c)
           /\ \E b \in 1..(c - 1) :
                 /\ pmt1(b) /\ \A x \in (b + 1)..(c - 1) : PidOf(h[x]) # "pmt"
                 /\ \E p \in 1..(b - 1) : PidOf(h[p]) = PatPid}

\* The audio in packet i.
AudioIn(i) == LET b == SelectSeq(Broadcast[i].body, LAMBDA c : c.is = "es")
              IN [k \in DOMAIN b |-> b[k].n]

\* The packets that start a PES behind tables that are known.
PesStarts(h, known) ==
    {x \in DOMAIN h : /\ PidOf(h[x]) = "aud" /\ Broadcast[h[x]].pusi
                      /\ \E c \in known : c < x}

\* The audio of every PES up to the first packet missing.
AudioOf(h, gap, starts) ==
    LET joins(x) ==
            /\ PidOf(h[x]) = "aud"
            /\ \E s \in starts :
                  /\ s <= x
                  /\ \A y \in (s + 1)..x :
                        y \notin gap /\ ~(PidOf(h[y]) = "aud" /\ Broadcast[h[y]].pusi)
    IN FlattenSeq([x \in DOMAIN h |-> IF joins(x) THEN AudioIn(h[x]) ELSE <<>>])

AudioBetween(h, gap) == AudioOf(h, gap, PesStarts(h, Known(h, gap)))

AudioOfPackets(h) == AudioBetween(h, Gaps(h))

Playable(a, f) == AudioOfPackets(WithoutRepeats(Usable(a, Starts(a, f))))

-----------------------------------------------------------------------------
(* ts_demux_open, ts_demux_reset, ts_demux_feed                            *)

Fresh ==
    /\ buf' = <<>> /\ synced' = FALSE /\ junk' = 0
    /\ pmt_pid' = NoPid /\ aud_pid' = NoPid
    /\ pat' = Closed /\ pmt' = Closed /\ pes' = Idle
    /\ cc' = [p \in Pids |-> -1]
    /\ es' = <<>> /\ from' = pos' /\ due' = Playable(air, pos')
    /\ UNCHANGED <<air, cc_errors, refused>>

TsStart(arrival) ==
    /\ air = arrival.units /\ resets = arrival.resets
    /\ pos = 0 /\ calling = FALSE /\ left = 0
    /\ buf = <<>> /\ synced = FALSE /\ junk = 0
    /\ pmt_pid = NoPid /\ aud_pid = NoPid
    /\ pat = Closed /\ pmt = Closed /\ pes = Idle
    /\ cc = [p \in Pids |-> -1] /\ cc_errors = 0
    /\ es = <<>> /\ from = 0 /\ due = Playable(air, 0)
    /\ refused = FALSE

TsInit == \E arrival \in Arrivals : TsStart(arrival)

\* The worker resets the demuxer between two segments.
Discontinuity ==
    /\ ~calling /\ ~refused /\ resets > 0
    /\ resets' = resets - 1
    /\ UNCHANGED call
    /\ Fresh

Feed ==
    /\ ~calling /\ ~refused /\ pos < Len(air)
    /\ calling' = TRUE
    /\ left' \in {Min({n, Len(air) - pos}) : n \in Chunks}
    /\ junk' = 0
    /\ UNCHANGED <<air, pos, buf, synced, parsed, from, due, resets>>

Want == IF synced THEN PKT ELSE 2 * PKT

\* The loop goes round: input is left, or a confirmed packet is waiting.
Looping == calling /\ ~refused /\ (left > 0 \/ (synced /\ Len(buf) = PKT))

Hunting == ~synced /\ buf = <<>>

\* Units before the next 0x47 of this chunk.
ToSync ==
    LET at == {k \in 0..(left - 1) : IsSync(air[pos + k + 1])}
    IN IF at = {} THEN left ELSE Min(at)

Hunt ==
    /\ Hunting /\ ToSync > 0 /\ junk + ToSync <= RESYNC_MAX
    /\ pos' = pos + ToSync /\ left' = left - ToSync /\ junk' = junk + ToSync
    /\ UNCHANGED <<air, calling, buf, synced, parsed, from, due, resets>>

\* -1: the rest of the chunk is dropped, and the demuxer is left usable.
GiveUp ==
    /\ calling' = FALSE /\ left' = 0 /\ pos' = pos + left
    /\ Fresh
    /\ UNCHANGED resets

HuntGivesUp == Hunting /\ junk + ToSync > RESYNC_MAX /\ GiveUp

Enough == Len(buf) + left >= Want

Taken == IF Enough THEN Want - Len(buf) ELSE left

Filled == buf \o SubSeq(air, pos + 1, pos + Taken)

Filling == Hunting => IsSync(air[pos + 1])

Take(n) == pos' = pos + n /\ left' = left - n

\* The chunk ends inside a packet.
NeedMore ==
    /\ Filling /\ ~Enough
    /\ Take(Taken) /\ buf' = Filled /\ calling' = FALSE
    /\ UNCHANGED <<air, synced, junk, parsed, from, due, resets>>

\* "a candidate is only accepted when the byte 188 further on also looks like a
\* TS header"
Confirmed == HdrOk(Filled[1]) /\ HdrOk(Filled[PKT + 1])

Deciding == Filling /\ Enough

\* A refusal returns from the call.
Returns == calling' = ~refused'

Lock ==
    /\ Deciding /\ ~synced /\ Confirmed
    /\ Take(Taken)
    /\ synced' = TRUE /\ junk' = 0
    /\ \E p \in {SubSeq(Filled, 1, PKT)} : ProcessPkt(p)
    /\ buf' = From(Filled, PKT)
    /\ Returns
    /\ UNCHANGED <<air, from, due, resets>>

\* shift_to_next_sync: units to the next 0x47 in the buffer, past the first.
ToNextSync ==
    LET at == {k \in 1..(Len(Filled) - 1) : IsSync(Filled[k + 1])}
    IN IF at = {} THEN Len(Filled) ELSE Min(at)

Shift ==
    /\ Take(Taken)
    /\ synced' = FALSE
    /\ buf' = From(Filled, ToNextSync) /\ junk' = junk + ToNextSync
    /\ UNCHANGED <<air, calling, parsed, from, due, resets>>

Reject == Deciding /\ ~synced /\ ~Confirmed /\ junk + ToNextSync <= RESYNC_MAX /\ Shift

RejectGivesUp ==
    Deciding /\ ~synced /\ ~Confirmed /\ junk + ToNextSync > RESYNC_MAX /\ GiveUp

\* Lost alignment mid-stream.
LoseSync == Deciding /\ synced /\ ~IsSync(Filled[1]) /\ Shift

PassPacket ==
    /\ Deciding /\ synced /\ IsSync(Filled[1])
    /\ Take(Taken)
    /\ \E p \in {Filled} : ProcessPkt(p)
    /\ buf' = <<>>
    /\ Returns
    /\ UNCHANGED <<air, synced, junk, from, due, resets>>

\* Once round the loop.
Round ==
    /\ Looping
    /\ \/ Hunt \/ HuntGivesUp \/ NeedMore
       \/ Lock \/ Reject \/ RejectGivesUp \/ LoseSync \/ PassPacket

FeedReturns ==
    /\ calling /\ ~Looping
    /\ calling' = FALSE
    /\ UNCHANGED <<air, pos, left, buf, synced, junk, parsed, from, due, resets>>

\* All of it has been fed, or the sink refused: the stream is over.
TsOver == ~calling /\ (refused \/ pos = Len(air))

TsNext ==
    \/ Discontinuity \/ Feed \/ Round \/ FeedReturns

-----------------------------------------------------------------------------
(* Properties                                                              *)

TsTypeOk ==
    /\ pos \in 0..Len(air) /\ left \in 0..(Len(air) - pos)
    /\ from \in 0..pos /\ resets \in Nat
    /\ {calling, synced, refused, pat.open, pmt.open} \subseteq BOOLEAN
    /\ Len(buf) \in 0..(2 * PKT) /\ (synced => Len(buf) <= PKT)
    /\ junk \in 0..(RESYNC_MAX + PKT)
    /\ {pmt_pid, aud_pid} \subseteq Pids \cup {NoPid}
    /\ pes.state \in {"idle", "hdr", "skip", "data"} /\ Len(pes.hdr) < PES_HDR
    /\ \A p \in Pids : cc[p] \in -1..(CC_MOD - 1)
    /\ cc_errors \in Nat

\* The sink gets the audio of every PES that starts once the tables are known, up
\* to the first packet missing in it, each unit once and in order, and nothing
\* else - never the two sides of a gap joined, never bytes of another stream -
\* however the stream is cut into chunks, wherever the demuxer starts listening,
\* and whatever junk it has to find its alignment again behind (ts_demux.c:269-290,
\* 359-429).
AudioIsPlayable ==
    /\ IsPrefix(es, due)
    /\ TsOver /\ ~refused => es = due

=============================================================================
