------------------------------- MODULE MCUnits -------------------------------
(***************************************************************************)
(* The five sequential components on one bench: a behaviour picks one of   *)
(* them and runs it, the others rest in one fixed state.                   *)
(***************************************************************************)
EXTENDS TsDemux, AdtsScan, M3u8, Browser, HlsSegment

VARIABLE unit
vars == <<unit, tsVars, adtsVars, m3u8Vars, browserVars, segVars>>

-----------------------------------------------------------------------------
(* ts_demux.c: one broadcast, its packets lost, repeated or damaged          *)

Pk(pid, pusi, af, body) ==
    [pid |-> pid, pusi |-> pusi, af |-> af, signal |-> FALSE, body |-> body]

Ptr     == [is |-> "ptr", n |-> 0]
Filler  == [is |-> "other"]
Hdr     == [is |-> "hdr", skip |-> 1]
Es(n)   == [is |-> "es", n |-> n]
Sec(id, k, total, names) ==
    [is |-> "sec", id |-> id, k |-> k, total |-> total, names |-> names]

\* Both tables twice, the PMT over two packets, and two PES: the header of the
\* first in one packet, that of the second behind an adaptation field and in two, with
\* two packets of another PID before its audio.
Sent == <<
    Pk("pat", TRUE,  0, <<Ptr, Sec(1, 1, 1, "pmt")>>),
    Pk("pmt", TRUE,  0, <<Ptr, Sec(2, 1, 2, "aud")>>),
    Pk("pmt", FALSE, 0, <<Sec(2, 2, 2, "aud"), Filler>>),
    Pk("aud", TRUE,  0, <<Hdr, Hdr>>),
    Pk("aud", FALSE, 0, <<Filler, Es(1)>>),
    Pk("vid", TRUE,  0, <<Filler, Filler>>),
    Pk("aud", FALSE, 0, <<Es(2), Es(3)>>),
    Pk("pat", TRUE,  0, <<Ptr, Sec(3, 1, 1, "pmt")>>),
    Pk("pmt", TRUE,  0, <<Ptr, Sec(4, 1, 2, "aud")>>),
    Pk("pmt", FALSE, 0, <<Sec(4, 2, 2, "aud"), Filler>>),
    Pk("aud", TRUE,  1, <<Hdr>>),
    Pk("aud", FALSE, 0, <<Hdr, Filler>>),
    Pk("vid", TRUE,  0, <<Filler, Filler>>),
    Pk("vid", TRUE,  0, <<Filler, Filler>>),
    Pk("aud", FALSE, 0, <<Es(4), Es(5)>>),
    Pk("vid", TRUE,  0, <<Filler, Filler>>) >>

Units(i, fault) ==
    [k \in 1..PKT |->
        <<i, k - 1, IF k = (IF fault = "fake" THEN 2 ELSE 1) THEN fault ELSE "">>]

Junk(n) == [k \in 1..n |-> <<0, 0, "">>]
FakeSync == <<<<0, 0, "fake">>>>

\* A fault in front of packet i or in it; a short junk, two too long ones.
Faulted(i, fault) ==
    CASE fault = "lost" -> <<>>
      [] fault = "dup"  -> Units(i, "") \o Units(i, "")
      [] fault = "junk" -> Junk(1) \o FakeSync \o Units(i, "")
      [] fault = "html" -> Junk(10) \o Units(i, "")
      [] fault = "page" -> Junk(3) \o FakeSync \o Junk(6) \o Units(i, "")
      [] OTHER          -> Units(i, fault)

OnAir(faults) == FlattenSeq([i \in DOMAIN Sent |-> Faulted(i, faults[i])])
Sound == [i \in DOMAIN Sent |-> ""]
Twice(faults, apart) ==
    UNION {{OnAir([Sound EXCEPT ![i] = f, ![j] = g]) :
               j \in {k \in DOMAIN Sent : k - i \in 1..apart}, f \in faults, g \in faults} :
           i \in DOMAIN Sent}

TsArrivals ==
    {[units |-> OnAir([Sound EXCEPT ![i] = f]), resets |-> IF f = "" THEN 1 ELSE 0] :
        i \in DOMAIN Sent,
        f \in {"", "lost", "dup", "tei", "junk", "scr", "fake", "html", "page"}}
    \cup {[units |-> u, resets |-> 0] :
            u \in Twice({"lost", "junk"}, 15) \cup Twice({"lost", "dup", "tei", "junk"}, 1)}

TsIdle == [units |-> <<>>, resets |-> 0]

-----------------------------------------------------------------------------
(* adts_scan.c: frames, tags and junk in every order                        *)

Body(what, n, says, item) ==
    [k \in 1..n |-> <<what, k - 1, IF k = 1 THEN says ELSE 0, item>>]

\* A short frame and one that has a header inside; a tag, one longer than the
\* buffer, one that says it is longer than it is, one that says nonsense; junk.
Item(name, i) ==
    CASE name = "F" -> Body("frame", 3, 3, i)
      [] name = "G" -> [Body("frame", 4, 4, i) EXCEPT ![3] = <<"fake", 0, 4, i>>]
      [] name = "T" -> Body("tag", 4, 4, i)
      [] name = "B" -> Body("tag", 10, 10, i)
      [] name = "L" -> Body("tag", 5, 10, i)
      [] name = "H" -> Body("tag", 3, 99, i)
      [] name = "X" -> Body("other", 1, 0, i)
      [] name = "Y" -> Body("bad", 1, 0, i)

\* One header inside a frame, so that it cannot lead to another such by accident.
Apart(s) ==
    /\ \A i \in 1..(Len(s) - 1) : ~(s[i] \in {"X", "Y"} /\ s[i + 1] \in {"X", "Y"})
    /\ \A x \in {"L", "G"} : Cardinality({i \in DOMAIN s : s[i] = x}) <= 1

Of(s) == FlattenSeq([i \in DOMAIN s |-> Item(s[i], i)])
AdtsStreams ==
    {[units |-> Of(s \o <<"F", "F">>), breaks |-> IF s[3] = "F" THEN 1 ELSE 0] :
        s \in {q \in [1..3 -> {"F", "G", "T", "B", "L", "H", "X", "Y"}] : Apart(q)}
            \cup {q \in [1..4 -> {"F", "G", "L"}] : Apart(q)}}

AdtsIdle == [units |-> <<>>, breaks |-> 0]

-----------------------------------------------------------------------------
(* m3u8.c: every text of a header and five lines, at most one of them odd   *)

Plain(t) == [t |-> t]
KeyLine(method, uri, iv, cut) ==
    [t |-> "key", method |-> method, uri |-> uri, iv |-> iv, cut |-> cut]

Usual ==
    {Plain("inf"), Plain("disc"),
     [t |-> "stream", bandwidth |-> 1], [t |-> "stream", bandwidth |-> 2],
     [t |-> "seq", value |-> 4],
     KeyLine("AES-128", 1, 1, FALSE), KeyLine("AES-128", 2, None, FALSE),
     [t |-> "uri", resolves |-> TRUE], [t |-> "uri", resolves |-> FALSE]}

Odd ==
    {Plain("header"), Plain("nul"), Plain("target"), Plain("end"),
     [t |-> "stream", bandwidth |-> 0], [t |-> "seq", value |-> 0], [t |-> "seq", value |-> None],
     KeyLine("NONE", None, None, FALSE), KeyLine("AES-128", 1, 1, TRUE),
     KeyLine("SAMPLE-AES", 1, 1, FALSE)}

AllLines == Usual \cup Odd

ShortPlaylist(s) ==
    /\ Len(s) <= 6
    /\ Cardinality({i \in 2..Len(s) : s[i] \in Odd}) <= 1
    /\ Len(s) > 1 => s[1].t = "header"

-----------------------------------------------------------------------------
(* main.c's browser: two stations, three chips, one query                   *)

AllChips == <<"Built-in", "Popular", "UK">>

Answers ==
    [what \in ToSet(AllChips) \cup {"query"} |->
        CASE what = "Built-in" -> <<"a", "b">>
          [] what = "Popular"  -> <<"b", "", "a">>
          [] what = "UK"       -> <<>>
          [] what = "query"    -> <<"b", "a">>]

Pads ==
    {{b} : b \in ToSet(Button)}
    \cup {{"left", "triangle"}, {"down", "triangle"}, {"triangle", "square"}}

-----------------------------------------------------------------------------
(* hls.c's segments: three keys for a cache of two; one too long to keep, and one *)
(* that is encrypted in a way the player cannot undo                          *)

Seg(of, parts, is_ts, codec, uri) ==
    [of |-> of, parts |-> parts, ts |-> is_ts, codec |-> codec, key |-> uri]

SomeSegments ==
    {Seg("clear", 2, TRUE, "mp3", NotEncrypted), Seg("big", 3, FALSE, "aac", NotEncrypted),
     Seg("one", 2, TRUE, "mp3", "k1"), Seg("two", 1, FALSE, "aac", "k2"),
     Seg("three", 1, TRUE, "mp3", "k3"), Seg("sample", 1, TRUE, "mp3", Unusable)}

\* A key whole, cut short, and two that are too long, one of them for http_get.
KeyDocuments(uri) ==
    {WholeKey(uri), SubSeq(WholeKey(uri), 1, 1), WholeKey(uri) \o Page,
     WholeKey(uri) \o Page \o Page}

-----------------------------------------------------------------------------

Init ==
    /\ unit \in {"ts_demux", "adts_scan", "m3u8", "browser", "segment"}
    /\ IF unit = "ts_demux" THEN TsInit ELSE TsStart(TsIdle)
    /\ IF unit = "adts_scan" THEN AdtsInit ELSE AdtsStart(AdtsIdle)
    /\ M3u8Start
    /\ IF unit = "browser" THEN BrowserInit ELSE BrowserStart(FALSE, <<>>, TRUE, <<>>)
    /\ SegStart

Over ==
    \/ unit = "ts_demux" /\ TsOver
    \/ unit = "adts_scan" /\ AdtsOver
    \/ unit = "m3u8" /\ M3u8Over
    \/ unit = "segment" /\ SegOver

Next ==
    \/ unit = "ts_demux"  /\ TsNext
       /\ UNCHANGED <<unit, adtsVars, m3u8Vars, browserVars, segVars>>
    \/ unit = "adts_scan" /\ AdtsNext
       /\ UNCHANGED <<unit, tsVars, m3u8Vars, browserVars, segVars>>
    \/ unit = "m3u8"      /\ M3u8Next
       /\ UNCHANGED <<unit, tsVars, adtsVars, browserVars, segVars>>
    \/ unit = "browser"   /\ BrowserNext
       /\ UNCHANGED <<unit, tsVars, adtsVars, m3u8Vars, segVars>>
    \/ unit = "segment"   /\ SegNext
       /\ UNCHANGED <<unit, tsVars, adtsVars, m3u8Vars, browserVars>>
    \/ Over /\ UNCHANGED vars

Spec == Init /\ [][Next]_vars

\* The state of the component that runs has its type: no buffer holds more than its capacity, no
\* counter leaves its range, whatever input came before.
UnitsTypeOk ==
    CASE unit = "ts_demux"  -> TsTypeOk
      [] unit = "adts_scan" -> AdtsTypeOk
      [] unit = "m3u8"      -> M3u8TypeOk
      [] unit = "browser"   -> BrowserTypeOk
      [] unit = "segment"   -> SegTypeOk

=============================================================================
