----------------------------- MODULE IcyParser ------------------------------
(***************************************************************************)
(* src/src/icy.c: the parser that takes the metadata blocks out of an      *)
(* Icecast body.  The server sends metaint audio bytes, one length byte,   *)
(* that many units of metadata, and so on; the network cuts this anywhere. *)
(* icy_feed is a loop over the bytes of one call, and an action below is   *)
(* one turn of it.                                                         *)
(*                                                                         *)
(* A byte is a record: val is what the parser can see of it, the rest what *)
(* it is, which only the properties look at.  The key "StreamTitle='" and  *)
(* the terminator "';" are one byte each.                                  *)
(***************************************************************************)
EXTENDS Integers, Sequences

CONSTANTS UNIT,         \* bytes of metadata one step of the length byte stands for
          TITLE_MAX     \* sizeof(last_title) - 1

ASSUME IcyAssumption == UNIT \in Nat \ {0} /\ TITLE_MAX \in Nat

VARIABLES
    icy,        \* the IcyParser
    data,       \* what is left of the bytes of the current call
    titles      \* every title handed to on_title

icyVars == <<icy, data, titles>>

NUL  == 0
KEY  == 10      \* StreamTitle='
END  == 11      \* ';
CONT == 12      \* a UTF-8 continuation byte

icy_init(metaint) ==
    [metaint |-> metaint, audio_left |-> metaint, meta_left |-> 0,
     meta |-> <<>>, state |-> "audio", last_title |-> <<>>]

Smaller(a, b) == IF a < b THEN a ELSE b

Rest(n) == SubSeq(data, n + 1, Len(data))

-----------------------------------------------------------------------------
(* icy_extract_title                                                       *)

\* The first place from i on that holds v; one past the end if there is none.
FirstAt(s, i, v) ==
    CHOOSE k \in i..(Len(s) + 1) :
        /\ k <= Len(s) => s[k] = v
        /\ \A j \in i..(k - 1) : s[j] # v

\* Faulty variant: the title is cut at the size of the buffer, wherever it falls.
CutAnywhere(value) == SubSeq(value, 1, Smaller(TITLE_MAX, Len(value)))

\* A title that does not fit is cut back to the start of the character the cut
\* would fall into.
Truncated(value) ==
    IF Len(value) <= TITLE_MAX THEN value
    ELSE LET cut == CHOOSE n \in 0..TITLE_MAX :
                        /\ n > 0 => value[n + 1] # CONT
                        /\ \A m \in (n + 1)..TITLE_MAX : value[m + 1] = CONT
         IN  SubSeq(value, 1, cut)

\* The text between the first key and the next terminator, before the padding;
\* empty if either is missing.
icy_extract_title(meta) ==
    LET text  == SubSeq(meta, 1, FirstAt(meta, 1, NUL) - 1)
        start == FirstAt(text, 1, KEY) + 1
        end   == FirstAt(text, Smaller(start, Len(text) + 1), END)
    IN  IF start > Len(text) \/ end > Len(text) THEN <<>>
        ELSE Truncated(SubSeq(text, start, end - 1))

\* title[0] == '\0' || strcmp(title, p->last_title) == 0
Changed(title) == title # <<>> /\ title # icy.last_title

-----------------------------------------------------------------------------
(* icy_feed                                                                *)

\* How many bytes of this call go to on_audio in one piece.
AudioRun ==
    IF icy.metaint = 0 THEN Len(data) ELSE Smaller(icy.audio_left, Len(data))

InAudio == icy.metaint = 0 \/ icy.state = "audio"

\* on_audio took the run.
PassAudio ==
    /\ data' = Rest(AudioRun)
    /\ icy' = IF icy.metaint = 0 THEN icy
              ELSE [icy EXCEPT !.audio_left = @ - AudioRun,
                               !.state = IF icy.audio_left = AudioRun
                                         THEN "len" ELSE "audio"]
    /\ UNCHANGED titles

\* A length byte of 0 means no block: audio goes on at once.
ReadLen ==
    /\ icy.metaint > 0 /\ icy.state = "len"
    /\ LET left == data[1].val * UNIT
       IN  icy' = [icy EXCEPT !.meta_left = left, !.meta = <<>>,
                              !.audio_left = IF left = 0 THEN icy.metaint ELSE @,
                              !.state = IF left = 0 THEN "audio" ELSE "meta"]
    /\ data' = Rest(1)
    /\ UNCHANGED titles

\* Faulty variant: a block split over two calls keeps only its last part.
MetaRestarts(n) == [k \in 1..n |-> data[k].val]

\* The block so far, and the n bytes of it in this call.
MetaJoined(n) == icy.meta \o [k \in 1..n |-> data[k].val]

ReadMeta ==
    /\ icy.metaint > 0 /\ icy.state = "meta"
    /\ LET n     == Smaller(icy.meta_left, Len(data))
           meta  == MetaJoined(n)
           title == icy_extract_title(meta)
           whole == n = icy.meta_left
           heard == whole /\ Changed(title)
       IN  /\ icy' = [icy EXCEPT !.meta = meta, !.meta_left = @ - n,
                                 !.audio_left = IF whole THEN icy.metaint ELSE @,
                                 !.state = IF whole THEN "audio" ELSE "meta",
                                 !.last_title = IF heard THEN title ELSE @]
           /\ titles' = IF heard THEN Append(titles, title) ELSE titles
           /\ data' = Rest(n)

=============================================================================
