------------------------------ MODULE Session -------------------------------
(***************************************************************************)
(* What player.h promises to its caller, without threads: a status line    *)
(* and at most one station behind it.  Connections that were given up      *)
(* close in their own time, and the next station does not wait for them.   *)
(***************************************************************************)
EXTENDS Naturals, FiniteSets

CONSTANTS Conns, NoConn,
          Limit     \* connections that may be closing when a station is opened

VARIABLES on,       \* between player_init and the end of player_shutdown
          call,     \* the call the caller is waiting for
          shown,    \* PlayerStatus.state
          station,  \* the connection the status is about
          closing,  \* connections given up and not yet freed
          leaked,   \* those of them that never will be
          lost      \* the last shutdown did not wait for all of them

sessionVars == <<on, call, shown, station, closing, leaked, lost>>

Init ==
    /\ on = FALSE /\ call = "none" /\ shown = "IDLE" /\ station = NoConn
    /\ closing = {} /\ leaked = {} /\ lost = FALSE

SwitchOn ==
    /\ ~on
    /\ on' = TRUE /\ lost' = FALSE
    /\ UNCHANGED <<call, shown, station, closing, leaked>>

Call(what) ==
    /\ on /\ call = "none"
    /\ call' = what
    /\ UNCHANGED <<on, shown, station, closing, leaked, lost>>

GiveUp == closing' = closing \cup ({station} \ {NoConn})

\* A connection given up may be leaked; no other is.
MayLeak == leaked' \in {leaked} \cup {leaked \cup {c} : c \in closing}

-----------------------------------------------------------------------------
(* player_play, player_stop, player_shutdown                               *)

\* "back to IDLE": status and station go together, in every call.
Stop ==
    /\ call # "none"
    /\ shown' = "IDLE" /\ station' = NoConn /\ GiveUp
    /\ UNCHANGED <<on, call, leaked, lost>>

Stopped ==
    /\ call = "stop" /\ shown = "IDLE" /\ station = NoConn
    /\ call' = "none" /\ MayLeak
    /\ UNCHANGED <<on, shown, station, closing, lost>>

Tune ==
    /\ call = "play" /\ shown = "IDLE" /\ station = NoConn
    /\ shown' = "CONNECTING"
    /\ UNCHANGED <<on, call, station, closing, leaked, lost>>

Open(c) ==
    /\ call = "play" /\ shown = "CONNECTING" /\ station = NoConn
    /\ c \notin closing /\ Cardinality(closing \ leaked) < Limit
    /\ station' = c
    /\ UNCHANGED <<on, call, shown, closing, leaked, lost>>

\* player_play returns with a station that is being received ...
Opened ==
    /\ call = "play" /\ shown \in {"CONNECTING", "BUFFERING"} /\ station # NoConn
    /\ call' = "none"
    /\ UNCHANGED <<on, shown, station, closing, leaked, lost>>

\* ... or with an error and none.
Refused ==
    /\ call = "play" /\ shown \in {"IDLE", "CONNECTING"} /\ station = NoConn
    /\ shown' = "ERROR" /\ call' = "none"
    /\ UNCHANGED <<on, station, closing, leaked, lost>>

ShutDown ==
    /\ call = "shutdown" /\ shown = "IDLE" /\ station = NoConn
    /\ on' = FALSE /\ call' = "none"
    /\ lost' \in BOOLEAN /\ (~lost' => closing = leaked)
    /\ UNCHANGED <<shown, station, closing, leaked>>

-----------------------------------------------------------------------------
(* What a station does by itself, also while a call is about to stop it    *)

Receiving == station # NoConn /\ shown \in {"CONNECTING", "BUFFERING", "PLAYING"}

Becomes(what) ==
    /\ Receiving
    /\ shown' = what
    /\ UNCHANGED <<on, call, station, closing, leaked, lost>>

\* It follows a playlist: from there on the status is about what it names.
Seek == shown # "PLAYING" /\ Becomes("CONNECTING")

\* The new connection takes the old one's place, unless a call has come.
Hop(c) ==
    /\ Receiving /\ shown # "PLAYING" /\ call = "none"
    /\ c \notin closing \cup {station}
    /\ station' = c /\ GiveUp
    /\ UNCHANGED <<on, call, shown, leaked, lost>>

\* It is over, which is an error, and its connection goes.
End ==
    /\ shown = "ERROR" /\ call = "none" /\ station # NoConn
    /\ station' = NoConn /\ GiveUp
    /\ UNCHANGED <<on, call, shown, leaked, lost>>

-----------------------------------------------------------------------------
(* What becomes of a connection given up                                   *)

Free(c) ==
    /\ c \in closing \ leaked
    /\ closing' = closing \ {c}
    /\ UNCHANGED <<on, call, shown, station, leaked, lost>>

Leak ==
    /\ MayLeak
    /\ UNCHANGED <<on, call, shown, station, closing, lost>>

Next ==
    \/ SwitchOn \/ (\E what \in {"play", "stop", "shutdown"} : Call(what))
    \/ Stop \/ Stopped \/ Tune \/ (\E c \in Conns : Open(c)) \/ Opened \/ Refused \/ ShutDown
    \/ Seek \/ Becomes("BUFFERING") \/ Becomes("PLAYING") \/ Becomes("ERROR")
    \/ (\E c \in Conns : Hop(c)) \/ End
    \/ (\E c \in Conns : Free(c)) \/ Leak

Spec == Init /\ [][Next]_sessionVars

=============================================================================
