---------------------------- MODULE PlayerProofs ----------------------------
(***************************************************************************)
(* Proofs about Player, for any set of addresses, any limits and any       *)
(* number of calls: types, the ownership of connections, the status, the   *)
(* count of the reaper, and the session that the caller sees.              *)
(***************************************************************************)
EXTENDS Player, FiniteSetTheorems, TLAPS

(***************************************************************************)
(* The inductive invariant.  OneOwner alone is not inductive: whether a    *)
(* step of one thread keeps it depends on where the other threads are.     *)
(***************************************************************************)

\* Phases of the UI thread: a stop is in progress; the UI thread holds the
\* connection; nothing is installed; no decode thread exists.
Stopping   == {"take", "abort", "join", "clear", "release"}
Holding    == {"abort", "join", "clear", "release"}
Detached   == {"abort", "join", "clear", "release", "reset", "open",
               "spawnError", "wait", "off"}
Threadless == {"clear", "release", "reset", "open", "spawn", "spawnError",
               "wait", "off"}

UiPhases ==
    /\ upc \in Stopping => g_stop
    /\ upc \in Detached => g_conn = NoConn
    /\ upc \notin Holding => uconn = NoConn
    /\ upc \in Threadless => dpc = "none"
    /\ upc = "spawn" => g_conn # NoConn /\ g_rb = g_conn
    /\ g_src = g_conn

Live == DecSteps \ {"none", "outRelease", "exited"}

\* A live decode thread reads the ring of the connection it was given, which is
\* installed or in the hands of the stop that will join this thread.
DecodePhases ==
    /\ dpc \in Live =>
         /\ dconn # NoConn /\ g_rb = dconn
         /\ \/ g_conn = dconn /\ upc \in {"idle", "take"}
            \/ uconn = dconn /\ upc \in {"abort", "join"}
    /\ dpc = "none" /\ upc \notin {"spawn", "take"} => g_conn = NoConn
    /\ dpc \in {"outRelease", "exited"} => (g_conn = NoConn \/ g_stop)
    /\ dpc # "none" => upc \in {"idle", "take", "abort", "join"}
    /\ dead # NoConn => dpc \in {"retire", "outRelease"}
    /\ dpc = "retire" => dead # NoConn
    /\ dpc \in {"feed", "pcm", "audio", "play", "underrun", "rebuf"} => decoder

\* What a connection's reaper and worker say about its memory.
ConnPhases ==
    \A c \in Conns :
        /\ ~alloc[c] => worker[c] = "none" /\ reaper[c] \in {"none", "drop"}
        /\ alloc[c] => reaper[c] # "drop"
        /\ reaper[c] = "free" => worker[c] = "none"

Over == {"out", "outRelease", "exited"}

\* What the status says about the thread behind it.
Status ==
    /\ NoDeadStation /\ SoundMeansPlaying /\ ContentTypeIsCurrent
    /\ dpc # "none" /\ upc = "idle" => ~g_stop
    /\ dpc \in Over /\ upc = "idle" => state = "ERROR"
    /\ state = "ERROR" => /\ dpc \in {"none"} \cup Over
                          /\ upc \in {"idle", "take", "abort", "join", "clear"}
    /\ upc \in {"release", "reset", "spawnError", "wait", "off"} => state = "IDLE"
    /\ upc \in {"open", "spawn"} => ~g_stop
    /\ dpc = "rebuf" => ~playing

Ownership == OneOwner /\ UiPhases /\ DecodePhases /\ ConnPhases

-----------------------------------------------------------------------------
(* Types                                                                   *)

\* Every step of every thread keeps the flags Boolean.
LEMMA FlagsStep == ASSUME Flags, [Next]_vars PROVE Flags'
  <1> USE DEF Flags, status, handles, ui, decode, ring, conns, shared, rest, reaperRest
  <1>1. CASE player_init
    BY <1>1, Zenon DEF player_init
  <1>2. CASE \E what \in {"play", "stop", "shutdown"} : BeginStop(what)
    BY <1>2, Zenon DEF BeginStop, Idle
  <1>3. CASE UiStep
    <2>1. CASE StopTake
      BY <2>1, Zenon DEF StopTake
    <2>2. CASE StopAbort
      BY <2>2, Zenon DEF StopAbort
    <2>3. CASE StopJoin
      BY <2>3, Zenon DEF StopJoin, Joinable
    <2>4. CASE StopClear
      BY <2>4, Zenon DEF StopClear
    <2>5. CASE StopRelease
      BY <2>5, Zenon DEF StopRelease, AfterStop, ConnRelease
    <2>6. CASE PlayReset
      BY <2>6, Zenon DEF PlayReset, StopAfterReset
    <2>7. CASE PlayRefused
      BY <2>7, Zenon DEF PlayRefused, ErrorShown
    <2>8. CASE \E c \in Conns : PlayOpens(c)
      BY <2>8, Zenon DEF PlayOpens, OpenConn, TooManyReapers
    <2>9. CASE PlaySpawns
      BY <2>9, Zenon DEF PlaySpawns
    <2>10. CASE PlayCannotSpawn
      BY <2>10, Zenon DEF PlayCannotSpawn
    <2>11. CASE PlaySpawnError
      BY <2>11, Zenon DEF PlaySpawnError
    <2>12. CASE ShutdownDone
      BY <2>12, Zenon DEF ShutdownDone
    <2> QED BY <1>3, <2>1, <2>2, <2>3, <2>4, <2>5, <2>6, <2>7, <2>8, <2>9, <2>10, <2>11, <2>12 DEF UiStep
  <1>4. CASE DecodeStep
    <2>1. CASE DecodeStart
      BY <2>1, Zenon DEF DecodeStart, Goto
    <2>2. CASE Prebuffered
      BY <2>2, Zenon DEF Prebuffered, Goto
    <2>3. CASE Drain
      BY <2>3, Zenon DEF Drain, Goto
    <2>4. CASE Drained
      BY <2>4, Zenon DEF Drained, Goto
    <2>5. CASE ClassifyPlaylist
      BY <2>5, Zenon DEF ClassifyPlaylist, TooManyHops, Goto
    <2>6. CASE ClassifyUnplayable
      BY <2>6, Zenon DEF ClassifyUnplayable, Goto
    <2>7. CASE ClassifyAudio
      BY <2>7, Zenon DEF ClassifyAudio, Goto
    <2>8. CASE SwitchReset
      BY <2>8, Zenon DEF SwitchReset, Goto
    <2>9. CASE SwitchFails
      BY <2>9, Zenon DEF SwitchFails, SwitchStopped, Goto
    <2>10. CASE SwitchRetire
      BY <2>10, Zenon DEF SwitchRetire, ConnRelease, Goto
    <2>11. CASE \E c \in Conns, k \in {"http", "hls"} : SwitchInstall(c, k)
      BY <2>11, Zenon DEF SwitchInstall, SwitchStopped, OpenConn, Goto
    <2>12. CASE FeedPcm
      BY <2>12, Zenon DEF FeedPcm, Goto
    <2>13. CASE FeedNothing
      BY <2>13, Zenon DEF FeedNothing, Goto
    <2>14. CASE FirstPcm
      BY <2>14, Zenon DEF FirstPcm, Goto
    <2>15. CASE AudioWrite
      BY <2>15, Zenon DEF AudioWrite, Goto
    <2>16. CASE PlayStopped
      BY <2>16, Zenon DEF PlayStopped, Goto
    <2>17. CASE PlayReads
      BY <2>17, Zenon DEF PlayReads, Goto
    <2>18. CASE PlayEnds
      BY <2>18, Zenon DEF PlayEnds, Goto
    <2>19. CASE PlayUnderruns
      BY <2>19, Zenon DEF PlayUnderruns, Goto
    <2>20. CASE Underrun
      BY <2>20, Zenon DEF Underrun, PlayingAfterUnderrun, Goto
    <2>21. CASE Rebuffered
      BY <2>21, Zenon DEF Rebuffered, Goto
    <2>22. CASE StreamEnds
      BY <2>22, Zenon DEF StreamEnds, Goto
    <2>23. CASE ErrorCheck
      BY <2>23, Zenon DEF ErrorCheck, Goto
    <2>24. CASE ErrorWrite
      BY <2>24, Zenon DEF ErrorWrite, Goto
    <2>25. CASE DecodeOut
      BY <2>25, Zenon DEF DecodeOut, OutTakes, Goto
    <2>26. CASE DecodeExit
      BY <2>26, Zenon DEF DecodeExit, ConnRelease, Goto
    <2> QED BY <1>4, <2>1, <2>2, <2>3, <2>4, <2>5, <2>6, <2>7, <2>8, <2>9, <2>10, <2>11, <2>12, <2>13,
         <2>14, <2>15, <2>16, <2>17, <2>18, <2>19, <2>20, <2>21, <2>22, <2>23, <2>24, <2>25, <2>26 DEF DecodeStep
  <1>5. CASE \E c \in Conns : WorkerStep(c)
    <2> PICK c \in Conns : WorkerStep(c) BY <1>5
    <2>1. CASE Announce(c)
      BY <2>1, Zenon DEF Announce, Current, StateAfterHeaders, WorkerGoes
    <2>2. CASE RingWrite(c)
      BY <2>2, Zenon DEF RingWrite, HasRoom, WorkerGoes
    <2>3. CASE TransferEnds(c)
      BY <2>3, Zenon DEF TransferEnds, Downloading, WorkerGoes
    <2>4. CASE CloseRing(c)
      BY <2>4, Zenon DEF CloseRing, WorkerGoes
    <2>5. CASE MarkFinished(c)
      BY <2>5, Zenon DEF MarkFinished, WorkerGoes
    <2> QED BY <2>1, <2>2, <2>3, <2>4, <2>5 DEF WorkerStep
  <1>6. CASE \E c \in Conns : ReaperStep(c)
    <2> PICK c \in Conns : ReaperStep(c) BY <1>6
    <2>1. CASE ReapStop(c)
      BY <2>1, Zenon DEF ReapStop
    <2>2. CASE ReapJoin(c)
      BY <2>2, Zenon DEF ReapJoin, WorkerJoinable
    <2>3. CASE ReapFree(c)
      BY <2>3, Zenon DEF ReapFree
    <2>4. CASE ReapDrop(c)
      BY <2>4, Zenon DEF ReapDrop
    <2> QED BY <2>1, <2>2, <2>3, <2>4 DEF ReaperStep
  <1>7. CASE Terminated \/ UNCHANGED vars
    BY <1>7, Zenon DEF Terminated, vars
  <1> QED BY <1>1, <1>2, <1>3, <1>4, <1>5, <1>6, <1>7 DEF Next

\* Every step keeps the types, the fill of a ring within its capacity included.
LEMMA TypeStep == ASSUME TypeOk, [Next]_vars PROVE TypeOk'
  <1>0. Flags'
    BY FlagsStep DEF TypeOk
  <1> USE <1>0, ConnsAssumption, LimitAssumption, RingAssumption
      DEF TypeOk, MaybeConn, States, Calls, UiSteps, DecSteps, WorkSteps, ReapSteps,
          status, handles, ui, decode, ring, conns, shared, rest, reaperRest
  <1>1. CASE player_init
    BY <1>1 DEF player_init
  <1>2. CASE \E what \in {"play", "stop", "shutdown"} : BeginStop(what)
    BY <1>2 DEF BeginStop, Idle
  <1>3. CASE UiStep
    <2>1. CASE StopTake
      BY <2>1 DEF StopTake
    <2>2. CASE StopAbort
      BY <2>2 DEF StopAbort
    <2>3. CASE StopJoin
      BY <2>3 DEF StopJoin, Joinable
    <2>4. CASE StopClear
      BY <2>4 DEF StopClear
    <2>5. CASE StopRelease
      BY <2>5 DEF StopRelease, AfterStop, ConnRelease
    <2>6. CASE PlayReset
      BY <2>6 DEF PlayReset, StopAfterReset
    <2>7. CASE PlayRefused
      BY <2>7 DEF PlayRefused, ErrorShown
    <2>8. CASE \E c \in Conns : PlayOpens(c)
      BY <2>8 DEF PlayOpens, OpenConn, TooManyReapers
    <2>9. CASE PlaySpawns
      BY <2>9 DEF PlaySpawns
    <2>10. CASE PlayCannotSpawn
      BY <2>10 DEF PlayCannotSpawn
    <2>11. CASE PlaySpawnError
      BY <2>11 DEF PlaySpawnError
    <2>12. CASE ShutdownDone
      BY <2>12 DEF ShutdownDone
    <2> QED BY <1>3, <2>1, <2>2, <2>3, <2>4, <2>5, <2>6, <2>7, <2>8, <2>9, <2>10, <2>11, <2>12 DEF UiStep
  <1>4. CASE DecodeStep
    <2>1. CASE DecodeStart
      BY <2>1 DEF DecodeStart, Goto
    <2>2. CASE Prebuffered
      BY <2>2 DEF Prebuffered, Goto
    <2>3. CASE Drain
      BY <2>3 DEF Drain, Goto
    <2>4. CASE Drained
      BY <2>4 DEF Drained, Goto
    <2>5. CASE ClassifyPlaylist
      BY <2>5 DEF ClassifyPlaylist, TooManyHops, Goto
    <2>6. CASE ClassifyUnplayable
      BY <2>6 DEF ClassifyUnplayable, Goto
    <2>7. CASE ClassifyAudio
      BY <2>7 DEF ClassifyAudio, Goto
    <2>8. CASE SwitchReset
      BY <2>8 DEF SwitchReset, Goto
    <2>9. CASE SwitchFails
      BY <2>9 DEF SwitchFails, SwitchStopped, Goto
    <2>10. CASE SwitchRetire
      BY <2>10 DEF SwitchRetire, ConnRelease, Goto
    <2>11. CASE \E c \in Conns, k \in {"http", "hls"} : SwitchInstall(c, k)
      BY <2>11 DEF SwitchInstall, SwitchStopped, OpenConn, Goto
    <2>12. CASE FeedPcm
      BY <2>12 DEF FeedPcm, Goto
    <2>13. CASE FeedNothing
      BY <2>13 DEF FeedNothing, Goto
    <2>14. CASE FirstPcm
      BY <2>14 DEF FirstPcm, Goto
    <2>15. CASE AudioWrite
      BY <2>15 DEF AudioWrite, Goto
    <2>16. CASE PlayStopped
      BY <2>16 DEF PlayStopped, Goto
    <2>17. CASE PlayReads
      <3>1. CASE g_rb \in Conns
        BY <2>17, <3>1 DEF PlayReads, Goto
      <3>2. CASE g_rb \notin Conns
        <4>1. fill' = fill
          BY <2>17, <3>2 DEF PlayReads
        <4> QED
          BY <2>17, <4>1, ZenonT(40) DEF PlayReads, Goto
      <3> QED BY <3>1, <3>2
    <2>18. CASE PlayEnds
      BY <2>18 DEF PlayEnds, Goto
    <2>19. CASE PlayUnderruns
      BY <2>19 DEF PlayUnderruns, Goto
    <2>20. CASE Underrun
      BY <2>20 DEF Underrun, PlayingAfterUnderrun, Goto
    <2>21. CASE Rebuffered
      BY <2>21 DEF Rebuffered, Goto
    <2>22. CASE StreamEnds
      BY <2>22 DEF StreamEnds, Goto
    <2>23. CASE ErrorCheck
      BY <2>23 DEF ErrorCheck, Goto
    <2>24. CASE ErrorWrite
      BY <2>24 DEF ErrorWrite, Goto
    <2>25. CASE DecodeOut
      BY <2>25 DEF DecodeOut, OutTakes, Goto
    <2>26. CASE DecodeExit
      BY <2>26 DEF DecodeExit, ConnRelease, Goto
    <2> QED BY <1>4, <2>1, <2>2, <2>3, <2>4, <2>5, <2>6, <2>7, <2>8, <2>9, <2>10, <2>11, <2>12, <2>13,
         <2>14, <2>15, <2>16, <2>17, <2>18, <2>19, <2>20, <2>21, <2>22, <2>23, <2>24, <2>25, <2>26 DEF DecodeStep
  <1>5. CASE \E c \in Conns : WorkerStep(c)
    <2> PICK c \in Conns : WorkerStep(c) BY <1>5
    <2>1. CASE Announce(c)
      BY <2>1 DEF Announce, Current, StateAfterHeaders, WorkerGoes
    <2>2. CASE RingWrite(c)
      BY <2>2 DEF RingWrite, HasRoom, WorkerGoes
    <2>3. CASE TransferEnds(c)
      BY <2>3 DEF TransferEnds, Downloading, WorkerGoes
    <2>4. CASE CloseRing(c)
      BY <2>4 DEF CloseRing, WorkerGoes
    <2>5. CASE MarkFinished(c)
      BY <2>5 DEF MarkFinished, WorkerGoes
    <2> QED BY <2>1, <2>2, <2>3, <2>4, <2>5 DEF WorkerStep
  <1>6. CASE \E c \in Conns : ReaperStep(c)
    <2> PICK c \in Conns : ReaperStep(c) BY <1>6
    <2>1. CASE ReapStop(c)
      BY <2>1 DEF ReapStop
    <2>2. CASE ReapJoin(c)
      BY <2>2 DEF ReapJoin, WorkerJoinable
    <2>3. CASE ReapFree(c)
      BY <2>3 DEF ReapFree
    <2>4. CASE ReapDrop(c)
      BY <2>4 DEF ReapDrop
    <2> QED BY <2>1, <2>2, <2>3, <2>4 DEF ReaperStep
  <1>7. CASE Terminated \/ UNCHANGED vars
    BY <1>7 DEF Terminated, vars
  <1> QED BY <1>1, <1>2, <1>3, <1>4, <1>5, <1>6, <1>7 DEF Next

\* They hold before player_init.
LEMMA InitTypes == Init => TypeOk
  <1> HAVE Init
  <1>1. Flags
    BY Zenon DEF Init, Flags
  <1> QED
    BY <1>1, LimitAssumption, RingAssumption
    DEF Init, TypeOk, MaybeConn, States, Calls, UiSteps, DecSteps, WorkSteps, ReapSteps

\* Every variable keeps its type, whatever the limits and however many calls.
THEOREM TypeCorrect == Spec => []TypeOk
  <1>1. TypeOk /\ [Next]_vars => TypeOk'
    BY TypeStep
  <1> QED
    BY InitTypes, <1>1, PTL DEF Spec

-----------------------------------------------------------------------------
(* Ownership                                                               *)

\* No step gives a connection a second owner or takes its last one without freeing it.
LEMMA OwnershipStep ==
    ASSUME TypeOk, Ownership, [Next]_vars PROVE Ownership'
  <1>0. TypeOk'
    BY TypeStep
  <1> USE <1>0, ConnsAssumption
      DEF TypeOk, Flags, MaybeConn, States, Calls, UiSteps, DecSteps, WorkSteps, ReapSteps,
          status, handles, ui, decode, ring, conns, shared, rest, reaperRest,
          Ownership, OneOwner, WithReaper, UiPhases, DecodePhases, ConnPhases,
          Stopping, Holding, Detached, Threadless, Live
  <1>1. CASE player_init
    BY <1>1 DEF player_init
  <1>2. CASE \E what \in {"play", "stop", "shutdown"} : BeginStop(what)
    BY <1>2 DEF BeginStop, Idle
  <1>3. CASE UiStep
    <2>1. CASE StopTake
      BY <2>1 DEF StopTake
    <2>2. CASE StopAbort
      BY <2>2 DEF StopAbort
    <2>3. CASE StopJoin
      BY <2>3 DEF StopJoin, Joinable
    <2>4. CASE StopClear
      BY <2>4 DEF StopClear
    <2>5. CASE StopRelease
      BY <2>5 DEF StopRelease, AfterStop, ConnRelease
    <2>6. CASE PlayReset
      BY <2>6 DEF PlayReset, StopAfterReset
    <2>7. CASE PlayRefused
      BY <2>7 DEF PlayRefused, ErrorShown
    <2>8. CASE \E c \in Conns : PlayOpens(c)
      BY <2>8 DEF PlayOpens, OpenConn, TooManyReapers
    <2>9. CASE PlaySpawns
      BY <2>9 DEF PlaySpawns
    <2>10. CASE PlayCannotSpawn
      BY <2>10 DEF PlayCannotSpawn
    <2>11. CASE PlaySpawnError
      BY <2>11 DEF PlaySpawnError
    <2>12. CASE ShutdownDone
      BY <2>12, SMTT(40) DEF ShutdownDone
    <2> QED BY <1>3, <2>1, <2>2, <2>3, <2>4, <2>5, <2>6, <2>7, <2>8, <2>9, <2>10, <2>11, <2>12 DEF UiStep
  <1>4. CASE DecodeStep
    <2>1. CASE DecodeStart
      BY <2>1 DEF DecodeStart, Goto
    <2>2. CASE Prebuffered
      BY <2>2 DEF Prebuffered, Goto
    <2>3. CASE Drain
      BY <2>3 DEF Drain, Goto
    <2>4. CASE Drained
      BY <2>4 DEF Drained, Goto
    <2>5. CASE ClassifyPlaylist
      BY <2>5 DEF ClassifyPlaylist, TooManyHops, Goto
    <2>6. CASE ClassifyUnplayable
      BY <2>6 DEF ClassifyUnplayable, Goto
    <2>7. CASE ClassifyAudio
      BY <2>7 DEF ClassifyAudio, Goto
    <2>8. CASE SwitchReset
      BY <2>8 DEF SwitchReset, Goto
    <2>9. CASE SwitchFails
      BY <2>9 DEF SwitchFails, SwitchStopped, Goto
    <2>10. CASE SwitchRetire
      BY <2>10 DEF SwitchRetire, ConnRelease, Goto
    <2>11. CASE \E c \in Conns, k \in {"http", "hls"} : SwitchInstall(c, k)
      BY <2>11 DEF SwitchInstall, SwitchStopped, OpenConn, Goto
    <2>12. CASE FeedPcm
      BY <2>12 DEF FeedPcm, Goto
    <2>13. CASE FeedNothing
      <3>1. CASE Goto("play")
        BY <2>13, <3>1 DEF FeedNothing, Goto
      <3>2. CASE Goto("errCheck")
        BY <2>13, <3>2 DEF FeedNothing, Goto
      <3> QED BY <2>13, <3>1, <3>2 DEF FeedNothing
    <2>14. CASE FirstPcm
      BY <2>14 DEF FirstPcm, Goto
    <2>15. CASE AudioWrite
      <3>1. CASE Goto("play")
        BY <2>15, <3>1 DEF AudioWrite, Goto
      <3>2. CASE Goto("errCheck")
        BY <2>15, <3>2 DEF AudioWrite, Goto
      <3> QED BY <2>15, <3>1, <3>2 DEF AudioWrite
    <2>16. CASE PlayStopped
      BY <2>16 DEF PlayStopped, Goto
    <2>17. CASE PlayReads
      BY <2>17 DEF PlayReads, Goto
    <2>18. CASE PlayEnds
      BY <2>18 DEF PlayEnds, Goto
    <2>19. CASE PlayUnderruns
      BY <2>19 DEF PlayUnderruns, Goto
    <2>20. CASE Underrun
      BY <2>20 DEF Underrun, PlayingAfterUnderrun, Goto
    <2>21. CASE Rebuffered
      BY <2>21 DEF Rebuffered, Goto
    <2>22. CASE StreamEnds
      BY <2>22 DEF StreamEnds, Goto
    <2>23. CASE ErrorCheck
      BY <2>23 DEF ErrorCheck, Goto
    <2>24. CASE ErrorWrite
      BY <2>24 DEF ErrorWrite, Goto
    <2>25. CASE DecodeOut
      BY <2>25 DEF DecodeOut, OutTakes, Goto
    <2>26. CASE DecodeExit
      BY <2>26 DEF DecodeExit, ConnRelease, Goto
    <2> QED BY <1>4, <2>1, <2>2, <2>3, <2>4, <2>5, <2>6, <2>7, <2>8, <2>9, <2>10, <2>11, <2>12, <2>13,
         <2>14, <2>15, <2>16, <2>17, <2>18, <2>19, <2>20, <2>21, <2>22, <2>23, <2>24, <2>25, <2>26 DEF DecodeStep
  <1>5. CASE \E c \in Conns : WorkerStep(c)
    <2> PICK c \in Conns : WorkerStep(c) BY <1>5
    <2>1. CASE Announce(c)
      BY <2>1 DEF Announce, Current, StateAfterHeaders, WorkerGoes
    <2>2. CASE RingWrite(c)
      BY <2>2 DEF RingWrite, HasRoom, WorkerGoes
    <2>3. CASE TransferEnds(c)
      BY <2>3 DEF TransferEnds, Downloading, WorkerGoes
    <2>4. CASE CloseRing(c)
      BY <2>4 DEF CloseRing, WorkerGoes
    <2>5. CASE MarkFinished(c)
      BY <2>5 DEF MarkFinished, WorkerGoes
    <2> QED BY <2>1, <2>2, <2>3, <2>4, <2>5 DEF WorkerStep
  <1>6. CASE \E c \in Conns : ReaperStep(c)
    <2> PICK c \in Conns : ReaperStep(c) BY <1>6
    <2>1. CASE ReapStop(c)
      BY <2>1 DEF ReapStop
    <2>2. CASE ReapJoin(c)
      BY <2>2 DEF ReapJoin, WorkerJoinable
    <2>3. CASE ReapFree(c)
      BY <2>3 DEF ReapFree
    <2>4. CASE ReapDrop(c)
      BY <2>4 DEF ReapDrop
    <2> QED BY <2>1, <2>2, <2>3, <2>4 DEF ReaperStep
  <1>7. CASE Terminated \/ UNCHANGED vars
    BY <1>7 DEF Terminated, vars
  <1> QED BY <1>1, <1>2, <1>3, <1>4, <1>5, <1>6, <1>7 DEF Next


-----------------------------------------------------------------------------
(* What the status line says                                               *)

\* No step leaves a status that no thread will move on.
LEMMA StatusStep ==
    ASSUME TypeOk, Ownership, Status, [Next]_vars PROVE Status'
  <1>0. TypeOk'
    BY TypeStep
  <1> USE <1>0, ConnsAssumption
      DEF TypeOk, Flags, MaybeConn, States, Calls, UiSteps, DecSteps, WorkSteps, ReapSteps,
          status, handles, ui, decode, ring, conns, shared, rest, reaperRest,
          Ownership, UiPhases, DecodePhases,
          Stopping, Holding, Detached, Threadless, Live, Status, Over,
          Idle, Busy, NoDeadStation, SoundMeansPlaying, ContentTypeIsCurrent
  <1>1. CASE player_init
    BY <1>1 DEF player_init
  <1>2. CASE \E what \in {"play", "stop", "shutdown"} : BeginStop(what)
    BY <1>2 DEF BeginStop, Idle
  <1>3. CASE UiStep
    <2>1. CASE StopTake
      BY <2>1 DEF StopTake
    <2>2. CASE StopAbort
      BY <2>2 DEF StopAbort
    <2>3. CASE StopJoin
      BY <2>3 DEF StopJoin, Joinable
    <2>4. CASE StopClear
      BY <2>4 DEF StopClear
    <2>5. CASE StopRelease
      BY <2>5 DEF StopRelease, AfterStop, ConnRelease
    <2>6. CASE PlayReset
      BY <2>6 DEF PlayReset, StopAfterReset
    <2>7. CASE PlayRefused
      BY <2>7 DEF PlayRefused, ErrorShown
    <2>8. CASE \E c \in Conns : PlayOpens(c)
      BY <2>8 DEF PlayOpens, OpenConn, TooManyReapers
    <2>9. CASE PlaySpawns
      BY <2>9 DEF PlaySpawns
    <2>10. CASE PlayCannotSpawn
      BY <2>10 DEF PlayCannotSpawn
    <2>11. CASE PlaySpawnError
      BY <2>11 DEF PlaySpawnError
    <2>12. CASE ShutdownDone
      BY <2>12 DEF ShutdownDone
    <2> QED BY <1>3, <2>1, <2>2, <2>3, <2>4, <2>5, <2>6, <2>7, <2>8, <2>9, <2>10, <2>11, <2>12 DEF UiStep
  <1>4. CASE DecodeStep
    <2>1. CASE DecodeStart
      BY <2>1 DEF DecodeStart, Goto
    <2>2. CASE Prebuffered
      BY <2>2 DEF Prebuffered, Goto
    <2>3. CASE Drain
      BY <2>3 DEF Drain, Goto
    <2>4. CASE Drained
      BY <2>4 DEF Drained, Goto
    <2>5. CASE ClassifyPlaylist
      BY <2>5 DEF ClassifyPlaylist, TooManyHops, Goto
    <2>6. CASE ClassifyUnplayable
      BY <2>6 DEF ClassifyUnplayable, Goto
    <2>7. CASE ClassifyAudio
      BY <2>7 DEF ClassifyAudio, Goto
    <2>8. CASE SwitchReset
      BY <2>8 DEF SwitchReset, Goto
    <2>9. CASE SwitchFails
      BY <2>9 DEF SwitchFails, SwitchStopped, Goto
    <2>10. CASE SwitchRetire
      BY <2>10 DEF SwitchRetire, ConnRelease, Goto
    <2>11. CASE \E c \in Conns, k \in {"http", "hls"} : SwitchInstall(c, k)
      BY <2>11 DEF SwitchInstall, SwitchStopped, OpenConn, Goto
    <2>12. CASE FeedPcm
      BY <2>12 DEF FeedPcm, Goto
    <2>13. CASE FeedNothing
      <3>1. CASE Goto("play")
        BY <2>13, <3>1 DEF FeedNothing, Goto
      <3>2. CASE Goto("errCheck")
        BY <2>13, <3>2 DEF FeedNothing, Goto
      <3> QED BY <2>13, <3>1, <3>2 DEF FeedNothing
    <2>14. CASE FirstPcm
      BY <2>14 DEF FirstPcm, Goto
    <2>15. CASE AudioWrite
      <3>1. CASE Goto("play")
        BY <2>15, <3>1 DEF AudioWrite, Goto
      <3>2. CASE Goto("errCheck")
        BY <2>15, <3>2 DEF AudioWrite, Goto
      <3> QED BY <2>15, <3>1, <3>2 DEF AudioWrite
    <2>16. CASE PlayStopped
      BY <2>16 DEF PlayStopped, Goto
    <2>17. CASE PlayReads
      BY <2>17 DEF PlayReads, Goto
    <2>18. CASE PlayEnds
      BY <2>18 DEF PlayEnds, Goto
    <2>19. CASE PlayUnderruns
      BY <2>19 DEF PlayUnderruns, Goto
    <2>20. CASE Underrun
      BY <2>20 DEF Underrun, PlayingAfterUnderrun, Goto
    <2>21. CASE Rebuffered
      BY <2>21 DEF Rebuffered, Goto
    <2>22. CASE StreamEnds
      BY <2>22 DEF StreamEnds, Goto
    <2>23. CASE ErrorCheck
      BY <2>23 DEF ErrorCheck, Goto
    <2>24. CASE ErrorWrite
      BY <2>24 DEF ErrorWrite, Goto
    <2>25. CASE DecodeOut
      BY <2>25 DEF DecodeOut, OutTakes, Goto
    <2>26. CASE DecodeExit
      BY <2>26 DEF DecodeExit, ConnRelease, Goto
    <2> QED BY <1>4, <2>1, <2>2, <2>3, <2>4, <2>5, <2>6, <2>7, <2>8, <2>9, <2>10, <2>11, <2>12, <2>13,
         <2>14, <2>15, <2>16, <2>17, <2>18, <2>19, <2>20, <2>21, <2>22, <2>23, <2>24, <2>25, <2>26 DEF DecodeStep
  <1>5. CASE \E c \in Conns : WorkerStep(c)
    <2> PICK c \in Conns : WorkerStep(c) BY <1>5
    <2>1. CASE Announce(c)
      BY <2>1 DEF Announce, Current, StateAfterHeaders, WorkerGoes
    <2>2. CASE RingWrite(c)
      BY <2>2 DEF RingWrite, HasRoom, WorkerGoes
    <2>3. CASE TransferEnds(c)
      BY <2>3 DEF TransferEnds, Downloading, WorkerGoes
    <2>4. CASE CloseRing(c)
      BY <2>4 DEF CloseRing, WorkerGoes
    <2>5. CASE MarkFinished(c)
      BY <2>5 DEF MarkFinished, WorkerGoes
    <2> QED BY <2>1, <2>2, <2>3, <2>4, <2>5 DEF WorkerStep
  <1>6. CASE \E c \in Conns : ReaperStep(c)
    <2> PICK c \in Conns : ReaperStep(c) BY <1>6
    <2>1. CASE ReapStop(c)
      BY <2>1 DEF ReapStop
    <2>2. CASE ReapJoin(c)
      BY <2>2 DEF ReapJoin, WorkerJoinable
    <2>3. CASE ReapFree(c)
      BY <2>3 DEF ReapFree
    <2>4. CASE ReapDrop(c)
      BY <2>4 DEF ReapDrop
    <2> QED BY <2>1, <2>2, <2>3, <2>4 DEF ReaperStep
  <1>7. CASE Terminated \/ UNCHANGED vars
    BY <1>7 DEF Terminated, vars
  <1> QED BY <1>1, <1>2, <1>3, <1>4, <1>5, <1>6, <1>7 DEF Next

-----------------------------------------------------------------------------
(* Counting reapers                                                        *)

Counted == g_reapers = Cardinality(Reaping)

\* The reapers are finitely many, before a step and after it.
LEMMA ReapingFinite == IsFiniteSet(Reaping) /\ IsFiniteSet(Reaping')
  BY ConnsAssumption, FS_Subset DEF Reaping

\* conn_release counts the reaper it starts.
LEMMA ReaperAdded ==
    ASSUME TypeOk, Counted, NEW c \in Conns,
           reaper[c] \notin {"stop", "join", "free", "drop"},
           reaper' = [reaper EXCEPT ![c] = "stop"],
           g_reapers' = g_reapers + 1
    PROVE  Counted'
  <1>1. Reaping' = Reaping \cup {c} /\ c \notin Reaping
    BY DEF Reaping, TypeOk
  <1>2. Cardinality(Reaping') = Cardinality(Reaping) + 1
    BY <1>1, ReapingFinite, FS_AddElement
  <1> QED
    BY <1>2 DEF Counted

\* A reaper's last statement takes it off the count.
LEMMA ReaperDropped ==
    ASSUME TypeOk, Counted, NEW c \in Conns,
           reaper[c] = "drop",
           reaper' = [reaper EXCEPT ![c] = "none"],
           g_reapers' = g_reapers - 1
    PROVE  Counted'
  <1>1. Reaping' = Reaping \ {c} /\ c \in Reaping
    BY DEF Reaping, TypeOk
  <1>2. Cardinality(Reaping') = Cardinality(Reaping) - 1
    BY <1>1, ReapingFinite, FS_RemoveElement
  <1> QED
    BY <1>2 DEF Counted

\* Only conn_release and a reaper's last statement change the count, and they
\* change it with the set of reapers.
LEMMA CountStep ==
    ASSUME TypeOk, Ownership, Counted, [Next]_vars PROVE Counted'
  <1>u. ASSUME reaper' = reaper, g_reapers' = g_reapers PROVE Counted'
    BY <1>u DEF Counted, Reaping
  <1> USE DEF TypeOk, MaybeConn, ReapSteps, Ownership,
          status, handles, ui, decode, ring, conns, shared, rest, reaperRest
  <1>1. CASE player_init
    BY <1>1, <1>u DEF player_init
  <1>2. CASE \E what \in {"play", "stop", "shutdown"} : BeginStop(what)
    BY <1>2, <1>u DEF BeginStop, Idle
  <1>3. CASE UiStep
    <2>1. CASE StopTake
      BY <2>1, <1>u DEF StopTake
    <2>2. CASE StopAbort
      BY <2>2, <1>u DEF StopAbort
    <2>3. CASE StopJoin
      BY <2>3, <1>u DEF StopJoin, Joinable
    <2>4. CASE StopClear
      BY <2>4, <1>u DEF StopClear
    <2>5. CASE StopRelease
      <3>1. CASE uconn = NoConn
        BY <2>5, <3>1, <1>u DEF StopRelease, ConnRelease
      <3>2. CASE uconn # NoConn
        <4>1. uconn \in Conns /\ reaper[uconn] \notin {"stop", "join", "free", "drop"}
          BY <3>2, ConnsAssumption DEF OneOwner, WithReaper, ConnPhases
        <4>2. CASE g_reapers' = g_reapers /\ reaper' = [reaper EXCEPT ![uconn] = "leaked"]
          <5>1. Reaping' = Reaping
            BY <4>1, <4>2 DEF Reaping
          <5> QED BY <4>2, <5>1 DEF Counted
        <4>3. CASE g_reapers' = g_reapers + 1 /\ reaper' = [reaper EXCEPT ![uconn] = "stop"]
          BY <4>1, <4>3, ReaperAdded
        <4> QED BY <2>5, <3>2, <4>2, <4>3 DEF StopRelease, ConnRelease
      <3> QED BY <3>1, <3>2
    <2>6. CASE PlayReset
      BY <2>6, <1>u DEF PlayReset, StopAfterReset
    <2>7. CASE PlayRefused
      BY <2>7, <1>u DEF PlayRefused, ErrorShown
    <2>8. CASE \E c \in Conns : PlayOpens(c)
      BY <2>8, <1>u DEF PlayOpens, OpenConn, TooManyReapers
    <2>9. CASE PlaySpawns
      BY <2>9, <1>u DEF PlaySpawns
    <2>10. CASE PlayCannotSpawn
      BY <2>10, <1>u DEF PlayCannotSpawn
    <2>11. CASE PlaySpawnError
      BY <2>11, <1>u DEF PlaySpawnError
    <2>12. CASE ShutdownDone
      BY <2>12, <1>u DEF ShutdownDone
    <2> QED BY <1>3, <2>1, <2>2, <2>3, <2>4, <2>5, <2>6, <2>7, <2>8, <2>9, <2>10, <2>11, <2>12 DEF UiStep
  <1>4. CASE DecodeStep
    <2>1. CASE DecodeStart
      BY <2>1, <1>u DEF DecodeStart, Goto
    <2>2. CASE Prebuffered
      BY <2>2, <1>u DEF Prebuffered, Goto
    <2>3. CASE Drain
      BY <2>3, <1>u DEF Drain, Goto
    <2>4. CASE Drained
      BY <2>4, <1>u DEF Drained, Goto
    <2>5. CASE ClassifyPlaylist
      BY <2>5, <1>u DEF ClassifyPlaylist, TooManyHops, Goto
    <2>6. CASE ClassifyUnplayable
      BY <2>6, <1>u DEF ClassifyUnplayable, Goto
    <2>7. CASE ClassifyAudio
      BY <2>7, <1>u DEF ClassifyAudio, Goto
    <2>8. CASE SwitchReset
      BY <2>8, <1>u DEF SwitchReset, Goto
    <2>9. CASE SwitchFails
      BY <2>9, <1>u DEF SwitchFails, SwitchStopped, Goto
    <2>10. CASE SwitchRetire
      <3>1. CASE dead = NoConn
        BY <2>10, <3>1, <1>u DEF SwitchRetire, ConnRelease
      <3>2. CASE dead # NoConn
        <4>1. dead \in Conns /\ reaper[dead] \notin {"stop", "join", "free", "drop"}
          BY <3>2, ConnsAssumption DEF OneOwner, WithReaper, ConnPhases
        <4>2. CASE g_reapers' = g_reapers /\ reaper' = [reaper EXCEPT ![dead] = "leaked"]
          <5>1. Reaping' = Reaping
            BY <4>1, <4>2 DEF Reaping
          <5> QED BY <4>2, <5>1 DEF Counted
        <4>3. CASE g_reapers' = g_reapers + 1 /\ reaper' = [reaper EXCEPT ![dead] = "stop"]
          BY <4>1, <4>3, ReaperAdded
        <4> QED BY <2>10, <3>2, <4>2, <4>3 DEF SwitchRetire, ConnRelease
      <3> QED BY <3>1, <3>2
    <2>11. CASE \E c \in Conns, k \in {"http", "hls"} : SwitchInstall(c, k)
      BY <2>11, <1>u DEF SwitchInstall, SwitchStopped, OpenConn, Goto
    <2>12. CASE FeedPcm
      BY <2>12, <1>u DEF FeedPcm, Goto
    <2>13. CASE FeedNothing
      BY <2>13, <1>u DEF FeedNothing, Goto
    <2>14. CASE FirstPcm
      BY <2>14, <1>u DEF FirstPcm, Goto
    <2>15. CASE AudioWrite
      BY <2>15, <1>u DEF AudioWrite, Goto
    <2>16. CASE PlayStopped
      BY <2>16, <1>u DEF PlayStopped, Goto
    <2>17. CASE PlayReads
      BY <2>17, <1>u DEF PlayReads, Goto
    <2>18. CASE PlayEnds
      BY <2>18, <1>u DEF PlayEnds, Goto
    <2>19. CASE PlayUnderruns
      BY <2>19, <1>u DEF PlayUnderruns, Goto
    <2>20. CASE Underrun
      BY <2>20, <1>u DEF Underrun, PlayingAfterUnderrun, Goto
    <2>21. CASE Rebuffered
      BY <2>21, <1>u DEF Rebuffered, Goto
    <2>22. CASE StreamEnds
      BY <2>22, <1>u DEF StreamEnds, Goto
    <2>23. CASE ErrorCheck
      BY <2>23, <1>u DEF ErrorCheck, Goto
    <2>24. CASE ErrorWrite
      BY <2>24, <1>u DEF ErrorWrite, Goto
    <2>25. CASE DecodeOut
      BY <2>25, <1>u DEF DecodeOut, OutTakes, Goto
    <2>26. CASE DecodeExit
      <3>1. CASE dead = NoConn
        BY <2>26, <3>1, <1>u DEF DecodeExit, ConnRelease
      <3>2. CASE dead # NoConn
        <4>1. dead \in Conns /\ reaper[dead] \notin {"stop", "join", "free", "drop"}
          BY <3>2, ConnsAssumption DEF OneOwner, WithReaper, ConnPhases
        <4>2. CASE g_reapers' = g_reapers /\ reaper' = [reaper EXCEPT ![dead] = "leaked"]
          <5>1. Reaping' = Reaping
            BY <4>1, <4>2 DEF Reaping
          <5> QED BY <4>2, <5>1 DEF Counted
        <4>3. CASE g_reapers' = g_reapers + 1 /\ reaper' = [reaper EXCEPT ![dead] = "stop"]
          BY <4>1, <4>3, ReaperAdded
        <4> QED BY <2>26, <3>2, <4>2, <4>3 DEF DecodeExit, ConnRelease
      <3> QED BY <3>1, <3>2
    <2> QED BY <1>4, <2>1, <2>2, <2>3, <2>4, <2>5, <2>6, <2>7, <2>8, <2>9, <2>10, <2>11, <2>12, <2>13,
         <2>14, <2>15, <2>16, <2>17, <2>18, <2>19, <2>20, <2>21, <2>22, <2>23, <2>24, <2>25, <2>26 DEF DecodeStep
  <1>5. CASE \E c \in Conns : WorkerStep(c)
    <2> PICK c \in Conns : WorkerStep(c) BY <1>5
    <2>1. CASE Announce(c)
      BY <2>1, <1>u DEF Announce, Current, StateAfterHeaders, WorkerGoes
    <2>2. CASE RingWrite(c)
      BY <2>2, <1>u DEF RingWrite, HasRoom, WorkerGoes
    <2>3. CASE TransferEnds(c)
      BY <2>3, <1>u DEF TransferEnds, Downloading, WorkerGoes
    <2>4. CASE CloseRing(c)
      BY <2>4, <1>u DEF CloseRing, WorkerGoes
    <2>5. CASE MarkFinished(c)
      BY <2>5, <1>u DEF MarkFinished, WorkerGoes
    <2> QED BY <2>1, <2>2, <2>3, <2>4, <2>5 DEF WorkerStep
  <1>6. CASE \E c \in Conns : ReaperStep(c)
    <2> PICK c \in Conns : ReaperStep(c) BY <1>6
    <2>1. CASE ReapStop(c)
      <3>1. Reaping' = Reaping
        BY <2>1 DEF ReapStop, Reaping
      <3> QED BY <2>1, <3>1 DEF ReapStop, Counted
    <2>2. CASE ReapJoin(c)
      <3>1. Reaping' = Reaping
        BY <2>2 DEF ReapJoin, Reaping
      <3> QED BY <2>2, <3>1 DEF ReapJoin, Counted
    <2>3. CASE ReapFree(c)
      <3>1. Reaping' = Reaping
        BY <2>3 DEF ReapFree, Reaping
      <3> QED BY <2>3, <3>1 DEF ReapFree, Counted
    <2>4. CASE ReapDrop(c)
      BY <2>4, ReaperDropped DEF ReapDrop
    <2> QED BY <2>1, <2>2, <2>3, <2>4 DEF ReaperStep
  <1>7. CASE Terminated \/ UNCHANGED vars
    BY <1>7, <1>u DEF Terminated, vars
  <1> QED BY <1>1, <1>2, <1>3, <1>4, <1>5, <1>6, <1>7 DEF Next

\* Room under the cap: while a connection is still to be released there is room
\* for one reaper more, and before that for one for each hop left.
Held == g_conn # NoConn \/ uconn # NoConn \/ dead # NoConn

Room ==
    /\ g_reapers <= MAX_REAPERS + MAX_SOURCE_HOPS
    /\ Held => g_reapers <= MAX_REAPERS + MAX_SOURCE_HOPS - 1
    /\ dpc \in {"start", "prebuf", "drain", "drained", "empty", "classify"}
          => hops <= MAX_SOURCE_HOPS /\ g_reapers <= MAX_REAPERS - 1 + hops
    /\ dpc \in {"swap", "attach", "retire"}
          => hops <= MAX_SOURCE_HOPS /\ g_reapers <= MAX_REAPERS - 2 + hops
    /\ dpc \in {"none", "exited"} => hops = 0
    /\ dpc = "outRelease" /\ dead # NoConn => g_conn = NoConn /\ uconn = NoConn
    /\ upc = "spawn" => g_reapers <= MAX_REAPERS - 1
    /\ upc = "off" /\ ~timedOut => \A c \in Conns : reaper[c] \in {"none", "leaked"}

\* A count of zero means that no reaper is left but those of leaked connections.
LEMMA NoneReaping ==
    ASSUME TypeOk, Counted, g_reapers = 0
    PROVE  \A c \in Conns : reaper[c] \in {"none", "leaked"}
  <1>1. Reaping = {}
    BY ReapingFinite, FS_EmptySet DEF Counted
  <1> QED
    BY <1>1 DEF Reaping, TypeOk, ReapSteps

\* No step takes the count past what one station's hops can add to the cap.
LEMMA RoomStep ==
    ASSUME TypeOk, Ownership, Counted, Room, [Next]_vars PROVE Room'
  <1>0. TypeOk'
    BY TypeStep
  <1> USE <1>0, NoneReaping, ConnsAssumption, LimitAssumption
      DEF TypeOk, Flags, MaybeConn, States, Calls, UiSteps, DecSteps, WorkSteps, ReapSteps,
          status, handles, ui, decode, ring, conns, shared, rest, reaperRest,
          Ownership, OneOwner, UiPhases, DecodePhases,
          Stopping, Holding, Detached, Threadless, Live, Held, Room
  <1>1. CASE player_init
    BY <1>1 DEF player_init
  <1>2. CASE \E what \in {"play", "stop", "shutdown"} : BeginStop(what)
    BY <1>2 DEF BeginStop, Idle
  <1>3. CASE UiStep
    <2>1. CASE StopTake
      BY <2>1 DEF StopTake
    <2>2. CASE StopAbort
      BY <2>2 DEF StopAbort
    <2>3. CASE StopJoin
      BY <2>3 DEF StopJoin, Joinable
    <2>4. CASE StopClear
      BY <2>4 DEF StopClear
    <2>5. CASE StopRelease
      BY <2>5 DEF StopRelease, AfterStop, ConnRelease
    <2>6. CASE PlayReset
      BY <2>6 DEF PlayReset, StopAfterReset
    <2>7. CASE PlayRefused
      BY <2>7 DEF PlayRefused, ErrorShown
    <2>8. CASE \E c \in Conns : PlayOpens(c)
      BY <2>8 DEF PlayOpens, OpenConn, TooManyReapers
    <2>9. CASE PlaySpawns
      BY <2>9 DEF PlaySpawns
    <2>10. CASE PlayCannotSpawn
      BY <2>10 DEF PlayCannotSpawn
    <2>11. CASE PlaySpawnError
      BY <2>11 DEF PlaySpawnError
    <2>12. CASE ShutdownDone
      BY <2>12 DEF ShutdownDone
    <2> QED BY <1>3, <2>1, <2>2, <2>3, <2>4, <2>5, <2>6, <2>7, <2>8, <2>9, <2>10, <2>11, <2>12 DEF UiStep
  <1>4. CASE DecodeStep
    <2>1. CASE DecodeStart
      BY <2>1, ZenonT(30) DEF DecodeStart, Goto
    <2>2. CASE Prebuffered
      BY <2>2 DEF Prebuffered, Goto
    <2>3. CASE Drain
      BY <2>3, ZenonT(30) DEF Drain, Goto
    <2>4. CASE Drained
      BY <2>4 DEF Drained, Goto
    <2>5. CASE ClassifyPlaylist
      BY <2>5 DEF ClassifyPlaylist, TooManyHops, Goto
    <2>6. CASE ClassifyUnplayable
      BY <2>6 DEF ClassifyUnplayable, Goto
    <2>7. CASE ClassifyAudio
      BY <2>7 DEF ClassifyAudio, Goto
    <2>8. CASE SwitchReset
      BY <2>8 DEF SwitchReset, Goto
    <2>9. CASE SwitchFails
      BY <2>9 DEF SwitchFails, SwitchStopped, Goto
    <2>10. CASE SwitchRetire
      BY <2>10 DEF SwitchRetire, ConnRelease, Goto
    <2>11. CASE \E c \in Conns, k \in {"http", "hls"} : SwitchInstall(c, k)
      BY <2>11 DEF SwitchInstall, SwitchStopped, OpenConn, Goto
    <2>12. CASE FeedPcm
      BY <2>12 DEF FeedPcm, Goto
    <2>13. CASE FeedNothing
      <3>1. CASE Goto("play")
        BY <2>13, <3>1 DEF FeedNothing, Goto
      <3>2. CASE Goto("errCheck")
        BY <2>13, <3>2 DEF FeedNothing, Goto
      <3> QED BY <2>13, <3>1, <3>2 DEF FeedNothing
    <2>14. CASE FirstPcm
      BY <2>14 DEF FirstPcm, Goto
    <2>15. CASE AudioWrite
      <3>1. CASE Goto("play")
        BY <2>15, <3>1 DEF AudioWrite, Goto
      <3>2. CASE Goto("errCheck")
        BY <2>15, <3>2 DEF AudioWrite, Goto
      <3> QED BY <2>15, <3>1, <3>2 DEF AudioWrite
    <2>16. CASE PlayStopped
      BY <2>16 DEF PlayStopped, Goto
    <2>17. CASE PlayReads
      BY <2>17 DEF PlayReads, Goto
    <2>18. CASE PlayEnds
      BY <2>18 DEF PlayEnds, Goto
    <2>19. CASE PlayUnderruns
      BY <2>19 DEF PlayUnderruns, Goto
    <2>20. CASE Underrun
      BY <2>20 DEF Underrun, PlayingAfterUnderrun, Goto
    <2>21. CASE Rebuffered
      BY <2>21 DEF Rebuffered, Goto
    <2>22. CASE StreamEnds
      BY <2>22 DEF StreamEnds, Goto
    <2>23. CASE ErrorCheck
      BY <2>23 DEF ErrorCheck, Goto
    <2>24. CASE ErrorWrite
      BY <2>24 DEF ErrorWrite, Goto
    <2>25. CASE DecodeOut
      BY <2>25 DEF DecodeOut, OutTakes, Goto
    <2>26. CASE DecodeExit
      BY <2>26 DEF DecodeExit, ConnRelease, Goto
    <2> QED BY <1>4, <2>1, <2>2, <2>3, <2>4, <2>5, <2>6, <2>7, <2>8, <2>9, <2>10, <2>11, <2>12, <2>13,
         <2>14, <2>15, <2>16, <2>17, <2>18, <2>19, <2>20, <2>21, <2>22, <2>23, <2>24, <2>25, <2>26 DEF DecodeStep
  <1>5. CASE \E c \in Conns : WorkerStep(c)
    <2> PICK c \in Conns : WorkerStep(c) BY <1>5
    <2>1. CASE Announce(c)
      BY <2>1 DEF Announce, Current, StateAfterHeaders, WorkerGoes
    <2>2. CASE RingWrite(c)
      BY <2>2 DEF RingWrite, HasRoom, WorkerGoes
    <2>3. CASE TransferEnds(c)
      BY <2>3 DEF TransferEnds, Downloading, WorkerGoes
    <2>4. CASE CloseRing(c)
      BY <2>4 DEF CloseRing, WorkerGoes
    <2>5. CASE MarkFinished(c)
      BY <2>5 DEF MarkFinished, WorkerGoes
    <2> QED BY <2>1, <2>2, <2>3, <2>4, <2>5 DEF WorkerStep
  <1>6. CASE \E c \in Conns : ReaperStep(c)
    <2> PICK c \in Conns : ReaperStep(c) BY <1>6
    <2>1. CASE ReapStop(c)
      BY <2>1 DEF ReapStop
    <2>2. CASE ReapJoin(c)
      BY <2>2 DEF ReapJoin, WorkerJoinable
    <2>3. CASE ReapFree(c)
      BY <2>3 DEF ReapFree
    <2>4. CASE ReapDrop(c)
      BY <2>4 DEF ReapDrop
    <2> QED BY <2>1, <2>2, <2>3, <2>4 DEF ReaperStep
  <1>7. CASE Terminated \/ UNCHANGED vars
    BY ONLY Room, <1>7 DEF Terminated, vars
  <1> QED BY <1>1, <1>2, <1>3, <1>4, <1>5, <1>6, <1>7 DEF Next


-----------------------------------------------------------------------------
(* What becomes of an error                                                *)

\* Until player_stop or player_play clears it, no step of any thread overwrites an error.
LEMMA ErrorStep ==
    ASSUME Status, [Next]_vars, state = "ERROR", upc # "clear"
    PROVE  state' = "ERROR"
  <1> USE DEF Status, Over, status, handles, ui, decode, ring, conns, shared, rest, reaperRest
  <1>1. CASE player_init
    BY <1>1 DEF player_init
  <1>2. CASE \E what \in {"play", "stop", "shutdown"} : BeginStop(what)
    BY <1>2 DEF BeginStop, Idle
  <1>3. CASE UiStep
    <2>1. CASE StopTake
      BY <2>1 DEF StopTake
    <2>2. CASE StopAbort
      BY <2>2 DEF StopAbort
    <2>3. CASE StopJoin
      BY <2>3 DEF StopJoin, Joinable
    <2>4. CASE StopClear
      BY <2>4 DEF StopClear
    <2>5. CASE StopRelease
      BY <2>5 DEF StopRelease, AfterStop, ConnRelease
    <2>6. CASE PlayReset
      BY <2>6 DEF PlayReset, StopAfterReset
    <2>7. CASE PlayRefused
      BY <2>7 DEF PlayRefused, ErrorShown
    <2>8. CASE \E c \in Conns : PlayOpens(c)
      BY <2>8 DEF PlayOpens, OpenConn, TooManyReapers
    <2>9. CASE PlaySpawns
      BY <2>9 DEF PlaySpawns
    <2>10. CASE PlayCannotSpawn
      BY <2>10 DEF PlayCannotSpawn
    <2>11. CASE PlaySpawnError
      BY <2>11 DEF PlaySpawnError
    <2>12. CASE ShutdownDone
      BY <2>12 DEF ShutdownDone
    <2> QED BY <1>3, <2>1, <2>2, <2>3, <2>4, <2>5, <2>6, <2>7, <2>8, <2>9, <2>10, <2>11, <2>12 DEF UiStep
  <1>4. CASE DecodeStep
    <2>1. CASE DecodeStart
      BY <2>1 DEF DecodeStart, Goto
    <2>2. CASE Prebuffered
      BY <2>2 DEF Prebuffered, Goto
    <2>3. CASE Drain
      BY <2>3 DEF Drain, Goto
    <2>4. CASE Drained
      BY <2>4 DEF Drained, Goto
    <2>5. CASE ClassifyPlaylist
      BY <2>5 DEF ClassifyPlaylist, TooManyHops, Goto
    <2>6. CASE ClassifyUnplayable
      BY <2>6 DEF ClassifyUnplayable, Goto
    <2>7. CASE ClassifyAudio
      BY <2>7 DEF ClassifyAudio, Goto
    <2>8. CASE SwitchReset
      BY <2>8 DEF SwitchReset, Goto
    <2>9. CASE SwitchFails
      BY <2>9 DEF SwitchFails, SwitchStopped, Goto
    <2>10. CASE SwitchRetire
      BY <2>10 DEF SwitchRetire, ConnRelease, Goto
    <2>11. CASE \E c \in Conns, k \in {"http", "hls"} : SwitchInstall(c, k)
      BY <2>11 DEF SwitchInstall, SwitchStopped, OpenConn, Goto
    <2>12. CASE FeedPcm
      BY <2>12 DEF FeedPcm, Goto
    <2>13. CASE FeedNothing
      BY <2>13 DEF FeedNothing, Goto
    <2>14. CASE FirstPcm
      BY <2>14 DEF FirstPcm, Goto
    <2>15. CASE AudioWrite
      BY <2>15 DEF AudioWrite, Goto
    <2>16. CASE PlayStopped
      BY <2>16 DEF PlayStopped, Goto
    <2>17. CASE PlayReads
      BY <2>17 DEF PlayReads, Goto
    <2>18. CASE PlayEnds
      BY <2>18 DEF PlayEnds, Goto
    <2>19. CASE PlayUnderruns
      BY <2>19 DEF PlayUnderruns, Goto
    <2>20. CASE Underrun
      BY <2>20 DEF Underrun, PlayingAfterUnderrun, Goto
    <2>21. CASE Rebuffered
      BY <2>21 DEF Rebuffered, Goto
    <2>22. CASE StreamEnds
      BY <2>22 DEF StreamEnds, Goto
    <2>23. CASE ErrorCheck
      BY <2>23 DEF ErrorCheck, Goto
    <2>24. CASE ErrorWrite
      BY <2>24 DEF ErrorWrite, Goto
    <2>25. CASE DecodeOut
      BY <2>25 DEF DecodeOut, OutTakes, Goto
    <2>26. CASE DecodeExit
      BY <2>26 DEF DecodeExit, ConnRelease, Goto
    <2> QED BY <1>4, <2>1, <2>2, <2>3, <2>4, <2>5, <2>6, <2>7, <2>8, <2>9, <2>10, <2>11, <2>12, <2>13,
         <2>14, <2>15, <2>16, <2>17, <2>18, <2>19, <2>20, <2>21, <2>22, <2>23, <2>24, <2>25, <2>26 DEF DecodeStep
  <1>5. CASE \E c \in Conns : WorkerStep(c)
    <2> PICK c \in Conns : WorkerStep(c) BY <1>5
    <2>1. CASE Announce(c)
      BY <2>1 DEF Announce, Current, StateAfterHeaders, WorkerGoes
    <2>2. CASE RingWrite(c)
      BY <2>2 DEF RingWrite, HasRoom, WorkerGoes
    <2>3. CASE TransferEnds(c)
      BY <2>3 DEF TransferEnds, Downloading, WorkerGoes
    <2>4. CASE CloseRing(c)
      BY <2>4 DEF CloseRing, WorkerGoes
    <2>5. CASE MarkFinished(c)
      BY <2>5 DEF MarkFinished, WorkerGoes
    <2> QED BY <2>1, <2>2, <2>3, <2>4, <2>5 DEF WorkerStep
  <1>6. CASE \E c \in Conns : ReaperStep(c)
    <2> PICK c \in Conns : ReaperStep(c) BY <1>6
    <2>1. CASE ReapStop(c)
      BY <2>1 DEF ReapStop
    <2>2. CASE ReapJoin(c)
      BY <2>2 DEF ReapJoin, WorkerJoinable
    <2>3. CASE ReapFree(c)
      BY <2>3 DEF ReapFree
    <2>4. CASE ReapDrop(c)
      BY <2>4 DEF ReapDrop
    <2> QED BY <2>1, <2>2, <2>3, <2>4 DEF ReaperStep
  <1>7. CASE Terminated \/ UNCHANGED vars
    BY <1>7 DEF Terminated, vars
  <1> QED BY <1>1, <1>2, <1>3, <1>4, <1>5, <1>6, <1>7 DEF Next

-----------------------------------------------------------------------------
(* The session the caller sees                                             *)

\* Which call the UI thread is in, by where it is.
CallPhases ==
    /\ call = "none" <=> upc \in {"idle", "off"}
    /\ upc \in {"reset", "open", "spawn"} => call = "play"
    /\ upc = "spawnError" => call = "spawnFailed"
    /\ upc = "wait" => call = "shutdown"

\* From the moment a stop starts a new generation until the next connection is
\* opened, every connection is of an older one.
NoneCurrent ==
    \A c \in Conns : /\ gen[c] <= g_gen
                     /\ upc \in {"release", "reset", "open"} => gen[c] < g_gen

\* The decode thread has not heard the source yet; it is at work.
Before  == {"start", "prebuf", "drain", "drained", "empty", "classify", "swap", "attach",
            "retire"}
Working == Live \ {"out"}

\* What the status says while a station is opened and until it is over.
Manned ==
    /\ upc = "open" => state = "CONNECTING"
    /\ upc = "spawn" => state \in {"CONNECTING", "BUFFERING"}
    /\ dpc \in Before => state \in {"CONNECTING", "BUFFERING"}
    /\ dpc \in Working => state \in Busy
    /\ state \in Busy => Station # NoConn \/ upc = "open"

Facing == CallPhases /\ NoneCurrent /\ Manned

\* Every step keeps the call with the place.
LEMMA CallPhasesStep ==
    ASSUME TypeOk, CallPhases, [Next]_vars PROVE CallPhases'
  <1> USE DEF CallPhases, TypeOk, Calls, UiSteps, status, handles, ui, decode, ring, conns, shared, rest,
          reaperRest
  <1>1. CASE player_init
    BY <1>1 DEF player_init
  <1>2. CASE \E what \in {"play", "stop", "shutdown"} : BeginStop(what)
    BY <1>2 DEF BeginStop, Idle
  <1>3. CASE UiStep
    <2>1. CASE StopTake
      BY <2>1 DEF StopTake
    <2>2. CASE StopAbort
      BY <2>2 DEF StopAbort
    <2>3. CASE StopJoin
      BY <2>3 DEF StopJoin, Joinable
    <2>4. CASE StopClear
      BY <2>4 DEF StopClear
    <2>5. CASE StopRelease
      BY <2>5 DEF StopRelease, AfterStop, ConnRelease
    <2>6. CASE PlayReset
      BY <2>6 DEF PlayReset, StopAfterReset
    <2>7. CASE PlayRefused
      BY <2>7 DEF PlayRefused, ErrorShown
    <2>8. CASE \E c \in Conns : PlayOpens(c)
      BY <2>8 DEF PlayOpens, OpenConn, TooManyReapers
    <2>9. CASE PlaySpawns
      BY <2>9 DEF PlaySpawns
    <2>10. CASE PlayCannotSpawn
      BY <2>10 DEF PlayCannotSpawn
    <2>11. CASE PlaySpawnError
      BY <2>11 DEF PlaySpawnError
    <2>12. CASE ShutdownDone
      BY <2>12 DEF ShutdownDone
    <2> QED BY <1>3, <2>1, <2>2, <2>3, <2>4, <2>5, <2>6, <2>7, <2>8, <2>9, <2>10, <2>11, <2>12 DEF UiStep
  <1>4. CASE DecodeStep
    <2>1. CASE DecodeStart
      BY <2>1 DEF DecodeStart, Goto
    <2>2. CASE Prebuffered
      BY <2>2 DEF Prebuffered, Goto
    <2>3. CASE Drain
      BY <2>3 DEF Drain, Goto
    <2>4. CASE Drained
      BY <2>4 DEF Drained, Goto
    <2>5. CASE ClassifyPlaylist
      BY <2>5 DEF ClassifyPlaylist, TooManyHops, Goto
    <2>6. CASE ClassifyUnplayable
      BY <2>6 DEF ClassifyUnplayable, Goto
    <2>7. CASE ClassifyAudio
      BY <2>7 DEF ClassifyAudio, Goto
    <2>8. CASE SwitchReset
      BY <2>8 DEF SwitchReset, Goto
    <2>9. CASE SwitchFails
      BY <2>9 DEF SwitchFails, SwitchStopped, Goto
    <2>10. CASE SwitchRetire
      BY <2>10 DEF SwitchRetire, ConnRelease, Goto
    <2>11. CASE \E c \in Conns, k \in {"http", "hls"} : SwitchInstall(c, k)
      BY <2>11 DEF SwitchInstall, SwitchStopped, OpenConn, Goto
    <2>12. CASE FeedPcm
      BY <2>12 DEF FeedPcm, Goto
    <2>13. CASE FeedNothing
      BY <2>13 DEF FeedNothing, Goto
    <2>14. CASE FirstPcm
      BY <2>14 DEF FirstPcm, Goto
    <2>15. CASE AudioWrite
      BY <2>15 DEF AudioWrite, Goto
    <2>16. CASE PlayStopped
      BY <2>16 DEF PlayStopped, Goto
    <2>17. CASE PlayReads
      BY <2>17 DEF PlayReads, Goto
    <2>18. CASE PlayEnds
      BY <2>18 DEF PlayEnds, Goto
    <2>19. CASE PlayUnderruns
      BY <2>19 DEF PlayUnderruns, Goto
    <2>20. CASE Underrun
      BY <2>20 DEF Underrun, PlayingAfterUnderrun, Goto
    <2>21. CASE Rebuffered
      BY <2>21 DEF Rebuffered, Goto
    <2>22. CASE StreamEnds
      BY <2>22 DEF StreamEnds, Goto
    <2>23. CASE ErrorCheck
      BY <2>23 DEF ErrorCheck, Goto
    <2>24. CASE ErrorWrite
      BY <2>24 DEF ErrorWrite, Goto
    <2>25. CASE DecodeOut
      BY <2>25 DEF DecodeOut, OutTakes, Goto
    <2>26. CASE DecodeExit
      BY <2>26 DEF DecodeExit, ConnRelease, Goto
    <2> QED BY <1>4, <2>1, <2>2, <2>3, <2>4, <2>5, <2>6, <2>7, <2>8, <2>9, <2>10, <2>11, <2>12, <2>13,
         <2>14, <2>15, <2>16, <2>17, <2>18, <2>19, <2>20, <2>21, <2>22, <2>23, <2>24, <2>25, <2>26 DEF DecodeStep
  <1>5. CASE \E c \in Conns : WorkerStep(c)
    <2> PICK c \in Conns : WorkerStep(c) BY <1>5
    <2>1. CASE Announce(c)
      BY <2>1 DEF Announce, Current, StateAfterHeaders, WorkerGoes
    <2>2. CASE RingWrite(c)
      BY <2>2 DEF RingWrite, HasRoom, WorkerGoes
    <2>3. CASE TransferEnds(c)
      BY <2>3 DEF TransferEnds, Downloading, WorkerGoes
    <2>4. CASE CloseRing(c)
      BY <2>4 DEF CloseRing, WorkerGoes
    <2>5. CASE MarkFinished(c)
      BY <2>5 DEF MarkFinished, WorkerGoes
    <2> QED BY <2>1, <2>2, <2>3, <2>4, <2>5 DEF WorkerStep
  <1>6. CASE \E c \in Conns : ReaperStep(c)
    <2> PICK c \in Conns : ReaperStep(c) BY <1>6
    <2>1. CASE ReapStop(c)
      BY <2>1 DEF ReapStop
    <2>2. CASE ReapJoin(c)
      BY <2>2 DEF ReapJoin, WorkerJoinable
    <2>3. CASE ReapFree(c)
      BY <2>3 DEF ReapFree
    <2>4. CASE ReapDrop(c)
      BY <2>4 DEF ReapDrop
    <2> QED BY <2>1, <2>2, <2>3, <2>4 DEF ReaperStep
  <1>7. CASE Terminated \/ UNCHANGED vars
    BY <1>7 DEF Terminated, vars
  <1> QED BY <1>1, <1>2, <1>3, <1>4, <1>5, <1>6, <1>7 DEF Next

\* Only OpenConn makes a connection of the current generation.
LEMMA NoneCurrentStep ==
    ASSUME TypeOk, Ownership, NoneCurrent, [Next]_vars PROVE NoneCurrent'
  <1>0. TypeOk'
    BY TypeStep
  <1> USE <1>0 DEF NoneCurrent, TypeOk, UiSteps, DecSteps, Ownership, UiPhases, DecodePhases, Threadless, Live,
          status, handles, ui, decode, ring, conns, shared, rest, reaperRest
  <1>1. CASE player_init
    BY <1>1 DEF player_init
  <1>2. CASE \E what \in {"play", "stop", "shutdown"} : BeginStop(what)
    BY <1>2 DEF BeginStop, Idle
  <1>3. CASE UiStep
    <2>1. CASE StopTake
      BY <2>1 DEF StopTake
    <2>2. CASE StopAbort
      BY <2>2 DEF StopAbort
    <2>3. CASE StopJoin
      BY <2>3 DEF StopJoin, Joinable
    <2>4. CASE StopClear
      BY <2>4 DEF StopClear
    <2>5. CASE StopRelease
      BY <2>5 DEF StopRelease, AfterStop, ConnRelease
    <2>6. CASE PlayReset
      BY <2>6 DEF PlayReset, StopAfterReset
    <2>7. CASE PlayRefused
      BY <2>7 DEF PlayRefused, ErrorShown
    <2>8. CASE \E c \in Conns : PlayOpens(c)
      BY <2>8 DEF PlayOpens, OpenConn, TooManyReapers
    <2>9. CASE PlaySpawns
      BY <2>9 DEF PlaySpawns
    <2>10. CASE PlayCannotSpawn
      BY <2>10 DEF PlayCannotSpawn
    <2>11. CASE PlaySpawnError
      BY <2>11 DEF PlaySpawnError
    <2>12. CASE ShutdownDone
      BY <2>12 DEF ShutdownDone
    <2> QED BY <1>3, <2>1, <2>2, <2>3, <2>4, <2>5, <2>6, <2>7, <2>8, <2>9, <2>10, <2>11, <2>12 DEF UiStep
  <1>4. CASE DecodeStep
    <2>1. CASE DecodeStart
      BY <2>1 DEF DecodeStart, Goto
    <2>2. CASE Prebuffered
      BY <2>2 DEF Prebuffered, Goto
    <2>3. CASE Drain
      BY <2>3 DEF Drain, Goto
    <2>4. CASE Drained
      BY <2>4 DEF Drained, Goto
    <2>5. CASE ClassifyPlaylist
      BY <2>5 DEF ClassifyPlaylist, TooManyHops, Goto
    <2>6. CASE ClassifyUnplayable
      BY <2>6 DEF ClassifyUnplayable, Goto
    <2>7. CASE ClassifyAudio
      BY <2>7 DEF ClassifyAudio, Goto
    <2>8. CASE SwitchReset
      BY <2>8 DEF SwitchReset, Goto
    <2>9. CASE SwitchFails
      BY <2>9 DEF SwitchFails, SwitchStopped, Goto
    <2>10. CASE SwitchRetire
      BY <2>10 DEF SwitchRetire, ConnRelease, Goto
    <2>11. CASE \E c \in Conns, k \in {"http", "hls"} : SwitchInstall(c, k)
      BY <2>11 DEF SwitchInstall, SwitchStopped, OpenConn, Goto
    <2>12. CASE FeedPcm
      BY <2>12 DEF FeedPcm, Goto
    <2>13. CASE FeedNothing
      BY <2>13 DEF FeedNothing, Goto
    <2>14. CASE FirstPcm
      BY <2>14 DEF FirstPcm, Goto
    <2>15. CASE AudioWrite
      BY <2>15 DEF AudioWrite, Goto
    <2>16. CASE PlayStopped
      BY <2>16 DEF PlayStopped, Goto
    <2>17. CASE PlayReads
      BY <2>17 DEF PlayReads, Goto
    <2>18. CASE PlayEnds
      BY <2>18 DEF PlayEnds, Goto
    <2>19. CASE PlayUnderruns
      BY <2>19 DEF PlayUnderruns, Goto
    <2>20. CASE Underrun
      BY <2>20 DEF Underrun, PlayingAfterUnderrun, Goto
    <2>21. CASE Rebuffered
      BY <2>21 DEF Rebuffered, Goto
    <2>22. CASE StreamEnds
      BY <2>22 DEF StreamEnds, Goto
    <2>23. CASE ErrorCheck
      BY <2>23 DEF ErrorCheck, Goto
    <2>24. CASE ErrorWrite
      BY <2>24 DEF ErrorWrite, Goto
    <2>25. CASE DecodeOut
      BY <2>25 DEF DecodeOut, OutTakes, Goto
    <2>26. CASE DecodeExit
      BY <2>26 DEF DecodeExit, ConnRelease, Goto
    <2> QED BY <1>4, <2>1, <2>2, <2>3, <2>4, <2>5, <2>6, <2>7, <2>8, <2>9, <2>10, <2>11, <2>12, <2>13,
         <2>14, <2>15, <2>16, <2>17, <2>18, <2>19, <2>20, <2>21, <2>22, <2>23, <2>24, <2>25, <2>26 DEF DecodeStep
  <1>5. CASE \E c \in Conns : WorkerStep(c)
    <2> PICK c \in Conns : WorkerStep(c) BY <1>5
    <2>1. CASE Announce(c)
      BY <2>1 DEF Announce, Current, StateAfterHeaders, WorkerGoes
    <2>2. CASE RingWrite(c)
      BY <2>2 DEF RingWrite, HasRoom, WorkerGoes
    <2>3. CASE TransferEnds(c)
      BY <2>3 DEF TransferEnds, Downloading, WorkerGoes
    <2>4. CASE CloseRing(c)
      BY <2>4 DEF CloseRing, WorkerGoes
    <2>5. CASE MarkFinished(c)
      BY <2>5 DEF MarkFinished, WorkerGoes
    <2> QED BY <2>1, <2>2, <2>3, <2>4, <2>5 DEF WorkerStep
  <1>6. CASE \E c \in Conns : ReaperStep(c)
    <2> PICK c \in Conns : ReaperStep(c) BY <1>6
    <2>1. CASE ReapStop(c)
      BY <2>1 DEF ReapStop
    <2>2. CASE ReapJoin(c)
      BY <2>2 DEF ReapJoin, WorkerJoinable
    <2>3. CASE ReapFree(c)
      BY <2>3 DEF ReapFree
    <2>4. CASE ReapDrop(c)
      BY <2>4 DEF ReapDrop
    <2> QED BY <2>1, <2>2, <2>3, <2>4 DEF ReaperStep
  <1>7. CASE Terminated \/ UNCHANGED vars
    BY <1>7 DEF Terminated, vars
  <1> QED BY <1>1, <1>2, <1>3, <1>4, <1>5, <1>6, <1>7 DEF Next

\* No step shows a station as busy that has no connection.
LEMMA MannedStep ==
    ASSUME TypeOk, Ownership, Status, NoneCurrent, Manned, [Next]_vars PROVE Manned'
  <1>0. TypeOk'
    BY TypeStep
  <1> USE <1>0, ConnsAssumption
      DEF TypeOk, Flags, MaybeConn, States, Calls, UiSteps, DecSteps, WorkSteps, ReapSteps,
          status, handles, ui, decode, ring, conns, shared, rest, reaperRest,
          Ownership, OneOwner, WithReaper, UiPhases, DecodePhases, ConnPhases,
          Stopping, Holding, Detached, Threadless, Live, Status, Over, Busy,
          NoneCurrent, Manned, Before, Working, Station
  <1>1. CASE player_init
    BY <1>1 DEF player_init
  <1>2. CASE \E what \in {"play", "stop", "shutdown"} : BeginStop(what)
    BY <1>2 DEF BeginStop, Idle
  <1>3. CASE UiStep
    <2>1. CASE StopTake
      BY <2>1 DEF StopTake
    <2>2. CASE StopAbort
      BY <2>2 DEF StopAbort
    <2>3. CASE StopJoin
      BY <2>3 DEF StopJoin, Joinable
    <2>4. CASE StopClear
      BY <2>4 DEF StopClear
    <2>5. CASE StopRelease
      BY <2>5 DEF StopRelease, AfterStop, ConnRelease
    <2>6. CASE PlayReset
      BY <2>6 DEF PlayReset, StopAfterReset
    <2>7. CASE PlayRefused
      BY <2>7 DEF PlayRefused, ErrorShown
    <2>8. CASE \E c \in Conns : PlayOpens(c)
      BY <2>8 DEF PlayOpens, OpenConn, TooManyReapers
    <2>9. CASE PlaySpawns
      BY <2>9 DEF PlaySpawns
    <2>10. CASE PlayCannotSpawn
      BY <2>10 DEF PlayCannotSpawn
    <2>11. CASE PlaySpawnError
      BY <2>11 DEF PlaySpawnError
    <2>12. CASE ShutdownDone
      BY <2>12 DEF ShutdownDone
    <2> QED BY <1>3, <2>1, <2>2, <2>3, <2>4, <2>5, <2>6, <2>7, <2>8, <2>9, <2>10, <2>11, <2>12 DEF UiStep
  <1>4. CASE DecodeStep
    <2>1. CASE DecodeStart
      BY <2>1 DEF DecodeStart, Goto
    <2>2. CASE Prebuffered
      BY <2>2 DEF Prebuffered, Goto
    <2>3. CASE Drain
      BY <2>3 DEF Drain, Goto
    <2>4. CASE Drained
      BY <2>4 DEF Drained, Goto
    <2>5. CASE ClassifyPlaylist
      BY <2>5 DEF ClassifyPlaylist, TooManyHops, Goto
    <2>6. CASE ClassifyUnplayable
      BY <2>6 DEF ClassifyUnplayable, Goto
    <2>7. CASE ClassifyAudio
      BY <2>7 DEF ClassifyAudio, Goto
    <2>8. CASE SwitchReset
      BY <2>8 DEF SwitchReset, Goto
    <2>9. CASE SwitchFails
      BY <2>9 DEF SwitchFails, SwitchStopped, Goto
    <2>10. CASE SwitchRetire
      BY <2>10 DEF SwitchRetire, ConnRelease, Goto
    <2>11. CASE \E c \in Conns, k \in {"http", "hls"} : SwitchInstall(c, k)
      BY <2>11 DEF SwitchInstall, SwitchStopped, OpenConn, Goto
    <2>12. CASE FeedPcm
      BY <2>12 DEF FeedPcm, Goto
    <2>13. CASE FeedNothing
      BY <2>13 DEF FeedNothing, Goto
    <2>14. CASE FirstPcm
      BY <2>14 DEF FirstPcm, Goto
    <2>15. CASE AudioWrite
      BY <2>15 DEF AudioWrite, Goto
    <2>16. CASE PlayStopped
      BY <2>16 DEF PlayStopped, Goto
    <2>17. CASE PlayReads
      BY <2>17 DEF PlayReads, Goto
    <2>18. CASE PlayEnds
      BY <2>18 DEF PlayEnds, Goto
    <2>19. CASE PlayUnderruns
      BY <2>19 DEF PlayUnderruns, Goto
    <2>20. CASE Underrun
      BY <2>20 DEF Underrun, PlayingAfterUnderrun, Goto
    <2>21. CASE Rebuffered
      BY <2>21 DEF Rebuffered, Goto
    <2>22. CASE StreamEnds
      BY <2>22 DEF StreamEnds, Goto
    <2>23. CASE ErrorCheck
      BY <2>23 DEF ErrorCheck, Goto
    <2>24. CASE ErrorWrite
      BY <2>24 DEF ErrorWrite, Goto
    <2>25. CASE DecodeOut
      BY <2>25 DEF DecodeOut, OutTakes, Goto
    <2>26. CASE DecodeExit
      BY <2>26 DEF DecodeExit, ConnRelease, Goto
    <2> QED BY <1>4, <2>1, <2>2, <2>3, <2>4, <2>5, <2>6, <2>7, <2>8, <2>9, <2>10, <2>11, <2>12, <2>13,
         <2>14, <2>15, <2>16, <2>17, <2>18, <2>19, <2>20, <2>21, <2>22, <2>23, <2>24, <2>25, <2>26 DEF DecodeStep
  <1>5. CASE \E c \in Conns : WorkerStep(c)
    <2> PICK c \in Conns : WorkerStep(c) BY <1>5
    <2>1. CASE Announce(c)
      BY <2>1 DEF Announce, Current, StateAfterHeaders, WorkerGoes
    <2>2. CASE RingWrite(c)
      BY <2>2 DEF RingWrite, HasRoom, WorkerGoes
    <2>3. CASE TransferEnds(c)
      BY <2>3 DEF TransferEnds, Downloading, WorkerGoes
    <2>4. CASE CloseRing(c)
      BY <2>4 DEF CloseRing, WorkerGoes
    <2>5. CASE MarkFinished(c)
      BY <2>5 DEF MarkFinished, WorkerGoes
    <2> QED BY <2>1, <2>2, <2>3, <2>4, <2>5 DEF WorkerStep
  <1>6. CASE \E c \in Conns : ReaperStep(c)
    <2> PICK c \in Conns : ReaperStep(c) BY <1>6
    <2>1. CASE ReapStop(c)
      BY <2>1 DEF ReapStop
    <2>2. CASE ReapJoin(c)
      BY <2>2 DEF ReapJoin, WorkerJoinable
    <2>3. CASE ReapFree(c)
      BY <2>3 DEF ReapFree
    <2>4. CASE ReapDrop(c)
      BY <2>4 DEF ReapDrop
    <2> QED BY <2>1, <2>2, <2>3, <2>4 DEF ReaperStep
  <1>7. CASE Terminated \/ UNCHANGED vars
    BY <1>7 DEF Terminated, vars
  <1> QED BY <1>1, <1>2, <1>3, <1>4, <1>5, <1>6, <1>7 DEF Next

IInv == TypeOk /\ Ownership /\ Status /\ Counted /\ Room /\ Facing

-----------------------------------------------------------------------------
(* Every step is one of the session, or none                               *)

\* What of the player the session does not look at may change.
LEMMA SameSession ==
    ASSUME UNCHANGED <<upc, call, state, g_conn, uconn, alloc, timedOut>>,
           Leaked' = Leaked
    PROVE  UNCHANGED Caller!sessionVars
  BY DEF Caller!sessionVars, Called, Station, Closing

\* What has a reaper is not the station.
LEMMA ReapedIsClosing ==
    ASSUME TypeOk, Ownership, NEW c \in Conns, WithReaper(c)
    PROVE  c \in Closing
  <1>1. alloc[c] /\ c \notin {g_conn, uconn}
    BY ConnsAssumption DEF Ownership, OneOwner
  <1> QED BY <1>1 DEF Closing, Station, WithReaper

\* conn_release leaks the connection given up, or none.
LEMMA ReleaseMayLeak ==
    ASSUME TypeOk, Ownership, NEW c \in MaybeConn, ConnRelease(c),
           c # NoConn => c \in Closing /\ ~WithReaper(c)
    PROVE  Caller!MayLeak
  <1>1. CASE c = NoConn
    <2>1. Leaked' = Leaked
      BY <1>1 DEF ConnRelease, Leaked
    <2> QED BY <2>1 DEF Caller!MayLeak
  <1>2. CASE c # NoConn
    <2>1. c \in Conns /\ c \in Closing /\ reaper[c] # "leaked"
      BY <1>2 DEF MaybeConn, WithReaper
    <2>2. CASE reaper' = [reaper EXCEPT ![c] = "stop"]
      <3>1. Leaked' = Leaked
        BY <2>1, <2>2 DEF Leaked, TypeOk
      <3> QED BY <3>1 DEF Caller!MayLeak
    <2>3. CASE reaper' = [reaper EXCEPT ![c] = "leaked"]
      <3>1. Leaked' = Leaked \cup {c}
        BY <2>1, <2>3 DEF Leaked, TypeOk
      <3> QED BY <2>1, <3>1 DEF Caller!MayLeak
    <2> QED BY <1>2, <2>2, <2>3 DEF ConnRelease
  <1> QED BY <1>1, <1>2

\* The session counts as the player does.
LEMMA SameCount == ASSUME NEW S PROVE Caller!Cardinality(S) = Cardinality(S)
  BY DEF Caller!Cardinality, Cardinality

\* player_play counts at least the connections that are closing.
LEMMA FewClosing ==
    ASSUME TypeOk, Ownership, Counted, upc = "open"
    PROVE  Cardinality(Closing \ Leaked) <= g_reapers
  <1>1. uconn = NoConn /\ g_conn = NoConn /\ dpc = "none" /\ dead = NoConn
    BY DEF Ownership, UiPhases, DecodePhases, Detached, Holding, Threadless
  <1>2. Closing \ Leaked \subseteq Reaping
    <2> SUFFICES ASSUME NEW c \in Closing \ Leaked PROVE c \in Reaping
      OBVIOUS
    <2>1. c \in Conns /\ alloc[c] /\ reaper[c] # "leaked"
      BY DEF Closing, Leaked
    <2>2. WithReaper(c)
      BY <1>1, <2>1, ConnsAssumption DEF Ownership, OneOwner
    <2> QED BY <2>1, <2>2 DEF WithReaper, Reaping
  <1> QED BY <1>2, ReapingFinite, FS_Subset DEF Counted

\* With no reaper left, all that is closing is leaked.
LEMMA AllLeaked ==
    ASSUME TypeOk, Ownership, Counted, upc = "wait", g_reapers = 0
    PROVE  Closing = Leaked
  <1>1. uconn = NoConn /\ g_conn = NoConn /\ dpc = "none" /\ dead = NoConn
    BY DEF Ownership, UiPhases, DecodePhases, Detached, Holding, Threadless
  <1>2. ASSUME NEW c \in Closing PROVE c \in Leaked
    <2>1. c \in Conns /\ alloc[c]
      BY DEF Closing
    <2>2. WithReaper(c) /\ reaper[c] \in {"none", "leaked"}
      BY <1>1, <2>1, NoneReaping, ConnsAssumption DEF Ownership, OneOwner
    <2> QED BY <2>1, <2>2 DEF WithReaper, Leaked
  <1>3. ASSUME NEW c \in Leaked PROVE c \in Closing
    BY ReapedIsClosing DEF Leaked, WithReaper
  <1> QED BY <1>2, <1>3

\* Each step of the UI thread is one of the caller's calls, or none.
LEMMA UiRefines ==
    ASSUME IInv, UiStep PROVE Caller!Next \/ UNCHANGED Caller!sessionVars
  <1> USE ConnsAssumption DEF IInv, Facing, status, handles, ui, decode, ring, conns, shared
  <1>0. /\ TypeOk /\ Ownership /\ Status /\ Counted /\ CallPhases /\ Manned
        /\ {g_conn, uconn} \subseteq MaybeConn /\ Flags
    BY DEF TypeOk
  <1>1. CASE StopTake
    <2>1. Station' = Station /\ Leaked' = Leaked /\ Closing' = Closing
      BY <1>0, <1>1 DEF StopTake, Station, Closing, Leaked, Ownership, UiPhases, Holding
    <2>2. upc = "take" /\ upc' = "abort" /\ UNCHANGED <<call, state, timedOut>>
      BY <1>1 DEF StopTake
    <2> QED BY <2>1, <2>2 DEF Caller!sessionVars, Called
  <1>2. CASE StopAbort \/ StopJoin
    <2>1. Station' = Station /\ Leaked' = Leaked /\ Closing' = Closing
      BY <1>2 DEF StopAbort, StopJoin, Station, Closing, Leaked
    <2>2. upc # "off" /\ upc' # "off" /\ UNCHANGED <<call, state, timedOut>>
      BY <1>2 DEF StopAbort, StopJoin
    <2> QED BY <2>1, <2>2 DEF Caller!sessionVars, Called
  <1>3. CASE StopClear
    <2>1. g_conn = NoConn /\ Station = uconn /\ Station' = NoConn /\ Leaked' = Leaked
      BY <1>0, <1>3 DEF StopClear, Station, Leaked, Ownership, UiPhases, Detached
    <2>2. uconn # NoConn => uconn \in Conns /\ alloc[uconn]
      BY <1>0 DEF MaybeConn, Ownership, OneOwner
    <2>3. Closing' = Closing \cup ({Station} \ {NoConn})
      BY <1>3, <2>1, <2>2 DEF Closing, StopClear
    <2>4. /\ Called # "none" /\ Called' = Called /\ upc # "off" /\ upc' # "off"
          /\ state' = "IDLE" /\ timedOut' = timedOut
      BY <1>0, <1>3 DEF StopClear, CallPhases, Called
    <2>5. Caller!Stop
      BY <2>1, <2>3, <2>4 DEF Caller!Stop, Caller!GiveUp
    <2> QED BY <2>5 DEF Caller!Next
  <1>4. CASE StopRelease
    <2>1. /\ g_conn = NoConn /\ Station = NoConn /\ Station' = NoConn /\ Closing' = Closing
          /\ state = "IDLE"
      BY <1>0, <1>4
      DEF StopRelease, Station, Closing, AfterStop, Ownership, UiPhases, Detached, Status
    <2>2. uconn # NoConn => uconn \in Conns /\ uconn \in Closing /\ ~WithReaper(uconn)
      <3> SUFFICES ASSUME uconn # NoConn PROVE uconn \in Conns /\ uconn \in Closing /\ ~WithReaper(uconn)
        OBVIOUS
      <3>1. uconn \in Conns /\ alloc[uconn] /\ ~WithReaper(uconn)
        BY <1>0 DEF MaybeConn, Ownership, OneOwner
      <3> QED BY <2>1, <3>1 DEF Closing
    <2>3. Caller!MayLeak
      BY <1>0, <1>4, <2>2, ReleaseMayLeak DEF StopRelease
    <2>4. /\ upc = "release" /\ upc' # "off" /\ UNCHANGED <<state, timedOut>>
          /\ call # "none"
          /\ call' = IF call = "stop" THEN "none" ELSE call
      BY <1>0, <1>4 DEF StopRelease, AfterStop, CallPhases
    <2>5. CASE call = "stop"
      <3>1. Caller!Stopped
        BY <2>1, <2>3, <2>4, <2>5 DEF Caller!Stopped, Called
      <3> QED BY <3>1 DEF Caller!Next
    <2>6. CASE call # "stop"
      <3>1. Caller!Leak
        BY <2>1, <2>3, <2>4, <2>6 DEF Caller!Leak, Called
      <3> QED BY <3>1 DEF Caller!Next
    <2> QED BY <2>5, <2>6
  <1>5. CASE PlayReset
    <2>1. /\ g_conn = NoConn /\ Station = NoConn /\ Station' = NoConn /\ Closing' = Closing
          /\ Leaked' = Leaked /\ state = "IDLE" /\ call = "play"
      BY <1>0, <1>5
      DEF PlayReset, Station, Closing, Leaked, Ownership, UiPhases, Detached, Status, CallPhases
    <2>2. upc # "off" /\ upc' # "off" /\ state' = "CONNECTING" /\ UNCHANGED <<call, timedOut>>
      BY <1>5 DEF PlayReset
    <2>3. Caller!Tune
      BY <2>1, <2>2 DEF Caller!Tune, Called
    <2> QED BY <2>3 DEF Caller!Next
  <1>6. CASE PlayRefused
    <2>1. /\ g_conn = NoConn /\ Station = NoConn /\ Station' = NoConn /\ Closing' = Closing
          /\ Leaked' = Leaked /\ state = "CONNECTING" /\ call = "play" /\ ~g_stop
      BY <1>0, <1>6
      DEF PlayRefused, Station, Closing, Leaked, Ownership, UiPhases, Detached, Status, Manned,
          CallPhases
    <2>2. upc # "off" /\ upc' # "off" /\ state' = "ERROR" /\ call' = "none" /\ timedOut' = timedOut
      BY <1>6, <2>1 DEF PlayRefused, ErrorShown
    <2>3. Caller!Refused
      BY <2>1, <2>2 DEF Caller!Refused, Called
    <2> QED BY <2>3 DEF Caller!Next
  <1>7. CASE \E c \in Conns : PlayOpens(c)
    <2> PICK c \in Conns : PlayOpens(c)
      BY <1>7
    <2>1. /\ g_conn = NoConn /\ Station = NoConn /\ Station' = c
          /\ Leaked' = Leaked /\ state = "CONNECTING" /\ call = "play"
      BY <1>0
      DEF PlayOpens, OpenConn, Station, Leaked, Ownership, UiPhases, Detached, Manned, CallPhases
    <2>2. c \notin Closing /\ Closing' = Closing
      BY <1>0, <2>1 DEF PlayOpens, OpenConn, Closing, Flags
    <2>3. Cardinality(Closing \ Leaked) < MAX_REAPERS
      <3>1. Cardinality(Closing \ Leaked) <= g_reapers
        BY <1>0, FewClosing DEF PlayOpens
      <3>2. IsFiniteSet(Closing \ Leaked)
        BY FS_Subset DEF Closing
      <3>3. Cardinality(Closing \ Leaked) \in Nat
        BY <3>2, FS_CardinalityType
      <3>4. g_reapers \in Int /\ ~(g_reapers >= MAX_REAPERS)
        BY <1>0 DEF TypeOk, PlayOpens, TooManyReapers
      <3> QED BY <3>1, <3>3, <3>4, LimitAssumption
    <2>4. upc # "off" /\ upc' # "off" /\ UNCHANGED <<state, call, timedOut>>
      BY DEF PlayOpens
    <2>5. Caller!Open(c)
      BY <2>1, <2>2, <2>3, <2>4, SameCount DEF Caller!Open, Called
    <2> QED BY <2>5 DEF Caller!Next
  <1>8. CASE PlaySpawns
    <2>1. /\ g_conn # NoConn /\ Station = g_conn /\ Station' = g_conn /\ Closing' = Closing
          /\ Leaked' = Leaked /\ state \in {"CONNECTING", "BUFFERING"} /\ call = "play"
      BY <1>0, <1>8
      DEF PlaySpawns, Station, Closing, Leaked, Ownership, UiPhases, Manned, CallPhases
    <2>2. upc # "off" /\ upc' # "off" /\ call' = "none" /\ UNCHANGED <<state, timedOut>>
      BY <1>8 DEF PlaySpawns
    <2>3. Caller!Opened
      BY <2>1, <2>2 DEF Caller!Opened, Called
    <2> QED BY <2>3 DEF Caller!Next
  <1>9. CASE PlayCannotSpawn
    <2>1. /\ Station' = Station /\ Closing' = Closing /\ Leaked' = Leaked /\ Called' = Called
      BY <1>0, <1>9
      DEF PlayCannotSpawn, Station, Closing, Leaked, Called, Ownership, UiPhases, CallPhases
    <2>2. upc # "off" /\ upc' # "off" /\ UNCHANGED <<state, timedOut>>
      BY <1>9 DEF PlayCannotSpawn
    <2> QED BY <2>1, <2>2 DEF Caller!sessionVars
  <1>10. CASE PlaySpawnError
    <2>1. /\ g_conn = NoConn /\ Station = NoConn /\ Station' = NoConn /\ Closing' = Closing
          /\ Leaked' = Leaked /\ state = "IDLE" /\ call = "spawnFailed"
      BY <1>0, <1>10
      DEF PlaySpawnError, Station, Closing, Leaked, Ownership, UiPhases, Detached, Status, CallPhases
    <2>2. upc # "off" /\ upc' # "off" /\ state' = "ERROR" /\ call' = "none" /\ timedOut' = timedOut
      BY <1>10 DEF PlaySpawnError
    <2>3. Caller!Refused
      BY <2>1, <2>2 DEF Caller!Refused, Called
    <2> QED BY <2>3 DEF Caller!Next
  <1>11. CASE ShutdownDone
    <2>1. /\ g_conn = NoConn /\ Station = NoConn /\ Station' = NoConn /\ Closing' = Closing
          /\ Leaked' = Leaked /\ state = "IDLE" /\ call = "shutdown"
      BY <1>0, <1>11
      DEF ShutdownDone, Station, Closing, Leaked, Ownership, UiPhases, Detached, Status, CallPhases
    <2>2. upc # "off" /\ upc' = "off" /\ call' = "none" /\ UNCHANGED state /\ timedOut' \in BOOLEAN
      BY <1>11 DEF ShutdownDone
    <2>3. ~timedOut' => Closing = Leaked
      BY <1>0, <1>11, AllLeaked DEF ShutdownDone
    <2>4. Caller!ShutDown
      BY <2>1, <2>2, <2>3 DEF Caller!ShutDown, Called
    <2> QED BY <2>4 DEF Caller!Next
  <1> QED
    BY <1>1, <1>2, <1>3, <1>4, <1>5, <1>6, <1>7, <1>8, <1>9, <1>10, <1>11 DEF UiStep

\* A live decode thread has a station behind it.
LEMMA LiveHasStation == ASSUME Ownership, dpc \in Live PROVE Station # NoConn /\ Station = dconn
  BY DEF Ownership, UiPhases, DecodePhases, Station, Live, DecSteps, Detached, Holding

\* Each step of the decode thread is something the station does by itself, or none.
LEMMA DecodeRefines ==
    ASSUME IInv, DecodeStep PROVE Caller!Next \/ UNCHANGED Caller!sessionVars
  <1> USE ConnsAssumption
      DEF IInv, Facing, status, handles, ui, decode, ring, conns, shared, Goto
  <1>0. /\ TypeOk /\ Ownership /\ Status /\ CallPhases /\ Manned
        /\ {g_conn, uconn, dead} \subseteq MaybeConn /\ Flags
    BY DEF TypeOk
  <1>u. /\ UNCHANGED <<upc, call, uconn, timedOut>>
        /\ g_conn' = g_conn => Station' = Station
    BY DEF DecodeStep, DecodeStart, Prebuffered, Drain, Drained, ClassifyPlaylist, ClassifyUnplayable,
           ClassifyAudio, SwitchReset, SwitchFails, SwitchRetire, SwitchInstall, OpenConn, FeedPcm,
           FeedNothing, FirstPcm, AudioWrite, PlayStopped, PlayReads, PlayEnds, PlayUnderruns,
           Underrun, Rebuffered, StreamEnds, ErrorCheck, ErrorWrite, DecodeOut, DecodeExit, Station
  <1>s. ASSUME UNCHANGED <<state, g_conn, alloc, reaper>>
        PROVE  UNCHANGED Caller!sessionVars
    <2>1. Leaked' = Leaked
      BY <1>s DEF Leaked
    <2> QED BY <1>s, <1>u, <2>1, SameSession
  <1>b. ASSUME UNCHANGED <<g_conn, alloc, reaper>>, dpc \in Working
        PROVE  /\ UNCHANGED <<upc # "off", Called, Station, Closing, Leaked, timedOut>>
               /\ Caller!Receiving /\ dpc \in Live
    <2>1. UNCHANGED <<upc # "off", Called, Station, Closing, Leaked, timedOut>>
      BY <1>b, <1>u DEF Called, Closing, Leaked
    <2>2. Station # NoConn /\ state \in Busy
      BY <1>0, <1>b, LiveHasStation DEF Working, Manned
    <2> QED BY <1>b, <2>1, <2>2 DEF Caller!Receiving, Busy, Working
  <1>1. CASE \/ DecodeStart \/ Prebuffered \/ Drain \/ Drained \/ ClassifyPlaylist
             \/ ClassifyUnplayable \/ ClassifyAudio \/ SwitchFails
    BY <1>1, <1>s
    DEF DecodeStart, Prebuffered, Drain, Drained, ClassifyPlaylist, ClassifyUnplayable,
        ClassifyAudio, SwitchFails
  <1>2. CASE \/ FeedPcm \/ FeedNothing \/ AudioWrite \/ PlayStopped \/ PlayReads \/ PlayEnds
             \/ PlayUnderruns \/ Rebuffered \/ StreamEnds \/ ErrorCheck
    BY <1>2, <1>s
    DEF FeedPcm, FeedNothing, AudioWrite, PlayStopped, PlayReads, PlayEnds, PlayUnderruns,
        Rebuffered, StreamEnds, ErrorCheck
  <1>3. CASE SwitchReset
    <2>1. /\ UNCHANGED <<g_conn, alloc, reaper>> /\ dpc \in Working \cap Before
          /\ state' = "CONNECTING"
      BY <1>3 DEF SwitchReset, Working, Before, Live, DecSteps
    <2>2. state # "PLAYING"
      BY <1>0, <2>1 DEF Manned
    <2>3. Caller!Seek
      BY <1>b, <2>1, <2>2 DEF Caller!Seek, Caller!Becomes
    <2> QED BY <2>3 DEF Caller!Next
  <1>4. CASE SwitchRetire
    <2>1. /\ UNCHANGED <<g_conn, alloc, state>> /\ dpc = "retire" /\ ConnRelease(dead)
      BY <1>4 DEF SwitchRetire
    <2>2. dead \in Conns /\ alloc[dead] /\ ~WithReaper(dead) /\ dead \notin {g_conn, uconn}
      BY <1>0, <2>1 DEF MaybeConn, Ownership, OneOwner, DecodePhases
    <2>3. dead \in Closing
      BY <2>2 DEF Closing, Station
    <2>4. Caller!MayLeak
      BY <1>0, <2>1, <2>2, <2>3, ReleaseMayLeak
    <2>5. UNCHANGED <<upc # "off", Called, state, Station, Closing, timedOut>>
      BY <1>u, <2>1 DEF Called, Closing
    <2>6. Caller!Leak
      BY <2>4, <2>5 DEF Caller!Leak
    <2> QED BY <2>6 DEF Caller!Next
  <1>5. CASE \E c \in Conns, k \in {"http", "hls"} : SwitchInstall(c, k)
    <2> PICK c \in Conns, k \in {"http", "hls"} : SwitchInstall(c, k)
      BY <1>5
    <2>1. /\ dpc = "attach" /\ ~g_stop /\ ~alloc[c] /\ alloc' = [alloc EXCEPT ![c] = TRUE]
          /\ g_conn' = c /\ UNCHANGED <<reaper, state>>
      BY DEF SwitchInstall, SwitchStopped, OpenConn
    <2>2. upc = "idle" /\ call = "none"
      BY <1>0, <2>1 DEF Ownership, UiPhases, DecodePhases, Stopping, Threadless, CallPhases
    <2>3. /\ Station = g_conn /\ g_conn # NoConn /\ Station' = c /\ g_conn \in Conns /\ alloc[g_conn]
      <3>1. g_conn # NoConn
        BY <2>1, <2>2 DEF Ownership, DecodePhases, Live, DecSteps
      <3> QED BY <1>0, <2>1, <3>1 DEF Station, MaybeConn, Ownership, OneOwner
    <2>4. c # Station /\ c \notin Closing /\ Closing' = Closing \cup ({Station} \ {NoConn})
      BY <1>0, <2>1, <2>3 DEF Closing, Flags
    <2>5. state \in {"CONNECTING", "BUFFERING"}
      BY <1>0, <2>1 DEF Manned, Before
    <2>6. UNCHANGED <<upc # "off", Called, Leaked, timedOut>> /\ Called = "none"
      BY <1>u, <2>1, <2>2 DEF Called, Leaked
    <2>7. Caller!Hop(c)
      BY <2>1, <2>3, <2>4, <2>5, <2>6 DEF Caller!Hop, Caller!Receiving, Caller!GiveUp
    <2> QED BY <2>7 DEF Caller!Next
  <1>6. CASE FirstPcm
    <2>1. UNCHANGED <<g_conn, alloc, reaper>> /\ dpc \in Working /\ state' = "PLAYING"
      BY <1>6 DEF FirstPcm, Working, Live, DecSteps
    <2>2. Caller!Becomes("PLAYING")
      BY <1>b, <2>1 DEF Caller!Becomes
    <2> QED BY <2>2 DEF Caller!Next
  <1>7. CASE Underrun
    <2>1. UNCHANGED <<g_conn, alloc, reaper>> /\ dpc \in Working /\ state' = "BUFFERING"
      BY <1>7 DEF Underrun, Working, Live, DecSteps
    <2>2. Caller!Becomes("BUFFERING")
      BY <1>b, <2>1 DEF Caller!Becomes
    <2> QED BY <2>2 DEF Caller!Next
  <1>8. CASE ErrorWrite
    <2>1. UNCHANGED <<g_conn, alloc, reaper>> /\ dpc \in Working /\ state' = "ERROR"
      BY <1>8 DEF ErrorWrite, Working, Live, DecSteps
    <2>2. Caller!Becomes("ERROR")
      BY <1>b, <2>1 DEF Caller!Becomes
    <2> QED BY <2>2 DEF Caller!Next
  <1>9. CASE DecodeOut /\ g_stop
    BY <1>9, <1>s DEF DecodeOut, OutTakes
  <1>10. CASE DecodeOut /\ ~g_stop
    <2>1. /\ dpc = "out" /\ g_conn' = NoConn /\ UNCHANGED <<alloc, reaper, state>>
      BY <1>10 DEF DecodeOut, OutTakes
    <2>2. upc = "idle" /\ call = "none"
      BY <1>0, <1>10, <2>1 DEF Ownership, UiPhases, DecodePhases, Stopping, Threadless, CallPhases
    <2>3. state = "ERROR"
      BY <1>0, <2>1, <2>2 DEF Status, Over
    <2>4. Station # NoConn /\ Station = g_conn /\ Station' = NoConn /\ g_conn \in Conns /\ alloc[g_conn]
      <3>1. g_conn # NoConn
        BY <2>1, <2>2 DEF Ownership, DecodePhases, Live, DecSteps
      <3> QED BY <1>0, <1>u, <2>1, <2>2, <3>1 DEF Station, MaybeConn, Ownership, OneOwner
    <2>5. Closing' = Closing \cup ({Station} \ {NoConn})
      BY <2>1, <2>4 DEF Closing
    <2>6. UNCHANGED <<upc # "off", Called, Leaked, timedOut>> /\ Called = "none"
      BY <1>u, <2>1, <2>2 DEF Called, Leaked
    <2>7. Caller!End
      BY <2>1, <2>3, <2>4, <2>5, <2>6 DEF Caller!End, Caller!GiveUp
    <2> QED BY <2>7 DEF Caller!Next
  <1>11. CASE DecodeExit
    <2>1. /\ UNCHANGED <<g_conn, alloc, state>> /\ ConnRelease(dead)
      BY <1>11 DEF DecodeExit
    <2>2. dead # NoConn => /\ dead \in Conns /\ alloc[dead] /\ ~WithReaper(dead)
                           /\ dead \notin {g_conn, uconn}
      BY <1>0 DEF MaybeConn, Ownership, OneOwner
    <2>3. dead # NoConn => dead \in Closing
      BY <2>2 DEF Closing, Station
    <2>4. Caller!MayLeak
      BY <1>0, <2>1, <2>2, <2>3, ReleaseMayLeak
    <2>5. UNCHANGED <<upc # "off", Called, state, Station, Closing, timedOut>>
      BY <1>u, <2>1 DEF Called, Closing
    <2>6. Caller!Leak
      BY <2>4, <2>5 DEF Caller!Leak
    <2> QED BY <2>6 DEF Caller!Next
  <1> QED
    BY <1>1, <1>2, <1>3, <1>4, <1>5, <1>6, <1>7, <1>8, <1>9, <1>10, <1>11 DEF DecodeStep

\* A worker's headers are news of the station, and nothing else it does is.
LEMMA WorkerRefines ==
    ASSUME IInv, NEW c \in Conns, WorkerStep(c)
    PROVE  Caller!Next \/ UNCHANGED Caller!sessionVars
  <1> USE DEF IInv, Facing, status, handles, ui, decode, ring, conns, rest, WorkerGoes
  <1>u. UNCHANGED <<upc, call, g_conn, uconn, alloc, reaper, timedOut>>
    BY DEF WorkerStep, Announce, RingWrite, TransferEnds, CloseRing, MarkFinished
  <1>l. Leaked' = Leaked
    BY <1>u DEF Leaked
  <1>s. state' = state => UNCHANGED Caller!sessionVars
    BY <1>u, <1>l, SameSession
  <1>1. CASE Announce(c)
    <2>1. CASE state = "CONNECTING" /\ Current(c)
      <3>1. upc # "open"
        <4> SUFFICES ASSUME upc = "open" PROVE FALSE
          OBVIOUS
        <4>1. gen[c] < g_gen /\ gen[c] = g_gen /\ gen[c] \in Nat
          BY <2>1 DEF NoneCurrent, Current, TypeOk
        <4> QED BY <4>1
      <3>2. Station # NoConn
        BY <2>1, <3>1 DEF Manned, Busy
      <3>3. state' = "BUFFERING"
        BY <1>1, <2>1 DEF Announce, StateAfterHeaders
      <3>4. UNCHANGED <<upc # "off", Called, Station, Closing, Leaked, timedOut>>
        BY <1>u, <1>l DEF Called, Station, Closing
      <3>5. Caller!Becomes("BUFFERING")
        BY <2>1, <3>2, <3>3, <3>4 DEF Caller!Becomes, Caller!Receiving
      <3> QED BY <3>5 DEF Caller!Next
    <2>2. CASE ~(state = "CONNECTING" /\ Current(c))
      BY <1>1, <1>s, <2>2 DEF Announce, StateAfterHeaders
    <2> QED BY <2>1, <2>2
  <1>2. CASE RingWrite(c) \/ TransferEnds(c) \/ CloseRing(c) \/ MarkFinished(c)
    BY <1>2, <1>s DEF RingWrite, TransferEnds, CloseRing, MarkFinished
  <1> QED BY <1>1, <1>2 DEF WorkerStep

\* A reaper frees what is closing, and shows nothing else of itself.
LEMMA ReaperRefines ==
    ASSUME IInv, NEW c \in Conns, ReaperStep(c)
    PROVE  Caller!Next \/ UNCHANGED Caller!sessionVars
  <1> USE DEF IInv, Facing, status, handles, ui, decode, ring, conns, reaperRest
  <1>0. TypeOk /\ Ownership
    OBVIOUS
  <1>u. UNCHANGED <<upc, call, state, g_conn, uconn, timedOut>>
    BY DEF ReaperStep, ReapStop, ReapJoin, ReapFree, ReapDrop
  <1>l. Leaked' = Leaked
    <2>1. \E step \in ReapSteps \ {"leaked"} :
             reaper[c] # "leaked" /\ reaper' = [reaper EXCEPT ![c] = step]
      BY DEF ReaperStep, ReapStop, ReapJoin, ReapFree, ReapDrop, ReapSteps
    <2> QED BY <1>0, <2>1 DEF Leaked, TypeOk
  <1>1. CASE ReapStop(c) \/ ReapJoin(c) \/ ReapDrop(c)
    <2>1. alloc' = alloc
      BY <1>1 DEF ReapStop, ReapJoin, ReapDrop
    <2> QED BY <1>u, <1>l, <2>1, SameSession
  <1>2. CASE ReapFree(c)
    <2>1. c \in Closing \ Leaked
      BY <1>0, <1>2, ReapedIsClosing DEF ReapFree, WithReaper, Leaked
    <2>2. Station' = Station
      BY <1>u DEF Station
    <2>3. Closing' = Closing \ {c}
      BY <1>0, <1>2, <2>2 DEF ReapFree, Closing, TypeOk, Flags
    <2>4. UNCHANGED <<upc # "off", Called, state, timedOut>>
      BY <1>u DEF Called
    <2>5. Caller!Free(c)
      BY <1>l, <2>1, <2>2, <2>3, <2>4 DEF Caller!Free
    <2> QED BY <2>5 DEF Caller!Next
  <1> QED BY <1>1, <1>2 DEF ReaperStep

\* Every step of every thread is a step of the session, or none.
LEMMA RefinesStep == IInv /\ [Next]_vars => [Caller!Next]_(Caller!sessionVars)
  <1> SUFFICES ASSUME IInv, [Next]_vars
               PROVE  Caller!Next \/ UNCHANGED Caller!sessionVars
    OBVIOUS
  <1> USE DEF status, handles, ui, ring, conns
  <1>1. CASE player_init
    <2>1. /\ upc = "off" /\ upc' = "idle" /\ state' = "IDLE" /\ ~timedOut'
          /\ UNCHANGED <<call, g_conn, uconn, alloc, reaper>>
      BY <1>1 DEF player_init
    <2>2. state = "IDLE"
      BY <2>1 DEF IInv, Status
    <2>3. UNCHANGED <<Called, Station, Closing, Leaked>>
      BY <2>1 DEF Called, Station, Closing, Leaked
    <2>4. timedOut' = FALSE
      BY <1>1 DEF player_init
    <2>5. Caller!SwitchOn
      BY <2>1, <2>2, <2>3, <2>4 DEF Caller!SwitchOn
    <2> QED BY <2>5 DEF Caller!Next
  <1>2. CASE \E what \in {"play", "stop", "shutdown"} : BeginStop(what)
    <2> PICK what \in {"play", "stop", "shutdown"} : BeginStop(what)
      BY <1>2
    <2>1. /\ upc = "idle" /\ upc' = "take" /\ call' = what
          /\ UNCHANGED <<state, g_conn, uconn, alloc, reaper, timedOut>>
      BY DEF BeginStop, Idle
    <2>2. call = "none"
      BY <2>1 DEF IInv, Facing, CallPhases
    <2>3. UNCHANGED <<Station, Closing, Leaked>> /\ Called = "none" /\ Called' = what
      BY <2>1, <2>2 DEF Called, Station, Closing, Leaked
    <2>4. Caller!Call(what)
      BY <2>1, <2>3 DEF Caller!Call
    <2> QED BY <2>4 DEF Caller!Next
  <1>3. CASE Terminated \/ UNCHANGED vars
    <2>1. UNCHANGED <<upc, call, state, g_conn, uconn, alloc, reaper, timedOut>>
      BY <1>3 DEF Terminated, vars
    <2>2. Leaked' = Leaked
      BY <2>1 DEF Leaked
    <2> QED BY <2>1, <2>2, SameSession
  <1> QED BY <1>1, <1>2, <1>3, UiRefines, DecodeRefines, WorkerRefines, ReaperRefines DEF Next

-----------------------------------------------------------------------------
(* The theorems                                                            *)


\* The invariant holds before player_init.
LEMMA InitInv == Init => IInv
  <1> HAVE Init
  <1>1. TypeOk
    BY InitTypes
  <1>2. Ownership
    BY <1>1, ConnsAssumption DEF Init, TypeOk, Ownership, OneOwner, WithReaper, UiPhases,
       DecodePhases, ConnPhases, Stopping, Holding, Detached, Threadless, Live
  <1>3. Status
    BY <1>1 DEF Init, Status, NoDeadStation, SoundMeansPlaying,
       ContentTypeIsCurrent, Idle, Busy, Over
  <1>4. Reaping = {}
    BY DEF Init, Reaping
  <1>5. Counted
    BY <1>4, FS_EmptySet DEF Init, Counted
  <1>6. Room
    BY LimitAssumption DEF Init, Room, Held
  <1>7. Facing
    BY <1>1, ConnsAssumption
    DEF Init, Facing, CallPhases, NoneCurrent, Manned, Before, Working, Live, Busy
  <1> QED
    BY <1>1, <1>2, <1>3, <1>5, <1>6, <1>7 DEF IInv

\* Every step keeps it.
LEMMA InvStep == IInv /\ [Next]_vars => IInv'
  <1> SUFFICES ASSUME IInv, [Next]_vars PROVE IInv'
    OBVIOUS
  <1>1. Facing'
    BY CallPhasesStep, NoneCurrentStep, MannedStep DEF IInv, Facing
  <1> QED
    BY <1>1, TypeStep, OwnershipStep, StatusStep, CountStep, RoomStep DEF IInv

\* It always holds.
LEMMA Invariant == Spec => []IInv
  BY InitInv, InvStep, PTL DEF Spec

\* At any moment each allocated connection has exactly one owner: no
\* interleaving of a stop, a swap and a self-ended station retires one twice or
\* forgets one.
THEOREM ExactlyOneOwner == Spec => []OneOwner
  <1>1. IInv => OneOwner
    BY DEF IInv, Ownership
  <1> QED
    BY Invariant, <1>1, PTL

\* No thread reaches a connection its reaper has freed, and no reaper frees one
\* whose worker still runs.
THEOREM NeverUsedAfterFree == Spec => []NoUseAfterFree
  <1>1. IInv => NoUseAfterFree
    <2> HAVE IInv
    <2>1. dpc \in ReadsRing => g_rb \in Conns /\ (g_rb = g_conn \/ g_rb = uconn)
      BY DEF IInv, Ownership, TypeOk, DecSteps, MaybeConn, DecodePhases, Live,
             ReadsRing
    <2>2. \A c \in {g_conn, uconn} \ {NoConn} :
              alloc[c] /\ reaper[c] = "none"
      BY ConnsAssumption
      DEF IInv, Ownership, OneOwner, ConnPhases, WithReaper, TypeOk, MaybeConn,
          ReapSteps
    <2>3. dpc \in ReadsRing => g_rb # NoConn /\ alloc[g_rb] /\ reaper[g_rb] = "none"
      BY <2>1, <2>2, ConnsAssumption
    <2>4. g_src # NoConn => alloc[g_src] /\ reaper[g_src] = "none"
      BY <2>2 DEF IInv, Ownership, UiPhases
    <2>5. \A c \in Conns : worker[c] # "none" => alloc[c] /\ reaper[c] # "free"
      BY DEF IInv, Ownership, ConnPhases
    <2> QED
      BY <2>3, <2>4, <2>5 DEF NoUseAfterFree, IInv, Ownership, DecodePhases
  <1> QED
    BY Invariant, <1>1, PTL

\* Between calls, a station shown as connecting, buffering or playing has a
\* decode thread at work on it.
THEOREM StationIsAlive == Spec => []NoDeadStation
  <1>1. IInv => NoDeadStation
    BY DEF IInv, Status
  <1> QED
    BY Invariant, <1>1, PTL

\* While PCM flows the status is "playing".
THEOREM SoundIsShown == Spec => []SoundMeansPlaying
  <1>1. IInv => SoundMeansPlaying
    BY DEF IInv, Status
  <1> QED
    BY Invariant, <1>1, PTL

\* The content type on the status line is never an abandoned connection's.
THEOREM OnlyCurrentCallbacks == Spec => []ContentTypeIsCurrent
  <1>1. IInv => ContentTypeIsCurrent
    BY DEF IInv, Status
  <1> QED
    BY Invariant, <1>1, PTL

\* The reaper count is exact and bounded by the cap and the hops.
THEOREM ReapersCounted == Spec => []ReapersBounded
  <1>1. IInv => ReapersBounded
    BY DEF IInv, Counted, Room, ReapersBounded
  <1> QED
    BY Invariant, <1>1, PTL

\* A shutdown that did not time out leaves no thread and no memory but leaks.
THEOREM ShutdownLeavesNothing == Spec => []CleanShutdown
  <1>1. IInv => CleanShutdown
    <2> SUFFICES ASSUME IInv, upc = "off", ~timedOut, NEW c \in Conns,
                        alloc[c] \/ worker[c] # "none"
                 PROVE  reaper[c] = "leaked"
      BY DEF CleanShutdown
    <2>1. reaper[c] \notin {"stop", "join", "free", "drop"}
      BY DEF IInv, Room
    <2>2. alloc[c]
      BY DEF IInv, Ownership, ConnPhases
    <2>3. c \notin {g_conn, uconn, dead}
      BY ConnsAssumption
      DEF IInv, Ownership, UiPhases, DecodePhases, Detached, Holding, Threadless
    <2> QED
      BY <2>1, <2>2, <2>3 DEF IInv, Ownership, OneOwner, WithReaper
  <1> QED
    BY Invariant, <1>1, PTL

\* Only a stop the user caused takes an error off the screen.
THEOREM ErrorsStick == Spec => ErrorSticks
  <1>1. IInv /\ [Next]_vars => [state = "ERROR" /\ state' # "ERROR" => upc = "clear"]_vars
    BY ErrorStep DEF IInv
  <1> QED
    BY Invariant, <1>1, PTL DEF Spec, ErrorSticks

\* player.c implements the session player.h describes: every step of every thread
\* is one step of it, or leaves alone what the caller can see.
THEOREM PlayerImplementsSession == Spec => ImplementsSession
  <1>1. Init => Caller!Init
    BY ConnsAssumption DEF Init, Caller!Init, Called, Station, Closing, Leaked
  <1> QED BY <1>1, RefinesStep, Invariant, PTL DEF Spec, ImplementsSession, Caller!Spec

=============================================================================
