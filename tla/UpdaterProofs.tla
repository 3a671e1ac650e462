--------------------------- MODULE UpdaterProofs ---------------------------
(***************************************************************************)
(* Proofs about Updater, for any number of releases, installs and crashes: *)
(* a package is promoted at most once, only under the token written for    *)
(* it, and what the helper reports is what the application reads.          *)
(***************************************************************************)
EXTENDS Updater, TLAPS

USE BoundAssumption

InitSteps    == {"init", "forget", "unpend", "untoken", "unpkg"}
InstallSteps == WorkSteps \ {"none", "check", "done", "exited"}
StageSteps   == {"head", "empty", "copy", "promote", "clear", "open", "token", "rename"}
MovedSteps   == {"pending", "unresult", "ready"}

\* The installs started so far, and what a file of one of them can hold.
Started == 1..installs
MadeBy  == {None, Empty} \cup Started

\* Who is running: past its start the helper is alone, a worker lives only inside
\* main()'s loop or its join, and only a worker is busy.
Phases ==
    /\ hpc \notin {"off", "start"} => mpc = "off"
    /\ mpc = "off" => wpc = "none" /\ state = "IDLE"
    /\ wpc # "none" => mpc \in {"loop", "act", "leave", "join"}
    /\ wpc \notin {"none", "exited"} => busy
    /\ wpc \in InstallSteps => installs # 0
    /\ wpc \in InstallSteps \cup {"check"} => state # "READY"
    /\ mpc \in InitSteps => state # "READY"
    /\ state = "AVAILABLE" => latest \in Releases
    /\ \A n \in Started : release[n] \in Releases

\* How far the worker's install has got on the card.
Staged ==
    /\ files["stage"] \in MadeBy /\ files["pending"] \in MadeBy
    /\ files["token"] \in MadeBy
    /\ files["pkg"] \in MadeBy \cup {Helper, Foreign}
    /\ wpc \in StageSteps => files["stage"] = installs
    /\ wpc \in {"open", "token", "rename"} => files["pkg"] = None
    /\ wpc = "rename" => files["token"] = installs
    /\ wpc \in MovedSteps \/ state = "READY"
           => files["pkg"] = installs /\ files["token"] = installs
    /\ files["pkg"] \in Started /\ files["token"] \in Started
           => files["pkg"] = files["token"]

\* A token on the card has not been used, and the helper uses it up before it promotes.
Spending ==
    /\ files["token"] \in Started => promotions[files["token"]] = 0
    /\ wpc \in InstallSteps => promotions[installs] = 0
    /\ \A n \in Installs : n > installs => promotions[n] = 0
    /\ hpc \in {"spend", "promote", "promoting"}
           => spent \in Started /\ files["pkg"] = spent
    /\ hpc = "spend" => files["token"] = spent
    /\ hpc \in {"promote", "promoting"} => files["token"] = None
    /\ hpc = "promote" => promotions[spent] = 0

IInv == TypeOk /\ Phases /\ Staged /\ Spending /\ OneShot /\ HelperResultWins

-----------------------------------------------------------------------------
(* Who is running                                                          *)

\* Every step keeps the processes in the phases they can be in together.
LEMMA PhaseStep == TypeOk /\ Phases /\ [Next]_vars => Phases'
  <1> SUFFICES ASSUME TypeOk, Phases, [Next]_vars
               PROVE  Phases'
    OBVIOUS
  <1> USE DEF vars, card, titles, app, worker, help, count, others, helpRest, Started
  <1>1. CASE CheckEnds
    BY <1>1 DEF CheckEnds, Say, Phases, InitSteps, InstallSteps, WorkSteps
  <1>2. CASE Start \/ Download
    BY <1>2 DEF Start, Download, Say, Goto, Phases, InstallSteps, WorkSteps
  <1>3. CASE CleanStage \/ Unpack \/ CheckStage \/ EmptyPkg \/ CopyHelper
    BY <1>3 DEF CleanStage, Unpack, CheckStage, EmptyPkg, CopyHelper, Abandon,
                Say, Goto, Phases, InstallSteps, WorkSteps
  <1>4. CASE PromoteHelper \/ ClearPkg \/ OpenToken \/ WriteToken \/ Rename \/ AbandonStage
    BY <1>4 DEF PromoteHelper, ClearPkg, OpenToken, WriteToken, Rename, NotMoved,
                AbandonStage, Abandon, Say, Goto, Phases, InstallSteps, WorkSteps
  <1>5. CASE WritePending \/ UnlinkResult \/ Ready \/ WorkerDone
    BY <1>5 DEF WritePending, UnlinkResult, Ready, WorkerDone, Say, Goto, Phases,
                InitSteps, InstallSteps, WorkSteps
  <1>6. CASE ReadResult \/ InitCleans
    BY <1>6 DEF ReadResult, InitCleans, Forget, Phases, InitSteps
  <1>7. CASE Sample
    BY <1>7 DEF Sample, Phases, InitSteps
  <1>8. CASE Act
    <2>0. /\ hpc' = hpc /\ latest' = latest
          /\ mpc = "act" /\ mpc' \in {"leave", "loop"}
      BY <1>8 DEF Act, updater_install, updater_check
    <2>1. CASE UNCHANGED <<worker, installs, release>>
      BY <2>0, <2>1 DEF Phases, InitSteps
    <2>2. CASE updater_check
      BY <2>0, <2>2 DEF updater_check, StartWorker, Say, Phases, InitSteps, InstallSteps
    <2>3. CASE updater_install /\ (busy \/ state # "AVAILABLE")
      BY <2>0, <2>3 DEF updater_install, Phases, InitSteps
    <2>4. CASE updater_install /\ ~(busy \/ state # "AVAILABLE")
      <3>1. /\ installs' = installs + 1 /\ installs' \in Installs
            /\ release' = [release EXCEPT ![installs + 1] = latest]
            /\ latest \in Releases /\ state' # "READY" /\ state' # "AVAILABLE"
            /\ wpc' \in {"start", "none"} /\ (wpc' = "start" => busy')
        BY <2>4 DEF updater_install, StartWorker, Say, Phases, TypeOk, Installs
      <3>2. \A n \in 1..(installs + 1) : release'[n] \in Releases
        BY <3>1 DEF TypeOk, Phases, Installs
      <3>3. installs' # 0
        BY <3>1 DEF Installs
      <3> QED BY <2>0, <3>1, <3>2, <3>3 DEF Phases, InitSteps, InstallSteps
    <2> QED BY <1>8, <2>1, <2>2, <2>3, <2>4 DEF Act
  <1>9. CASE Leave \/ Join \/ Teardown \/ LaunchOnce \/ LaunchAgain \/ Blame
    BY <1>9 DEF Leave, Join, Teardown, LaunchOnce, LaunchAgain, Blame, Gone, Phases,
                InitSteps, InstallSteps, WorkSteps
  <1>10. CASE HelperStep
    BY <1>10 DEF HelperStep, HelperStarts, HelperChecks, HelperSpends, HelperPromotes,
                 PromotionEnds, HelperReports, HelperRelaunches, AppCloses, Gone, Phases,
                 InitSteps, InstallSteps, WorkSteps
  <1>11. CASE OpenApp \/ OpenHelper \/ LeavePackage
    BY <1>11 DEF OpenApp, OpenHelper, LeavePackage, Phases, InitSteps
  <1>12. CASE PowerCut
    BY <1>12 DEF PowerCut, Gone, Phases, InitSteps, InstallSteps, WorkSteps
  <1>13. CASE UNCHANGED vars
    BY <1>13 DEF Phases
  <1> QED BY <1>1, <1>2, <1>3, <1>4, <1>5, <1>6, <1>7, <1>8, <1>9, <1>10, <1>11, <1>12,
             <1>13 DEF Next, WorkerStep, LocalStep, MainStep

-----------------------------------------------------------------------------
(* The card                                                                *)

\* What the card operations change: one name, or the two of a move.
LEMMA Writes ==
    ASSUME TypeOk, NEW n \in Names, NEW content, Write(n, content)
    PROVE  /\ files'[n] = content
           /\ \A m \in Names : m # n => files'[m] = files[m]
  BY DEF Write, TypeOk

\* The same of a removal ...
LEMMA Removes ==
    ASSUME TypeOk, NEW n \in Names, Remove(n)
    PROVE  /\ files'[n] = None
           /\ \A m \in Names : m # n => files'[m] = files[m]
  BY DEF Remove, TypeOk

\* ... and of the move of the staged directory.
LEMMA Moves ==
    ASSUME TypeOk, Move("stage", "pkg")
    PROVE  /\ files'["stage"] = None
           /\ files'["pkg"] = files["stage"]
           /\ \A m \in Names : m \notin {"stage", "pkg"} => files'[m] = files[m]
  BY DEF Move, TypeOk, Names

\* The pending tag and the result are no part of a package.
LEMMA StagedAlone ==
    ASSUME Staged, files'["pending"] \in MadeBy, UNCHANGED <<wpc, state, installs>>,
           \A m \in {"stage", "pkg", "token"} : files'[m] = files[m]
    PROVE  Staged'
  BY DEF Staged, MadeBy, Started

\* Every step leaves the files where the worker's progress says they are.
LEMMA StagedStep == TypeOk /\ Phases /\ Staged /\ [Next]_vars => Staged'
  <1> SUFFICES ASSUME TypeOk, Phases, Staged, [Next]_vars
               PROVE  Staged'
    OBVIOUS
  <1>0. /\ "stage" \in Names /\ "pkg" \in Names /\ "token" \in Names
        /\ "pending" \in Names /\ "result" \in Names
    BY DEF Names
  <1>a. /\ None \in MadeBy /\ Empty \in MadeBy
        /\ wpc \in InstallSteps => installs \in Started /\ installs \in MadeBy
    BY DEF MadeBy, Started, Phases, TypeOk
  <1>b. None \notin Started /\ Empty \notin Started /\ Helper \notin Started
        /\ Foreign \notin Started
    BY DEF Started, None, Empty, Helper, Foreign
  <1> USE DEF vars, card, titles, app, worker, help, count, others, helpRest
  <1>1. CASE UNCHANGED <<files, installs>> /\ wpc' \notin StageSteps \cup MovedSteps
                 /\ state' # "READY"
    BY <1>1 DEF Staged, MadeBy, Started, StageSteps
  <1>2. CASE UNCHANGED <<files, installs, wpc, state>>
    BY <1>2 DEF Staged, MadeBy, Started
  <1>3. CASE CheckEnds \/ Start \/ Download
    BY <1>1, <1>3 DEF CheckEnds, Start, Download, Say, Goto, StageSteps, MovedSteps,
                      Phases, InstallSteps, WorkSteps
  <1>4. ASSUME wpc \in InstallSteps, state' # "READY", installs' = installs,
               files'["stage"] \in MadeBy, wpc' \in StageSteps => files'["stage"] = installs,
               UNCHANGED <<files["pkg"], files["token"], files["pending"]>>,
               wpc' \notin {"open", "token", "rename"} \cup MovedSteps
        PROVE  Staged'
    BY <1>4 DEF Staged, MadeBy, Started, StageSteps
  <1>5. CASE CleanStage \/ Unpack \/ CheckStage
    <2>1. /\ wpc \in InstallSteps /\ state # "READY" /\ state' # "READY"
          /\ wpc' \in {"unpack", "head", "empty", "done"}
          /\ \E c \in {None, Empty, installs} : Write("stage", c) \/ Remove("stage")
      BY <1>5 DEF CleanStage, Unpack, CheckStage, Abandon, Say, Goto, Phases,
                  InstallSteps, WorkSteps
    <2>2. wpc' \in StageSteps => Write("stage", installs)
      BY <1>5 DEF CleanStage, Unpack, CheckStage, Abandon, Say, Goto, StageSteps
    <2>3. installs' = installs
      BY <1>5 DEF CleanStage, Unpack, CheckStage
    <2>4. \A m \in Names : m # "stage" => files'[m] = files[m]
      BY <1>0, <2>1, Writes, Removes
    <2>5. files'["stage"] \in MadeBy
      BY <1>0, <1>a, <2>1, Writes, Removes
    <2>6. wpc' \in StageSteps => files'["stage"] = installs
      BY <1>0, <2>2, Writes
    <2> QED BY <1>0, <1>4, <2>1, <2>3, <2>4, <2>5, <2>6 DEF MovedSteps
  <1>6. ASSUME wpc \in InstallSteps, installs' = installs,
               files'["pkg"] \in {None, Empty, Helper},
               UNCHANGED <<files["stage"], files["token"], files["pending"]>>,
               wpc' \in StageSteps => wpc \in StageSteps,
               wpc' \in {"open", "token", "rename"} => files'["pkg"] = None,
               wpc' # "rename" /\ wpc' \notin MovedSteps /\ state' # "READY"
        PROVE  Staged'
    BY <1>b, <1>6 DEF Staged, MadeBy, Started
  <1>7. CASE EmptyPkg \/ CopyHelper \/ PromoteHelper \/ ClearPkg
    <2>1. /\ wpc \in InstallSteps /\ wpc \in StageSteps /\ state # "READY"
          /\ state' # "READY"
          /\ wpc' \in {"copy", "promote", "clear", "open", "done"}
          /\ installs' = installs
      BY <1>7 DEF EmptyPkg, CopyHelper, PromoteHelper, ClearPkg, Say, Goto, Phases,
                  InstallSteps, WorkSteps, StageSteps
    <2>2. CASE EmptyPkg \/ CopyHelper \/ ClearPkg
      <3>1. /\ \E c \in {Empty, Helper} : Write("pkg", c) \/ Remove("pkg")
            /\ wpc' = "open" => Remove("pkg")
        BY <2>2 DEF EmptyPkg, CopyHelper, ClearPkg, Goto
      <3>2. \A m \in Names : m # "pkg" => files'[m] = files[m]
        BY <1>0, <3>1, Writes, Removes
      <3>3. files'["pkg"] \in {None, Empty, Helper}
        BY <1>0, <3>1, Writes, Removes
      <3>4. wpc' = "open" => files'["pkg"] = None
        BY <1>0, <3>1, Removes
      <3> QED BY <1>0, <1>6, <2>1, <3>2, <3>3, <3>4 DEF MovedSteps
    <2>3. CASE PromoteHelper
      <3>1. CASE Remove("pkg")
        <4>1. files'["pkg"] = None /\ \A m \in Names : m # "pkg" => files'[m] = files[m]
          BY <1>0, <3>1, Removes
        <4>2. wpc' \in {"clear", "done"}
          BY <2>3 DEF PromoteHelper, Goto
        <4> QED BY <1>0, <1>6, <2>1, <4>1, <4>2 DEF MovedSteps
      <3>2. CASE UNCHANGED card
        <4>1. wpc' \in {"clear", "done"}
          BY <2>3 DEF PromoteHelper, Goto
        <4> QED BY <2>1, <3>2, <4>1 DEF Staged, MadeBy, Started, MovedSteps
      <3> QED BY <2>3, <3>1, <3>2 DEF PromoteHelper
    <2> QED BY <1>7, <2>2, <2>3
  <1>8. CASE OpenToken \/ WriteToken
    <2>1. /\ wpc \in {"open", "token"} /\ wpc \in InstallSteps /\ state # "READY"
          /\ state' # "READY" /\ installs' = installs
          /\ files["pkg"] = None /\ files["stage"] = installs
      BY <1>8 DEF OpenToken, WriteToken, Abandon, Say, Goto, Phases, InstallSteps,
                  WorkSteps, Staged, StageSteps
    <2>2. CASE Abandon("ERROR")
      <3>1. files'["stage"] = None /\ \A m \in Names : m # "stage" => files'[m] = files[m]
        BY <1>0, <2>2, Removes DEF Abandon
      <3>2. wpc' = "done"
        BY <2>2 DEF Abandon, Goto
      <3> QED BY <1>0, <1>a, <1>4, <2>1, <3>1, <3>2 DEF StageSteps, MovedSteps
    <2>3. CASE ~Abandon("ERROR")
      <3>1. \/ Write("token", Empty) /\ wpc' = "token"
            \/ Write("token", installs) /\ wpc' = "rename"
        BY <1>8, <2>3 DEF OpenToken, WriteToken, Goto
      <3>2. \A m \in Names : m # "token" => files'[m] = files[m]
        BY <1>0, <3>1, Writes
      <3>3. /\ files'["token"] \in {Empty, installs}
            /\ wpc' = "rename" => files'["token"] = installs
        BY <1>0, <3>1, Writes
      <3>4. /\ files'["pkg"] = None /\ files'["stage"] = installs
            /\ files'["pending"] = files["pending"]
        BY <1>0, <2>1, <3>2
      <3> QED BY <1>a, <1>b, <2>1, <3>1, <3>3, <3>4 DEF Staged, MadeBy, Started, MovedSteps
    <2> QED BY <2>2, <2>3
  <1>9. CASE Rename
    <2>1. /\ wpc = "rename" /\ wpc \in InstallSteps /\ state' = state /\ state # "READY"
          /\ installs' = installs
          /\ files["stage"] = installs /\ files["token"] = installs /\ files["pkg"] = None
      BY <1>9 DEF Rename, NotMoved, Goto, Phases, InstallSteps, WorkSteps, Staged, StageSteps
    <2>2. CASE Move("stage", "pkg") /\ Goto("pending")
      <3>1. /\ files'["stage"] = None /\ files'["pkg"] = installs
            /\ files'["token"] = installs /\ files'["pending"] = files["pending"]
        BY <1>0, <2>1, <2>2, Moves
      <3> QED BY <1>a, <2>1, <2>2, <3>1 DEF Goto, Staged, MadeBy, Started, StageSteps
    <2>3. CASE NotMoved
      <3>1. /\ files'["token"] = None /\ wpc' = "abandon"
            /\ \A m \in Names : m # "token" => files'[m] = files[m]
        BY <1>0, <2>3, Removes DEF NotMoved, Goto
      <3> QED BY <1>0, <1>a, <1>b, <2>1, <3>1
              DEF Staged, MadeBy, Started, StageSteps, MovedSteps
    <2> QED BY <1>9, <2>2, <2>3 DEF Rename
  <1>10. CASE AbandonStage
    <2>1. /\ wpc \in InstallSteps /\ state' # "READY" /\ installs' = installs
          /\ wpc' = "done" /\ Remove("stage")
      BY <1>10 DEF AbandonStage, Abandon, Say, Goto, InstallSteps, WorkSteps
    <2>2. files'["stage"] = None /\ \A m \in Names : m # "stage" => files'[m] = files[m]
      BY <1>0, <2>1, Removes
    <2> QED BY <1>0, <1>a, <1>4, <2>1, <2>2 DEF StageSteps, MovedSteps
  <1>11. CASE WritePending \/ UnlinkResult
    <2>1. /\ wpc \in MovedSteps /\ wpc \in InstallSteps /\ state' = state /\ installs' = installs
          /\ wpc' \in {"unresult", "ready"}
          /\ Write("pending", installs) \/ Remove("result") \/ UNCHANGED card
      BY <1>11 DEF WritePending, UnlinkResult, Goto, MovedSteps, InstallSteps, WorkSteps
    <2>2. /\ \A m \in {"stage", "pkg", "token"} : files'[m] = files[m]
          /\ files'["pending"] \in {files["pending"], installs}
      BY <1>0, <2>1, Writes, Removes
    <2> QED BY <1>a, <2>1, <2>2 DEF Staged, MadeBy, Started, StageSteps, MovedSteps
  <1>12. CASE Ready \/ WorkerDone
    BY <1>12 DEF Ready, WorkerDone, Say, Goto, Staged, MadeBy, Started, StageSteps, MovedSteps
  <1>13. CASE InitCleans
    <2>1. /\ state # "READY" /\ wpc = "none"
          /\ UNCHANGED <<state, wpc, installs>>
          /\ \E n \in Names : Remove(n)
      BY <1>0, <1>13 DEF InitCleans, Forget, Phases, InitSteps
    <2>2. PICK n \in Names : Remove(n)
      BY <2>1
    <2>3. files'[n] = None /\ \A m \in Names : m # n => files'[m] = files[m]
      BY <2>2, Removes
    <2> QED BY <1>0, <1>a, <1>b, <2>1, <2>3
            DEF Staged, MadeBy, Started, StageSteps, MovedSteps
  <1>14. CASE ReadResult
    BY <1>14 DEF ReadResult, Phases, InitSteps, Staged, MadeBy, Started, StageSteps,
                 MovedSteps
  <1>15. CASE Sample \/ Leave \/ LaunchOnce \/ OpenApp \/ OpenHelper
    BY <1>2, <1>15 DEF Sample, Leave, LaunchOnce, OpenApp, OpenHelper
  <1>16. CASE Join \/ Teardown \/ LaunchAgain
    BY <1>16 DEF Join, Teardown, LaunchAgain, Gone, Staged, MadeBy, Started,
                 StageSteps, MovedSteps
  <1>17. CASE Act
    <2>1. UNCHANGED card
      BY <1>17 DEF Act
    <2>2. CASE UNCHANGED <<worker, installs, release>>
      BY <1>2, <2>1, <2>2
    <2>3. CASE updater_check
      BY <1>1, <1>2, <2>1, <2>3 DEF updater_check, StartWorker, Say, StageSteps, MovedSteps
    <2>4. CASE updater_install /\ (busy \/ state # "AVAILABLE")
      BY <1>2, <2>1, <2>4 DEF updater_install
    <2>5. CASE updater_install /\ ~(busy \/ state # "AVAILABLE")
      <3>1. /\ installs' = installs + 1 /\ state' # "READY" /\ wpc' \in {"start", "none"}
            /\ installs \in Nat
        BY <2>5 DEF updater_install, StartWorker, Say, TypeOk
      <3> QED BY <2>1, <3>1 DEF Staged, MadeBy, Started, StageSteps, MovedSteps,
                                None, Empty, Helper, Foreign
    <2> QED BY <1>17, <2>2, <2>3, <2>4, <2>5 DEF Act
  <1>18. CASE Blame
    <2>1. \A m \in Names : m # "result" => files'[m] = files[m]
      BY <1>0, <1>18, Writes DEF Blame
    <2> QED BY <1>0, <1>18, <2>1 DEF Blame, Gone, Staged, MadeBy, Started, StageSteps,
                                     MovedSteps
  <1>19. CASE HelperStarts
    BY <1>19 DEF HelperStarts, AppCloses, Gone, Staged, MadeBy, Started, StageSteps, MovedSteps
  <1>20. CASE HelperChecks \/ HelperPromotes \/ HelperRelaunches
    BY <1>2, <1>20 DEF HelperChecks, HelperPromotes, HelperRelaunches
  <1>21. CASE HelperSpends \/ PromotionEnds \/ HelperReports
    <2>1. /\ wpc = "none" /\ state # "READY" /\ UNCHANGED <<wpc, state, installs>>
          /\ \/ \E n \in {"token", "pkg"} : Remove(n)
             \/ Write("result", Code(hres))
             \/ UNCHANGED card
      BY <1>21 DEF HelperSpends, TokenSpent, PromotionEnds, HelperReports, Phases
    <2>2. \A m \in {"stage", "pkg", "token", "pending"} : files'[m] \in {files[m], None}
      BY <1>0, <2>1, Writes, Removes
    <2> QED BY <1>a, <1>b, <2>1, <2>2 DEF Staged, MadeBy, Started, StageSteps, MovedSteps
  <1>22. CASE LeavePackage
    <2>1. /\ wpc = "none" /\ state # "READY" /\ UNCHANGED <<wpc, state, installs>>
          /\ Write("pkg", Foreign)
      BY <1>22 DEF LeavePackage, Phases
    <2>2. files'["pkg"] = Foreign /\ \A m \in Names : m # "pkg" => files'[m] = files[m]
      BY <1>0, <2>1, Writes
    <2> QED BY <1>0, <1>b, <2>1, <2>2 DEF Staged, MadeBy, Started, StageSteps, MovedSteps
  <1>23. CASE PowerCut
    <2>1. /\ wpc' = "none" /\ state' = "IDLE" /\ installs' = installs
          /\ \A m \in Names : files'[m] \in {files[m], Empty}
      BY <1>23 DEF PowerCut, Gone
    <2> QED BY <1>0, <1>a, <1>b, <2>1 DEF Staged, MadeBy, Started, StageSteps, MovedSteps
  <1>24. CASE UNCHANGED vars
    BY <1>2, <1>24
  <1> QED BY <1>3, <1>5, <1>7, <1>8, <1>9, <1>10, <1>11, <1>12, <1>13, <1>14, <1>15,
             <1>16, <1>17, <1>18, <1>19, <1>20, <1>21, <1>22, <1>23, <1>24
          DEF Next, WorkerStep, LocalStep, MainStep, HelperStep

-----------------------------------------------------------------------------
(* Types                                                                   *)

Contents == -3..(MaxInstalls + 3)
Results  == {None, Empty, LaunchFailed, Failed, Succeeded}

\* TypeOk in two parts: the card, and what the processes keep in memory.
CardOk ==
    /\ files \in [Names -> Contents]
    /\ files["token"] \in {None, Empty} \cup Installs
    /\ files["result"] \in Results
    /\ unsynced \subseteq Names

AppOk == mpc \in MainSteps /\ upd \in States /\ launch \in BOOLEAN

WorkerOk ==
    /\ state \in States /\ latest \in {None} \cup Releases
    /\ busy \in BOOLEAN /\ abort \in BOOLEAN
    /\ wpc \in WorkSteps /\ (wpc \in {"none", "exited"} => ~busy)

HelpOk ==
    /\ hpc \in HelpSteps /\ hres \in {"none", "ok", "failed", "unwritten"}
    /\ spent \in 0..MaxInstalls /\ promotions \in [Installs -> Nat]

CountOk ==
    /\ installed \in Releases /\ helper \in BOOLEAN
    /\ installs \in 0..MaxInstalls /\ crashes \in 0..MaxCrashes
    /\ release \in [Installs -> {None} \cup Releases]

MemoryOk == AppOk /\ WorkerOk /\ HelpOk /\ CountOk

\* The two parts are the type invariant ...
LEMMA TypeParts == TypeOk <=> CardOk /\ MemoryOk
  BY DEF TypeOk, CardOk, MemoryOk, AppOk, WorkerOk, HelpOk, CountOk, Contents, Results

\* ... and so they are in the next state.
LEMMA TypePartsNext == TypeOk' <=> CardOk' /\ MemoryOk'
  BY TypeParts, PTL

\* A card operation keeps the card's type.
LEMMA WriteTyped ==
    ASSUME CardOk, NEW n \in Names, NEW content \in Contents, Write(n, content),
           n = "token" => content \in {None, Empty} \cup Installs,
           n = "result" => content \in Results
    PROVE  CardOk'
  BY DEF CardOk, Write, Names

\* So does a removal ...
LEMMA RemoveTyped ==
    ASSUME CardOk, NEW n \in Names, Remove(n)
    PROVE  CardOk'
  <1>1. None \in Contents /\ None \in Results
    BY DEF Contents, None, Results
  <1> QED BY <1>1 DEF CardOk, Remove, Names

\* ... and a move.
LEMMA MoveTyped ==
    ASSUME CardOk, Move("stage", "pkg")
    PROVE  CardOk'
  <1>1. None \in Contents
    BY DEF Contents, None
  <1> QED BY <1>1 DEF CardOk, Move, Names

\* Every step keeps the card's type.
LEMMA CardStep == TypeOk /\ Phases /\ [Next]_vars => CardOk'
  <1> SUFFICES ASSUME TypeOk, CardOk, Phases, [Next]_vars
               PROVE  CardOk'
    BY TypeParts
  <1>0. /\ "stage" \in Names /\ "pkg" \in Names /\ "token" \in Names
        /\ "pending" \in Names /\ "result" \in Names
    BY DEF Names
  <1>1. /\ Empty \in Contents /\ Helper \in Contents /\ Foreign \in Contents
        /\ Results \subseteq Contents
        /\ wpc \in InstallSteps => installs \in Contents /\ installs \in Installs
    BY DEF Contents, None, Empty, Helper, Foreign, Results, LaunchFailed, Failed, Succeeded,
           TypeOk, Phases, Installs
  <1> USE DEF vars, card, titles, app, worker, help, count, others, helpRest
  <1>2. CASE UNCHANGED card
    BY <1>2 DEF CardOk
  <1>3. CASE CleanStage \/ Unpack \/ CheckStage \/ EmptyPkg \/ CopyHelper \/ AbandonStage
    <2>1. /\ wpc \in InstallSteps
          /\ \E n \in {"stage", "pkg"}, c \in {Empty, Helper, installs} :
                 Write(n, c) \/ Remove(n)
      BY <1>3 DEF CleanStage, Unpack, CheckStage, EmptyPkg, CopyHelper, AbandonStage,
                  Abandon, InstallSteps, WorkSteps
    <2> QED BY <1>0, <1>1, <2>1, WriteTyped, RemoveTyped
  <1>4. CASE PromoteHelper \/ ClearPkg
    BY <1>0, <1>2, <1>4, RemoveTyped DEF PromoteHelper, ClearPkg
  <1>5. CASE OpenToken \/ WriteToken
    <2>1. /\ wpc \in InstallSteps
          /\ (\E c \in {Empty, installs} : Write("token", c)) \/ Remove("stage")
      BY <1>5 DEF OpenToken, WriteToken, Abandon, InstallSteps, WorkSteps
    <2> QED BY <1>0, <1>1, <2>1, WriteTyped, RemoveTyped
  <1>6. CASE Rename
    BY <1>0, <1>6, MoveTyped, RemoveTyped DEF Rename, NotMoved
  <1>7. CASE WritePending \/ UnlinkResult
    <2>1. /\ wpc \in InstallSteps
          /\ Write("pending", installs) \/ Remove("result") \/ UNCHANGED card
      BY <1>7 DEF WritePending, UnlinkResult, InstallSteps, WorkSteps
    <2> QED BY <1>0, <1>1, <1>2, <2>1, WriteTyped, RemoveTyped
  <1>8. CASE InitCleans
    BY <1>0, <1>8, RemoveTyped DEF InitCleans, Forget
  <1>9. CASE Blame \/ HelperReports
    <2>1. (\E c \in Results : Write("result", c)) \/ UNCHANGED card
      BY <1>9 DEF Blame, HelperReports, Results, Code
    <2> QED BY <1>0, <1>1, <1>2, <2>1, WriteTyped
  <1>10. CASE HelperSpends \/ PromotionEnds
    BY <1>0, <1>2, <1>10, RemoveTyped DEF HelperSpends, TokenSpent, PromotionEnds
  <1>11. CASE LeavePackage
    BY <1>0, <1>1, <1>11, WriteTyped DEF LeavePackage
  <1>12. CASE PowerCut
    <2>1. PICK lost \in SUBSET unsynced :
             files' = [n \in Names |-> IF n \in lost /\ files[n] # None THEN Empty
                                                                       ELSE files[n]]
      BY <1>12 DEF PowerCut
    <2>2. unsynced' = {} /\ Empty \in Results
      BY <1>12 DEF PowerCut, Results
    <2> QED BY <1>0, <1>1, <2>1, <2>2 DEF CardOk
  <1> QED BY <1>2, <1>3, <1>4, <1>5, <1>6, <1>7, <1>8, <1>9, <1>10, <1>11, <1>12
          DEF Next, WorkerStep, LocalStep, MainStep, HelperStep,
              CheckEnds, Start, Download, Ready, WorkerDone, ReadResult, Sample, Act,
              Leave, Join, Teardown, LaunchOnce, LaunchAgain, HelperStarts, HelperChecks,
              HelperPromotes, HelperRelaunches, OpenApp, OpenHelper

\* A process that is gone leaves its variables as Init has them.
LEMMA GoneTyped == Gone => AppOk' /\ WorkerOk'
  BY DEF Gone, AppOk, WorkerOk, MainSteps, WorkSteps, States

\* A group of variables a step leaves alone keeps its type.
LEMMA SameTyped ==
    /\ AppOk /\ UNCHANGED app => AppOk'
    /\ WorkerOk /\ UNCHANGED worker => WorkerOk'
    /\ HelpOk /\ UNCHANGED help => HelpOk'
    /\ CountOk /\ UNCHANGED <<titles, count>> => CountOk'
  BY DEF app, worker, help, titles, count, AppOk, WorkerOk, HelpOk, CountOk

\* A step of the worker keeps the worker's variables in their types.
LEMMA WorkerTyped == WorkerOk /\ WorkerStep => WorkerOk'
  <1> SUFFICES ASSUME WorkerOk, WorkerStep PROVE WorkerOk'
    OBVIOUS
  <1>1. CASE CheckEnds \/ Start \/ Download
    BY <1>1 DEF CheckEnds, Start, Download, Say, Goto, WorkerOk, States, WorkSteps
  <1>2. CASE CleanStage \/ Unpack \/ CheckStage \/ EmptyPkg \/ CopyHelper
    BY <1>2 DEF CleanStage, Unpack, CheckStage, EmptyPkg, CopyHelper,
                Abandon, Say, Goto, WorkerOk, States, WorkSteps
  <1>3. CASE PromoteHelper \/ ClearPkg \/ OpenToken \/ WriteToken \/ Rename \/ AbandonStage
    BY <1>3 DEF PromoteHelper, ClearPkg, OpenToken, WriteToken, Rename, NotMoved,
                AbandonStage, Abandon, Say, Goto, WorkerOk, States, WorkSteps
  <1>4. CASE WritePending \/ UnlinkResult \/ Ready
    BY <1>4 DEF WritePending, UnlinkResult, Ready, Say, Goto, WorkerOk, States, WorkSteps
  <1>5. CASE WorkerDone
    BY <1>5 DEF WorkerDone, WorkerOk, WorkSteps
  <1> QED BY <1>1, <1>2, <1>3, <1>4, <1>5 DEF WorkerStep, LocalStep

\* Every step keeps what the processes have in memory in its type.
LEMMA MemoryStep == TypeOk /\ Phases /\ Spending /\ [Next]_vars => MemoryOk'
  <1> SUFFICES ASSUME AppOk, WorkerOk, HelpOk, CountOk, Phases, Spending, [Next]_vars
               PROVE  AppOk' /\ WorkerOk' /\ HelpOk' /\ CountOk'
    BY TypeParts DEF MemoryOk
  <1>1. CASE WorkerStep
    <2>1. UNCHANGED app /\ UNCHANGED help /\ UNCHANGED count /\ installed' = installed
      BY <1>1 DEF WorkerStep, LocalStep, CheckEnds, Start, Download, CleanStage, Unpack,
                  CheckStage, EmptyPkg, CopyHelper, PromoteHelper, ClearPkg, OpenToken,
                  WriteToken, Rename, AbandonStage, WritePending, UnlinkResult, Ready,
                  WorkerDone, others, titles
    <2>2. helper' \in {helper, TRUE}
      BY <1>1 DEF WorkerStep, LocalStep, CheckEnds, Start, Download, CleanStage, Unpack,
                  CheckStage, EmptyPkg, CopyHelper, PromoteHelper, ClearPkg, OpenToken,
                  WriteToken, Rename, AbandonStage, WritePending, UnlinkResult, Ready,
                  WorkerDone, others, titles
    <2>3. CountOk'
      BY <2>1, <2>2 DEF CountOk, count
    <2> QED BY <1>1, <2>1, <2>3, SameTyped, WorkerTyped
  <1>2. CASE ReadResult \/ InitCleans \/ Sample \/ OpenApp
    <2>1. /\ UNCHANGED help /\ UNCHANGED <<titles, count>>
          /\ UNCHANGED <<latest, busy, abort, wpc>>
          /\ launch' = launch /\ upd' \in {upd, state} /\ mpc' \in MainSteps
          /\ state' \in {state, "ERROR", "UP_TO_DATE"}
      BY <1>2 DEF ReadResult, InitCleans, Forget, Sample, OpenApp, MainSteps, titles, count,
                  help, worker
    <2>2. AppOk' /\ WorkerOk'
      BY <2>1 DEF AppOk, WorkerOk, States
    <2> QED BY <2>1, <2>2, SameTyped
  <1>3. CASE Act
    <2>1. AppOk'
      BY <1>3 DEF Act, AppOk, MainSteps, States
    <2>2. UNCHANGED help /\ UNCHANGED titles /\ crashes' = crashes
      BY <1>3 DEF Act
    <2>3. WorkerOk'
      <3>1. CASE UNCHANGED worker
        BY <3>1, SameTyped
      <3>2. CASE ~UNCHANGED worker
        <4>1. /\ latest' = latest /\ abort' = FALSE
              /\ state' \in {"CHECKING", "DOWNLOADING", "ERROR"}
              /\ \/ busy' = TRUE /\ wpc' \in {"check", "start"}
                 \/ busy' = FALSE /\ wpc' = "none"
          BY <1>3, <3>2 DEF Act, updater_install, updater_check, StartWorker, Say, worker
        <4> QED BY <4>1 DEF WorkerOk, States, WorkSteps
      <3> QED BY <3>1, <3>2
    <2>4. installs' \in 0..MaxInstalls /\ release' \in [Installs -> {None} \cup Releases]
      BY <1>3 DEF Act, updater_install, updater_check, CountOk, WorkerOk
    <2> QED BY <2>1, <2>2, <2>3, <2>4, SameTyped DEF CountOk, titles
  <1>4. CASE Leave \/ Join
    <2>1. /\ mpc' \in {"join", "teardown"} /\ UNCHANGED <<upd, launch, state, latest, busy>>
          /\ abort' \in {abort, TRUE} /\ UNCHANGED help /\ UNCHANGED <<titles, count>>
          /\ wpc' = wpc \/ (wpc \in {"none", "exited"} /\ wpc' = "none")
      BY <1>4 DEF Leave, Join
    <2>2. AppOk' /\ WorkerOk'
      BY <2>1, ZenonT(30) DEF AppOk, WorkerOk, MainSteps, WorkSteps
    <2> QED BY <2>1, <2>2, SameTyped
  <1>5. CASE Teardown \/ LaunchOnce \/ LaunchAgain \/ Blame \/ OpenHelper \/ LeavePackage
    <2>1. /\ UNCHANGED <<titles, count>> /\ UNCHANGED <<hres, spent, promotions>>
          /\ hpc' \in {hpc, "start"}
          /\ \/ Gone
             \/ UNCHANGED worker /\ UNCHANGED <<upd, launch>>
                /\ mpc' \in {mpc, "launch", "again", "blame"}
      BY <1>5 DEF Teardown, LaunchOnce, LaunchAgain, Blame, OpenHelper, LeavePackage,
                  help, helpRest, app
    <2>2. AppOk' /\ WorkerOk'
      BY <2>1, GoneTyped, SameTyped DEF AppOk, MainSteps
    <2>3. HelpOk'
      BY <2>1 DEF HelpOk, HelpSteps
    <2> QED BY <2>1, <2>2, <2>3, SameTyped
  <1>6. CASE HelperStarts
    BY <1>6, GoneTyped, SameTyped DEF HelperStarts, AppCloses, HelpOk, HelpSteps
  <1>7. CASE HelperChecks
    <2>1. spent' \in 0..MaxInstalls
      BY <1>7 DEF HelperChecks, PackageIsOurs, TokenIsFor, Installs, HelpOk
    <2> QED BY <1>7, <2>1, SameTyped DEF HelperChecks, HelpOk, HelpSteps, helpRest
  <1>8. CASE HelperSpends \/ HelperReports
    BY <1>8, SameTyped DEF HelperSpends, HelperReports, HelpOk, HelpSteps, helpRest
  <1>9. CASE HelperPromotes
    BY <1>9, SameTyped DEF HelperPromotes, HelpOk, HelpSteps, helpRest
  <1>10. CASE PromotionEnds
    <2>1. installed' \in Releases
      BY <1>10 DEF PromotionEnds, Phases, Spending, CountOk
    <2>2. HelpOk'
      BY <1>10 DEF PromotionEnds, HelpOk, HelpSteps
    <2> QED BY <1>10, <2>1, <2>2, SameTyped DEF PromotionEnds, CountOk, count
  <1>11. CASE HelperRelaunches
    BY <1>11, SameTyped DEF HelperRelaunches, HelpOk, HelpSteps, AppOk, MainSteps
  <1>12. CASE PowerCut
    <2>1. HelpOk' /\ CountOk'
      BY <1>12 DEF PowerCut, HelpOk, HelpSteps, CountOk, titles
    <2> QED BY <1>12, <2>1, GoneTyped DEF PowerCut
  <1>13. CASE UNCHANGED vars
    BY <1>13, SameTyped DEF vars
  <1> QED BY <1>1, <1>2, <1>3, <1>4, <1>5, <1>6, <1>7, <1>8, <1>9, <1>10, <1>11, <1>12,
             <1>13 DEF Next, MainStep, HelperStep

-----------------------------------------------------------------------------
(* Spending the token                                                      *)

\* Steps that start no install, accept no token and promote nothing.
LEMMA SpendingKept ==
    ASSUME Spending, hpc' \notin {"spend", "promote", "promoting"},
           UNCHANGED <<promotions, installs>>,
           \/ files'["token"] \in {files["token"], None, Empty}
           \/ files'["token"] = installs /\ wpc \in InstallSteps,
           wpc' \in InstallSteps => wpc \in InstallSteps
    PROVE  Spending'
  BY DEF Spending, Started, None, Empty

\* What the worker does to the token.
LEMMA WorkerAndToken ==
    ASSUME TypeOk, WorkerStep
    PROVE  /\ \/ files'["token"] \in {files["token"], None, Empty}
              \/ files'["token"] = installs /\ wpc \in InstallSteps
           /\ wpc' \in InstallSteps => wpc \in InstallSteps
  <1>0. "stage" \in Names /\ "pkg" \in Names /\ "token" \in Names /\ "pending" \in Names
        /\ "result" \in Names
    BY DEF Names
  <1> USE DEF InstallSteps, WorkSteps
  <1>1. CASE CheckEnds \/ Start \/ Download \/ Ready \/ WorkerDone
    BY <1>1 DEF CheckEnds, Start, Download, Ready, WorkerDone, Goto, card
  <1>2. CASE CleanStage \/ Unpack \/ CheckStage \/ AbandonStage
    <2>1. /\ wpc \in InstallSteps
          /\ \E c \in {Empty, installs} : Write("stage", c) \/ Remove("stage")
      BY <1>2 DEF CleanStage, Unpack, CheckStage, AbandonStage, Abandon
    <2> QED BY <1>0, <2>1, Writes, Removes
  <1>3. CASE EmptyPkg \/ CopyHelper \/ ClearPkg \/ PromoteHelper
    <2>1. /\ wpc \in InstallSteps
          /\ \/ \E c \in {Empty, Helper} : Write("pkg", c) \/ Remove("pkg")
             \/ UNCHANGED card
      BY <1>3 DEF EmptyPkg, CopyHelper, ClearPkg, PromoteHelper
    <2> QED BY <1>0, <2>1, Writes, Removes DEF card
  <1>4. CASE OpenToken \/ WriteToken \/ Rename
    <2>1. /\ wpc \in InstallSteps
          /\ \/ \E c \in {Empty, installs} : Write("token", c)
             \/ \E n \in {"stage", "token"} : Remove(n)
             \/ Move("stage", "pkg")
      BY <1>4 DEF OpenToken, WriteToken, Rename, NotMoved, Abandon
    <2> QED BY <1>0, <2>1, Writes, Removes, Moves
  <1>5. CASE WritePending \/ UnlinkResult
    <2>1. /\ wpc \in InstallSteps
          /\ Write("pending", installs) \/ Remove("result") \/ UNCHANGED card
      BY <1>5 DEF WritePending, UnlinkResult
    <2> QED BY <1>0, <2>1, Writes, Removes DEF card
  <1> QED BY <1>1, <1>2, <1>3, <1>4, <1>5 DEF WorkerStep, LocalStep

\* No step puts a used token on the card, or lets the helper promote under one that is
\* still there.
LEMMA SpendingStep ==
    TypeOk /\ Phases /\ Staged /\ Spending /\ [Next]_vars => Spending'
  <1> SUFFICES ASSUME TypeOk, Phases, Staged, Spending, [Next]_vars
               PROVE  Spending'
    OBVIOUS
  <1>0. "token" \in Names /\ "pkg" \in Names /\ "result" \in Names
    BY DEF Names
  <1>a. "none" \notin InstallSteps /\ "check" \notin InstallSteps
    BY DEF InstallSteps
  <1> USE DEF vars, card, titles, app, worker, help, count, others, helpRest
  <1>1. CASE WorkerStep
    <2>1. UNCHANGED <<hpc, mpc, promotions, installs>> /\ wpc # "none"
      BY <1>1 DEF WorkerStep, LocalStep, CheckEnds, Start, Download, CleanStage, Unpack,
                  CheckStage, EmptyPkg, CopyHelper, PromoteHelper, ClearPkg, OpenToken,
                  WriteToken, Rename, AbandonStage, WritePending, UnlinkResult, Ready,
                  WorkerDone
    <2>2. hpc \in {"off", "start"}
      BY <2>1 DEF Phases
    <2> QED BY <1>1, <2>1, <2>2, WorkerAndToken, SpendingKept
  <1>2. CASE MainStep /\ ~Act
    <2>1. mpc # "off" /\ UNCHANGED <<promotions, installs>> /\ hpc' \in {hpc, "start"}
          /\ wpc' \in {wpc, "none"}
      BY <1>2 DEF MainStep, ReadResult, InitCleans, Forget, Sample, Leave, Join, Teardown,
                  LaunchOnce, LaunchAgain, Blame, Gone
    <2>2. hpc' \in {"off", "start"}
      BY <2>1 DEF Phases
    <2>3. (\E n \in Names : Remove(n)) \/ Write("result", LaunchFailed) \/ UNCHANGED card
      BY <1>2 DEF MainStep, ReadResult, InitCleans, Forget, Sample, Leave, Join, Teardown,
                  LaunchOnce, LaunchAgain, Blame, Names
    <2>4. files'["token"] \in {files["token"], None}
      BY <1>0, <2>3, Writes, Removes
    <2> QED BY <1>a, <2>1, <2>2, <2>4, SpendingKept
  <1>3. CASE Act
    <2>1. hpc' = hpc /\ hpc \in {"off", "start"} /\ promotions' = promotions /\ files' = files
      BY <1>3 DEF Act, Phases
    <2>2. CASE UNCHANGED <<worker, installs, release>> \/ updater_check
               \/ (updater_install /\ (busy \/ state # "AVAILABLE"))
      <3>1. installs' = installs /\ wpc' \in {wpc, "none", "check"}
        BY <2>2 DEF updater_check, updater_install, StartWorker
      <3> QED BY <1>a, <2>1, <3>1, SpendingKept
    <2>3. CASE updater_install /\ ~(busy \/ state # "AVAILABLE")
      <3>1. installs' = installs + 1 /\ installs \in Nat /\ installs' \in Installs
        BY <2>3 DEF updater_install, TypeOk, Installs
      <3>2. promotions[installs + 1] = 0
        BY <3>1 DEF Spending
      <3>3. files["token"] \in 1..(installs + 1) => files["token"] \in Started
        BY <3>1 DEF Staged, MadeBy, Started, None, Empty
      <3> QED BY <2>1, <3>1, <3>2, <3>3 DEF Spending, Started
    <2> QED BY <1>3, <2>2, <2>3 DEF Act
  <1>4. CASE HelperStarts
    BY <1>4, <1>a, SpendingKept DEF HelperStarts, AppCloses, Gone
  <1>5. CASE HelperChecks
    <2>1. UNCHANGED <<files, promotions, installs, wpc>>
      BY <1>5 DEF HelperChecks
    <2>2. CASE PackageIsOurs
      <3>1. files["token"] \in Installs /\ files["pkg"] \in Installs
            /\ spent' = files["token"] /\ hpc' = "spend"
        BY <1>5, <2>2 DEF HelperChecks, PackageIsOurs, TokenIsFor
      <3>2. files["token"] \in Started /\ files["pkg"] \in Started
        BY <3>1 DEF Staged, MadeBy, Installs, None, Empty, Helper, Foreign
      <3>3. files["pkg"] = files["token"]
        BY <3>2 DEF Staged
      <3> QED BY <2>1, <3>1, <3>2, <3>3 DEF Spending, Started
    <2>3. CASE ~PackageIsOurs
      BY <1>5, <2>1, <2>3, SpendingKept DEF HelperChecks
    <2> QED BY <2>2, <2>3
  <1>6. CASE HelperSpends
    <2>1. /\ files'["token"] = None /\ files'["pkg"] = files["pkg"]
          /\ UNCHANGED <<promotions, installs, wpc, spent>>
          /\ hpc = "spend" /\ hpc' = "promote"
      BY <1>0, <1>6, Removes DEF HelperSpends, TokenSpent
    <2>2. None \notin Started
      BY DEF None, Started
    <2>3. promotions[spent] = 0
      BY <2>1 DEF Spending
    <2> QED BY <2>1, <2>2, <2>3 DEF Spending, Started
  <1>7. CASE HelperPromotes
    <2>1. /\ UNCHANGED <<files, installs, wpc, spent>> /\ wpc = "none"
          /\ hpc = "promote" /\ hpc' = "promoting"
          /\ spent \in Started /\ files["pkg"] = spent /\ files["token"] = None
      BY <1>7 DEF HelperPromotes, Phases, Spending
    <2>2. \A n \in Installs : n > installs => promotions'[n] = promotions[n]
      BY <1>7, <2>1 DEF HelperPromotes, TypeOk, Started
    <2>3. None \notin Started
      BY DEF None, Started
    <2> QED BY <1>a, <2>1, <2>2, <2>3 DEF Spending, Started
  <1>8. CASE PromotionEnds \/ HelperReports \/ HelperRelaunches
    <2>1. /\ hpc' \in {"report", "relaunch", "off"} /\ UNCHANGED <<promotions, installs, wpc>>
          /\ Remove("pkg") \/ Write("result", Code(hres)) \/ UNCHANGED card
      BY <1>8 DEF PromotionEnds, HelperReports, HelperRelaunches
    <2>2. files'["token"] = files["token"]
      BY <1>0, <2>1, Writes, Removes
    <2> QED BY <2>1, <2>2, SpendingKept
  <1>9. CASE OpenApp \/ OpenHelper
    BY <1>9, SpendingKept DEF OpenApp, OpenHelper
  <1>10. CASE LeavePackage
    <2>1. files'["token"] = files["token"]
      BY <1>0, <1>10, Writes DEF LeavePackage
    <2> QED BY <1>10, <2>1, SpendingKept DEF LeavePackage
  <1>11. CASE PowerCut
    <2>1. files'["token"] \in {files["token"], Empty}
      BY <1>0, <1>11 DEF PowerCut
    <2> QED BY <1>11, <1>a, <2>1, SpendingKept DEF PowerCut, Gone
  <1>12. CASE UNCHANGED vars
    BY <1>12 DEF Spending, Started
  <1> QED BY <1>1, <1>2, <1>3, <1>4, <1>5, <1>6, <1>7, <1>8, <1>9, <1>10, <1>11, <1>12
          DEF Next, MainStep, HelperStep

\* Only the helper's promotion counts as one.
LEMMA PromotionsStep ==
    TypeOk /\ [Next]_vars =>
        \/ promotions' = promotions
        \/ /\ hpc = "promote"
           /\ \E n \in Installs : /\ n = files["pkg"]
                                  /\ promotions' = [promotions EXCEPT ![n] = @ + 1]
  <1> SUFFICES ASSUME TypeOk, [Next]_vars, promotions' # promotions
               PROVE  HelperPromotes
    BY DEF HelperPromotes
  <1> USE DEF vars, help, others, helpRest
  <1>1. ~WorkerStep
    BY DEF WorkerStep, LocalStep, CheckEnds, Start, Download, CleanStage, Unpack,
           CheckStage, EmptyPkg, CopyHelper, PromoteHelper, ClearPkg, OpenToken,
           WriteToken, Rename, AbandonStage, WritePending, UnlinkResult, Ready, WorkerDone
  <1>2. ~MainStep
    BY DEF MainStep, ReadResult, InitCleans, Forget, Sample, Act, Leave, Join, Teardown,
           LaunchOnce, LaunchAgain, Blame
  <1> QED BY <1>1, <1>2 DEF Next, HelperStep, HelperStarts, HelperChecks, HelperSpends,
                            PromotionEnds, HelperReports, HelperRelaunches, OpenApp,
                            OpenHelper, LeavePackage, PowerCut

\* The package promoted has not been promoted before.
LEMMA OneShotStep == TypeOk /\ Spending /\ OneShot /\ [Next]_vars => OneShot'
  <1> SUFFICES ASSUME TypeOk, Spending, OneShot,
                      hpc = "promote", NEW n \in Installs, n = files["pkg"],
                      promotions' = [promotions EXCEPT ![n] = @ + 1]
               PROVE  OneShot'
    BY PromotionsStep DEF OneShot
  <1>1. promotions[n] = 0
    BY DEF Spending
  <1> QED BY <1>1 DEF OneShot, TypeOk

\* What the helper has reported stands until it has opened the application.
LEMMA ResultStep == TypeOk /\ Phases /\ HelperResultWins /\ [Next]_vars => HelperResultWins'
  <1> SUFFICES ASSUME TypeOk, Phases, HelperResultWins, [Next]_vars,
                      hpc' = "relaunch", hres' # "unwritten"
               PROVE  files'["result"] = Code(hres')
    BY DEF HelperResultWins
  <1> USE DEF vars, help, others, helpRest
  <1>1. ~WorkerStep
    <2> SUFFICES ASSUME WorkerStep PROVE hpc' = hpc /\ wpc # "none"
      BY DEF Phases
    <2> QED BY DEF WorkerStep, LocalStep, CheckEnds, Start, Download, CleanStage, Unpack,
                   CheckStage, EmptyPkg, CopyHelper, PromoteHelper, ClearPkg, OpenToken,
                   WriteToken, Rename, AbandonStage, WritePending, UnlinkResult, Ready,
                   WorkerDone
  <1>2. ~MainStep
    <2> SUFFICES ASSUME MainStep PROVE hpc' \in {hpc, "start"} /\ mpc # "off"
      BY DEF Phases
    <2> QED BY DEF MainStep, ReadResult, InitCleans, Forget, Sample, Act, Leave, Join,
                   Teardown, LaunchOnce, LaunchAgain, Blame
  <1>3. HelperReports \/ UNCHANGED vars
    BY <1>1, <1>2 DEF Next, HelperStep, HelperStarts, HelperChecks, HelperSpends,
                      HelperPromotes, PromotionEnds, HelperRelaunches, OpenApp,
                      OpenHelper, LeavePackage, PowerCut
  <1>4. CASE HelperReports
    <2>1. Write("result", Code(hres)) /\ hres' = hres
      BY <1>4 DEF HelperReports
    <2> QED BY <2>1, Writes DEF Names
  <1>5. CASE UNCHANGED vars
    BY <1>5 DEF HelperResultWins, card
  <1> QED BY <1>3, <1>4, <1>5

-----------------------------------------------------------------------------
(* Theorems                                                                *)

\* An untouched card and nothing running satisfy the invariant.
LEMMA InitIInv == Init => IInv
  <1> SUFFICES ASSUME Init PROVE IInv
    OBVIOUS
  <1>1. CardOk
    BY DEF Init, CardOk, Contents, Results, None, Names
  <1>a. 0 \in 0..MaxInstalls /\ 0 \in 0..MaxCrashes /\ 1 \in Releases
    BY BoundAssumption DEF Releases
  <1>2. AppOk /\ WorkerOk
    BY DEF Init, AppOk, WorkerOk, MainSteps, WorkSteps, States
  <1>b. HelpOk
    BY <1>a DEF Init, HelpOk, HelpSteps
  <1>3. CountOk
    BY <1>a DEF Init, CountOk
  <1>4. TypeOk
    BY <1>1, <1>2, <1>b, <1>3, TypeParts DEF MemoryOk
  <1>5. Phases
    BY DEF Init, Phases, InitSteps, InstallSteps, Started
  <1>6. Staged
    BY DEF Init, Staged, MadeBy, Started, StageSteps, MovedSteps, Names, None
  <1>7. Spending
    BY DEF Init, Spending, Started, InstallSteps, Names, None
  <1>8. OneShot /\ HelperResultWins
    BY DEF Init, OneShot, HelperResultWins
  <1> QED BY <1>4, <1>5, <1>6, <1>7, <1>8 DEF IInv

\* In every reachable state of application, worker and helper, for any number of
\* releases, installs and power cuts: the invariant the theorems below follow from
\* (updater.c, updater/main.c).
THEOREM Invariance == Spec => []IInv
  <1>1. IInv /\ [Next]_vars => IInv'
    <2> SUFFICES ASSUME IInv, [Next]_vars PROVE IInv'
      OBVIOUS
    <2>1. TypeOk'
      <3>1. CardOk' /\ MemoryOk'
        BY CardStep, MemoryStep DEF IInv
      <3> QED BY <3>1, TypePartsNext
    <2> QED BY <2>1, PhaseStep, StagedStep, SpendingStep, OneShotStep, ResultStep DEF IInv
  <1> QED BY <1>1, InitIInv, PTL DEF Spec

\* No install's package is promoted twice: the helper spends the token before it
\* promotes, and no token is written for that install again (updater/main.c:89-92).
THEOREM PromotedOnce == Spec => []OneShot
  BY Invariance, PTL DEF IInv

\* What the helper promotes is the package its token was written for, and UPD_READY
\* means package and token of this install are in place (updater/main.c:44-69,
\* updater.c:466-484).
THEOREM PromotedAsAuthorised == Spec => []OnlyAuthorised
  <1>1. IInv => OnlyAuthorised
    BY DEF IInv, Staged, Spending, OnlyAuthorised
  <1> QED BY <1>1, Invariance, PTL

\* Every file and variable stays in its type, and the application's own complaint
\* never replaces what the helper reported (updater.c:601-608).
THEOREM FilesAgree == Spec => []SharedFilesSound
  <1>1. IInv => SharedFilesSound
    BY DEF IInv, SharedFilesSound
  <1> QED BY <1>1, Invariance, PTL

=============================================================================
