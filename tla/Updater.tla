------------------------------ MODULE Updater ------------------------------
(***************************************************************************)
(* The self-update: src/src/updater.c with its worker thread, the part of  *)
(* src/src/main.c that drives it and tears it down, and the helper title   *)
(* src/updater/main.c, a process of its own that shares only files with    *)
(* the application and that the user can open at any time.                 *)
(*                                                                         *)
(* A step of the worker, of the helper or of updater_init is at most one   *)
(* operation on the card, and the power can go between any two.  Directory *)
(* operations reach the card in order; data that nobody synced may not, and*)
(* the file it was written to then reads as empty.  A package, a token and *)
(* a pending tag are the number of the install they were made by; of the   *)
(* files of a package only eboot.bin and param.sfo matter, and two         *)
(* packages have the same param.sfo when they are of the same release.     *)
(***************************************************************************)
EXTENDS Integers

CONSTANTS MaxRelease,   \* bound: releases ever published
          MaxInstalls,  \* bound: installs the user starts
          MaxCrashes    \* bound: power cuts, and the user closing everything

ASSUME BoundAssumption ==
    MaxRelease \in Nat \ {0} /\ MaxInstalls \in Nat /\ MaxCrashes \in Nat

VARIABLES
    files,      \* what the card holds under each name
    unsynced,   \* the names whose data may not have reached it
    installed,  \* the release of the application on the LiveArea
    helper,     \* the helper title is on the LiveArea
    mpc,        \* where the application's main() is; "off": not running
    upd,        \* the updater's state as sampled this frame
    launch,     \* launch_updater
    state,      \* s_status.state
    latest,     \* the release of s_status.latest and s_vpk_url
    busy, abort,
    wpc,        \* where the worker thread is; "none": no thread to join
    hpc,        \* where the helper is; "off": not running
    hres,       \* its res, and whether it could be written down
    installs,   \* installs started
    release,    \* the release each of them was for
    spent,      \* the token the helper has accepted
    promotions, \* how often the package of each install was promoted
    crashes

card   == <<files, unsynced>>
titles == <<installed, helper>>
app    == <<mpc, upd, launch>>
worker == <<state, latest, busy, abort, wpc>>
help   == <<hpc, hres, spent, promotions>>
count  == <<installs, release, crashes>>
vars   == <<card, titles, app, worker, help, count>>

Installs == 1..MaxInstalls
Releases == 1..MaxRelease

Names   == {"stage", "pkg", "token", "pending", "result"}
None    == 0
Empty   == -1       \* a package with a file missing, or a file cut short
Helper  == -2       \* the helper's own package
Foreign == -3       \* a Vita Radio package no install staged
LaunchFailed == 1   \* contents of RESULT_PATH
Failed       == 2
Succeeded    == 3

States == {"IDLE", "CHECKING", "UP_TO_DATE", "AVAILABLE", "DOWNLOADING",
           "INSTALLING", "READY", "ERROR"}
MainSteps == {"off", "init", "forget", "unpend", "untoken", "unpkg", "loop",
              "act", "leave", "join", "teardown", "launch", "again", "blame"}
WorkSteps == {"none", "check", "start", "download", "clean", "unpack", "head",
              "empty", "copy", "promote", "clear", "open", "token", "rename",
              "abandon", "pending", "unresult", "ready", "done", "exited"}
HelpSteps == {"off", "start", "check", "spend", "promote", "promoting",
              "report", "relaunch"}

TypeOk ==
    /\ files \in [Names -> -3..(MaxInstalls + 3)]
    /\ files["token"] \in {None, Empty} \cup Installs
    /\ files["result"] \in {None, Empty, LaunchFailed, Failed, Succeeded}
    /\ unsynced \subseteq Names
    /\ installed \in Releases /\ latest \in {None} \cup Releases
    /\ {helper, launch, busy, abort} \subseteq BOOLEAN
    /\ mpc \in MainSteps /\ wpc \in WorkSteps /\ hpc \in HelpSteps
    /\ {upd, state} \subseteq States
    /\ hres \in {"none", "ok", "failed", "unwritten"}
    /\ installs \in 0..MaxInstalls /\ spent \in 0..MaxInstalls
    /\ release \in [Installs -> {None} \cup Releases]
    /\ promotions \in [Installs -> Nat]
    /\ crashes \in 0..MaxCrashes
    /\ wpc \in {"none", "exited"} => ~busy

Init ==
    /\ files = [n \in Names |-> None] /\ unsynced = {}
    /\ installed = 1 /\ helper = FALSE
    /\ mpc = "off" /\ upd = "IDLE" /\ launch = FALSE
    /\ state = "IDLE" /\ latest = None
    /\ busy = FALSE /\ abort = FALSE /\ wpc = "none"
    /\ hpc = "off" /\ hres = "none"
    /\ installs = 0 /\ release = [n \in Installs |-> None]
    /\ spent = 0 /\ promotions = [n \in Installs |-> 0]
    /\ crashes = 0

-----------------------------------------------------------------------------
(* The card                                                                *)

\* write_all, copy_file, zip_extract: the data is not synced.
Write(n, content) ==
    /\ files' = [files EXCEPT ![n] = content]
    /\ unsynced' = unsynced \cup {n}

\* unlink, fs_rm_tree
Remove(n) ==
    /\ files' = [files EXCEPT ![n] = None]
    /\ unsynced' = unsynced \ {n}

\* A directory is renamed only where there is none.
Move(from, to) ==
    /\ files[from] # None /\ files[to] = None
    /\ files' = [files EXCEPT ![to] = files[from], ![from] = None]
    /\ unsynced' = {IF n = from THEN to ELSE n : n \in unsynced}

-----------------------------------------------------------------------------
(* The worker: check_thread and install_thread                             *)

Goto(step) == wpc' = step /\ UNCHANGED <<latest, busy, abort>>

others == <<titles, app, help, count>>

Say(s) == state' = s

\* The check ends: cancelled, failed, or with the release the server has.
CheckEnds ==
    /\ wpc = "check"
    /\ \/ abort /\ Say("IDLE") /\ UNCHANGED latest
       \/ ~abort /\ Say("ERROR") /\ UNCHANGED latest
       \/ /\ ~abort
          /\ \E r \in Releases :
                 latest' = r /\ Say(IF r > installed THEN "AVAILABLE" ELSE "UP_TO_DATE")
    /\ wpc' = "done"
    /\ UNCHANGED <<busy, abort, card, others>>

Start ==
    /\ wpc = "start"
    /\ Say("DOWNLOADING") /\ Goto("download")
    /\ UNCHANGED <<card, others>>

\* Faulty variant: the progress callback does not look at s_abort.
TransferRunsOn == FALSE

\* "return atomic_load(&s_abort) ? 1 : 0"
TransferCancelled == abort

\* download_vpk: cancelled, failed, or complete.
Download ==
    /\ wpc = "download"
    /\ \/ abort /\ Say("IDLE") /\ Goto("done")
       \/ ~abort /\ Say("ERROR") /\ Goto("done")
       \/ ~abort /\ Say("INSTALLING") /\ Goto("clean")
    /\ UNCHANGED <<card, others>>

CleanStage ==
    /\ wpc = "clean"
    /\ Remove("stage") /\ Goto("unpack")
    /\ UNCHANGED <<state, others>>

\* fs_rm_tree(STAGE_DIR) and the error of a package that cannot be used.
Abandon(s) == Remove("stage") /\ Say(s) /\ Goto("done")

\* zip_extract has created the first files, or ends.
Unpack ==
    /\ wpc = "unpack"
    /\ \/ files["stage"] = None /\ Write("stage", Empty) /\ Goto("unpack") /\ UNCHANGED state
       \/ Write("stage", installs) /\ Goto("head") /\ UNCHANGED state
       \/ abort /\ Abandon("IDLE")
       \/ Abandon("ERROR")
    /\ UNCHANGED others

\* stage_looks_complete and write_head_bin
CheckStage ==
    /\ wpc = "head"
    /\ \/ Write("stage", installs) /\ Goto("empty") /\ UNCHANGED state
       \/ Abandon("ERROR")
    /\ UNCHANGED others

\* install_helper
EmptyPkg ==
    /\ wpc = "empty"
    /\ Remove("pkg") /\ Goto("copy")
    /\ UNCHANGED <<state, others>>

CopyHelper ==
    /\ wpc = "copy"
    /\ \/ Write("pkg", Helper) /\ Goto("promote") /\ UNCHANGED state
       \/ Write("pkg", Empty) /\ Say("ERROR") /\ Goto("done")
    /\ UNCHANGED others

\* The promoter takes the package, moved or copied, or refuses it.
PromoteHelper ==
    /\ wpc = "promote"
    /\ \/ (Remove("pkg") \/ UNCHANGED card)
          /\ helper' = TRUE /\ Goto("clear") /\ UNCHANGED state
       \/ Say("ERROR") /\ Goto("done") /\ UNCHANGED <<card, helper>>
    /\ UNCHANGED <<installed, app, help, count>>

ClearPkg ==
    /\ wpc = "clear"
    /\ Remove("pkg") /\ Goto("open")
    /\ UNCHANGED <<state, others>>

\* write_update_token: its fopen truncates an earlier token ...
OpenToken ==
    /\ wpc = "open"
    /\ \/ Write("token", Empty) /\ Goto("token") /\ UNCHANGED state
       \/ Abandon("ERROR")
    /\ UNCHANGED others

WriteToken ==
    /\ wpc = "token"
    /\ \/ Write("token", installs) /\ Goto("rename") /\ UNCHANGED state
       \/ Abandon("ERROR")
    /\ UNCHANGED others

\* The move failed: unlink(TOKEN_PATH), then fs_rm_tree(STAGE_DIR).
NotMoved == Remove("token") /\ Goto("abandon") /\ UNCHANGED state

\* "so the helper can never find a package with no token beside it"
Rename ==
    /\ wpc = "rename"
    /\ \/ Move("stage", "pkg") /\ Goto("pending") /\ UNCHANGED state
       \/ NotMoved
    /\ UNCHANGED others

AbandonStage ==
    /\ wpc = "abandon"
    /\ Abandon("ERROR")
    /\ UNCHANGED others

\* Whether the tag could be written is not looked at.
WritePending ==
    /\ wpc = "pending"
    /\ (Write("pending", installs) \/ UNCHANGED card)
    /\ Goto("unresult")
    /\ UNCHANGED <<state, others>>

UnlinkResult ==
    /\ wpc = "unresult"
    /\ Remove("result") /\ Goto("ready")
    /\ UNCHANGED <<state, others>>

Ready ==
    /\ wpc = "ready"
    /\ Say("READY") /\ Goto("done")
    /\ UNCHANGED <<card, others>>

\* "atomic_store(&s_busy, 0)"
\* The last thing either thread does.
WorkerDone ==
    /\ wpc = "done"
    /\ busy' = FALSE /\ wpc' = "exited"
    /\ UNCHANGED <<state, latest, abort, card, others>>

\* What the worker does without waiting for the network.
LocalStep ==
    \/ Start \/ CleanStage \/ Unpack \/ CheckStage \/ EmptyPkg \/ CopyHelper
    \/ PromoteHelper \/ ClearPkg \/ OpenToken \/ WriteToken \/ Rename
    \/ AbandonStage \/ WritePending \/ UnlinkResult \/ Ready \/ WorkerDone

WorkerStep == LocalStep \/ CheckEnds \/ Download

-----------------------------------------------------------------------------
(* The application                                                         *)

\* The process ends, or is ended: its threads go with it.
Gone ==
    /\ mpc' = "off" /\ upd' = "IDLE" /\ launch' = FALSE
    /\ state' = "IDLE" /\ latest' = None
    /\ busy' = FALSE /\ abort' = FALSE /\ wpc' = "none"

\* The user opens it; only one of the two titles is on screen at a time.
OpenApp ==
    /\ mpc = "off" /\ hpc = "off"
    /\ mpc' = "init"
    /\ UNCHANGED <<card, titles, upd, launch, worker, help, count>>

\* updater_init reads what the helper, or updater_launch, left.
ReadResult ==
    /\ mpc = "init"
    /\ IF files["result"] \in {None, Empty}
       THEN mpc' = "loop" /\ UNCHANGED state
       ELSE /\ mpc' = "forget"
            /\ state' = IF files["result"] # Succeeded
                           \/ /\ files["pending"] \in Installs
                              /\ release[files["pending"]] > installed
                        THEN "ERROR"                   \* "did not take effect"
                        ELSE "UP_TO_DATE"              \* "Update installed"
    /\ UNCHANGED <<card, titles, upd, launch, latest, busy, abort, wpc, help, count>>

\* ... and then removes it, the pending tag, the token and the package.
Forget(step, name, next) ==
    /\ mpc = step
    /\ Remove(name) /\ mpc' = next
    /\ UNCHANGED <<titles, upd, launch, worker, help, count>>

InitCleans ==
    \/ Forget("forget", "result", "unpend")
    \/ Forget("unpend", "pending", "untoken")
    \/ Forget("untoken", "token", "unpkg")
    \/ Forget("unpkg", "pkg", "loop")

\* A frame samples the updater's state ...
Sample ==
    /\ mpc = "loop"
    /\ upd' = state /\ mpc' = "act"
    /\ UNCHANGED <<card, titles, launch, worker, help, count>>

Installing == upd \in {"DOWNLOADING", "INSTALLING", "READY"}

\* start_worker, whose pthread_create may fail.
StartWorker(s, step) ==
    /\ abort' = FALSE
    /\ \/ busy' = TRUE /\ wpc' = step /\ Say(s)
       \/ busy' = FALSE /\ wpc' = "none" /\ Say("ERROR")

updater_check ==
    /\ IF busy THEN UNCHANGED <<state, busy, abort, wpc>>
       ELSE StartWorker("CHECKING", "check")
    /\ UNCHANGED <<latest, installs, release>>

updater_install ==
    /\ IF busy \/ state # "AVAILABLE"
       THEN UNCHANGED <<state, busy, abort, wpc, installs, release>>
       ELSE /\ installs < MaxInstalls
            /\ installs' = installs + 1
            /\ release' = [release EXCEPT ![installs + 1] = latest]
            /\ StartWorker("DOWNLOADING", "start")
    /\ UNCHANGED latest

\* ... and acts on the pad and on that sample.  START works at all times.
Act ==
    /\ mpc = "act"
    /\ \/ ~Installing /\ upd = "AVAILABLE" /\ updater_install
       \/ ~Installing /\ upd # "AVAILABLE" /\ updater_check
       \/ UNCHANGED <<worker, installs, release>>
    /\ \E start \in BOOLEAN :
           mpc' = IF start \/ upd = "READY" THEN "leave" ELSE "loop"
    /\ launch' = (upd = "READY")
    /\ upd' = "IDLE"                  \* not looked at again
    /\ UNCHANGED <<card, titles, help, crashes>>

\* updater_shutdown: raise the flag, then join.
Leave ==
    /\ mpc = "leave"
    /\ abort' = TRUE /\ mpc' = "join"
    /\ UNCHANGED <<card, titles, upd, launch, state, latest, busy, wpc, help, count>>

Join ==
    /\ mpc = "join" /\ wpc \in {"none", "exited"}
    /\ wpc' = "none" /\ mpc' = "teardown"
    /\ UNCHANGED <<card, titles, upd, launch, state, latest, busy, abort, help, count>>

\* The rest of the teardown, then updater_launch or the end.
Teardown ==
    /\ mpc = "teardown"
    /\ IF launch THEN mpc' = "launch" /\ UNCHANGED <<upd, launch, worker>>
                 ELSE Gone
    /\ UNCHANGED <<card, titles, help, count>>

\* updater_launch asks twice; what the first call did is not looked at.
LaunchOnce ==
    /\ mpc = "launch"
    /\ \/ helper /\ hpc = "off" /\ hpc' = "start"
       \/ UNCHANGED hpc
    /\ mpc' = "again"
    /\ UNCHANGED <<card, titles, upd, launch, worker, hres, spent, promotions, count>>

LaunchAgain ==
    /\ mpc = "again"
    /\ \/ /\ helper /\ hpc' = IF hpc = "off" THEN "start" ELSE hpc
          /\ Gone
       \/ mpc' = "blame" /\ UNCHANGED <<upd, launch, worker, hpc>>
    /\ UNCHANGED <<card, titles, hres, spent, promotions, count>>

\* "if the helper does start after all, it overwrites this with its own"
Blame ==
    /\ mpc = "blame"
    /\ (Write("result", LaunchFailed) \/ UNCHANGED card)
    /\ Gone
    /\ UNCHANGED <<titles, help, count>>

MainStep ==
    \/ ReadResult \/ InitCleans \/ Sample \/ Act
    \/ Leave \/ Join \/ Teardown \/ LaunchOnce \/ LaunchAgain \/ Blame

-----------------------------------------------------------------------------
(* The helper title                                                        *)

helpRest == <<titles, app, worker, count>>

\* The user opens its bubble, whatever is going on.
OpenHelper ==
    /\ helper /\ hpc = "off"
    /\ hpc' = "start"
    /\ UNCHANGED <<card, helpRest, hres, spent, promotions>>

\* Faulty variant: the application is not closed first.
AppStays == UNCHANGED <<app, worker>>

\* sceAppMgrDestroyOtherApp
AppCloses == Gone

HelperStarts ==
    /\ hpc = "start"
    /\ AppCloses
    /\ hpc' = "check" /\ hres' = "none"
    /\ UNCHANGED <<card, titles, spent, promotions, count>>

\* Faulty variant: any whole token will do.
TokenIsAny(n) == files["token"] \in Installs

\* update_token_check: the digest is of the package's param.sfo.
TokenIsFor(n) ==
    /\ files["token"] \in Installs
    /\ n \in Installs /\ release[n] = release[files["token"]]

\* package_is_ours: eboot.bin, param.sfo, the title and the token.
PackageIsOurs ==
    /\ files["pkg"] \notin {None, Empty, Helper}
    /\ TokenIsFor(files["pkg"])

HelperChecks ==
    /\ hpc = "check"
    /\ IF PackageIsOurs
       THEN hpc' = "spend" /\ spent' = files["token"] /\ UNCHANGED hres
       ELSE hpc' = "report" /\ hres' = "failed" /\ UNCHANGED spent
    /\ UNCHANGED <<card, helpRest, promotions>>

\* Faulty variant: the token outlives the promotion.
TokenKept == UNCHANGED card

\* "One shot: spend the token before installing".  Assumption: sceIoRemove does
\* remove the token; the code does not look at its result (updater/main.c:91).
TokenSpent == Remove("token")

HelperSpends ==
    /\ hpc = "spend"
    /\ TokenSpent
    /\ hpc' = "promote"
    /\ UNCHANGED <<helpRest, hres, spent, promotions>>

HelperPromotes ==
    /\ hpc = "promote"
    /\ hpc' = "promoting"
    /\ promotions' = IF files["pkg"] \in Installs
                     THEN [promotions EXCEPT ![files["pkg"]] = @ + 1] ELSE promotions
    /\ UNCHANGED <<card, helpRest, hres, spent>>

\* The promoter installs the package, "silently" does not, or refuses it.
PromotionEnds ==
    /\ hpc = "promoting"
    /\ \/ /\ hres' = "ok" /\ (Remove("pkg") \/ UNCHANGED card)
          /\ installed' \in {installed, IF files["pkg"] \in Installs
                                        THEN release[files["pkg"]] ELSE installed}
       \/ hres' = "failed" /\ UNCHANGED <<card, installed>>
    /\ hpc' = "report" /\ spent' = 0
    /\ UNCHANGED <<helper, app, worker, count, promotions>>

Code(res) == IF res = "ok" THEN Succeeded ELSE Failed

\* write_result gives up silently when it cannot open the file.
HelperReports ==
    /\ hpc = "report"
    /\ \/ Write("result", Code(hres)) /\ UNCHANGED hres
       \/ hres' = "unwritten" /\ UNCHANGED card
    /\ hpc' = "relaunch"
    /\ UNCHANGED <<helpRest, spent, promotions>>

\* It opens the application, if that can be opened, and exits.
HelperRelaunches ==
    /\ hpc = "relaunch"
    /\ mpc' \in IF mpc = "off" THEN {"off", "init"} ELSE {mpc}
    /\ hpc' = "off" /\ hres' = "none"
    /\ UNCHANGED <<card, titles, upd, launch, worker, spent, promotions, count>>

HelperStep ==
    \/ HelperStarts \/ HelperChecks \/ HelperSpends \/ HelperPromotes
    \/ PromotionEnds \/ HelperReports \/ HelperRelaunches

-----------------------------------------------------------------------------

\* The user copies a package to PKG_DIR himself, of a release never installed.
LeavePackage ==
    /\ mpc = "off" /\ hpc = "off" /\ files["pkg"] = None
    /\ Write("pkg", Foreign)
    /\ UNCHANGED <<titles, app, worker, help, count>>

PowerCut ==
    /\ mpc # "off" \/ hpc # "off"
    /\ crashes < MaxCrashes /\ crashes' = crashes + 1
    /\ \E lost \in SUBSET unsynced :
           files' = [n \in Names |-> IF n \in lost /\ files[n] # None THEN Empty ELSE files[n]]
    /\ unsynced' = {}
    /\ Gone /\ hpc' = "off" /\ hres' = "none" /\ spent' = 0
    /\ UNCHANGED <<titles, promotions, installs, release>>

Next ==
    \/ WorkerStep \/ MainStep \/ HelperStep
    \/ OpenApp \/ OpenHelper \/ LeavePackage \/ PowerCut

Spec == Init /\ [][Next]_vars

\* main() and the helper run, and so does a worker that does not wait for the
\* network; one that does is sure to come back only once it has been cancelled.
Fairness ==
    /\ WF_vars(MainStep) /\ WF_vars(HelperStep) /\ WF_vars(LocalStep)
    /\ WF_vars(TransferCancelled /\ (CheckEnds \/ Download))

FairSpec == Spec /\ Fairness

-----------------------------------------------------------------------------
(* Properties                                                              *)

\* "deletes that token before promoting": no install is promoted twice, however
\* often the helper is opened, whatever is left in PKG_DIR and wherever the
\* power goes (updater/main.c:6-9, 89-92).
OneShot == \A n \in Installs : promotions[n] <= 1

\* The helper promotes the very package that the accepted token was written for,
\* never what an earlier install or the user left there; and whoever sees UPD_READY,
\* "package staged", can count on this install's package and its token
\* (updater/main.c:44-69, updater.c:167-181, 466-484, updater.h:15).
OnlyAuthorised ==
    /\ hpc \in {"spend", "promote", "promoting"} => files["pkg"] = spent
    /\ state = "READY" => files["pkg"] = installs /\ files["token"] = installs

\* The application's complaint that the helper could not be started never
\* replaces what the helper reports (updater.c:601-608, updater/main.c:84, 94).
HelperResultWins ==
    hpc = "relaunch" /\ hres # "unwritten" => files["result"] = Code(hres)

\* Application and helper agree on the files they share, and those hold nothing but
\* what the two write.
SharedFilesSound == TypeOk /\ HelperResultWins

\* The user gets out: once START was pressed main() ends, although it joins a
\* worker that may be waiting for the network (main.c:525-528, updater.c:613-623).
ShutdownReturns == (mpc = "leave") ~> (mpc = "off")

\* "package staged; main loop must call updater_launch()" (updater.h:15).
ReadyIsLaunched == mpc = "teardown" /\ state = "READY" => launch

=============================================================================
