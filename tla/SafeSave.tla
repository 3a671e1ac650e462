------------------------------ MODULE SafeSave ------------------------------
(***************************************************************************)
(* How the favourites and the settings reach the memory card: fav_save     *)
(* (src/src/favourites.c) and settings_save (src/src/settings.c) are the   *)
(* same sequence of file operations, and fav_load and settings_load open   *)
(* the same single file.  A step is one operation on the card; the power   *)
(* can go between any two.  A content is the number of the change it was   *)
(* saved after.  Directory operations reach the card in order, file data   *)
(* only with fsync.                                                        *)
(***************************************************************************)
EXTENDS Integers

CONSTANTS RenameReplaces,   \* rename replaces its target (POSIX), or refuses (Vita)
          MaxVer,           \* bound: changes the user makes
          MaxFaults,        \* bound: directory operations or reads that fail
          MaxCrashes        \* bound: power cuts

ASSUME RenameAssumption == RenameReplaces \in BOOLEAN
ASSUME BoundAssumption ==
    MaxVer \in Nat /\ MaxFaults \in Nat /\ MaxCrashes \in Nat

VARIABLES
    files,      \* the content of each file on the card
    unsynced,   \* the files whose data may not have reached it
    mem,        \* the change the list in memory is at; 0: nothing loaded
    pc,         \* the next operation of the save; "idle", or "off": not running
    moved,      \* fav_save's moved
    outcome,    \* what the last save returned
    newest,     \* the last change made
    promised,   \* the last change whose save returned 0
    before,     \* the file under its own name when the save began
    faults, crashes

vars == <<files, unsynced, mem, pc, moved, outcome, newest, promised, before,
          faults, crashes>>
card == <<files, unsynced>>

Names  == {"path", "tmp", "bak"}
NoFile == -2
Torn   == -1          \* truncated, or data that never reached the card
Exists(n) == files[n] # NoFile

Steps == {"off", "idle", "open", "write", "sync", "discard", "direct",
          "rmbak", "aside", "again", "restore", "clean"}

CardOk == files \in [Names -> NoFile..MaxVer] /\ unsynced \subseteq Names

TypeOk ==
    /\ CardOk
    /\ before \in NoFile..MaxVer
    /\ mem \in 0..MaxVer /\ newest \in 0..MaxVer /\ promised \in 0..MaxVer
    /\ pc \in Steps
    /\ moved \in BOOLEAN /\ outcome \in {"none", "saved", "failed"}
    /\ faults \in 0..MaxFaults /\ crashes \in 0..MaxCrashes

Init ==
    /\ files = [n \in Names |-> NoFile] /\ unsynced = {}
    /\ mem = 0 /\ pc = "off" /\ moved = FALSE /\ outcome = "none"
    /\ newest = 0 /\ promised = 0 /\ before = NoFile
    /\ faults = 0 /\ crashes = 0

Fault == faults < MaxFaults /\ faults' = faults + 1

\* A save returns to the user interface.
Return(o) == pc' = "idle" /\ outcome' = o

ghosts == <<newest, promised, before, crashes>>

-----------------------------------------------------------------------------
(* Loading                                                                 *)

\* Faulty variant: what fopen found is taken as it is.
LoadedRaw == files["path"]

\* What the loader makes of the file: no file, and a file cut off before the
\* end of its first line, load as nothing.
Loaded == IF files["path"] > 0 THEN files["path"] ELSE 0

\* The application starts.  A read error leaves what a missing file would.
Start ==
    /\ pc = "off"
    /\ \/ mem' = Loaded /\ UNCHANGED faults
       \/ Exists("path") /\ Fault /\ mem' = 0
    /\ pc' = "idle" /\ outcome' = "none"
    /\ UNCHANGED <<card, moved, ghosts>>

-----------------------------------------------------------------------------
(* Saving                                                                  *)

\* toggle_favourite or set_theme changes the list and calls the save.
Change ==
    /\ pc = "idle" /\ newest < MaxVer
    /\ newest' = newest + 1 /\ mem' = newest + 1
    /\ before' = files["path"]
    /\ pc' = "open" /\ moved' = FALSE /\ outcome' = "none"
    /\ UNCHANGED <<card, promised, faults, crashes>>

\* fopen(tmp, "wb") truncates what an earlier save left there.
OpenTmp ==
    /\ pc = "open"
    /\ \/ /\ files' = [files EXCEPT !["tmp"] = Torn]
          /\ unsynced' = unsynced \cup {"tmp"}
          /\ pc' = "write" /\ UNCHANGED outcome
       \/ Return("failed") /\ UNCHANGED card
    /\ UNCHANGED <<mem, moved, faults, ghosts>>

WriteTmp ==
    /\ pc = "write"
    /\ \/ /\ files' = [files EXCEPT !["tmp"] = mem]
          /\ pc' = "sync"
       \/ UNCHANGED files /\ pc' = "discard"
    /\ UNCHANGED <<unsynced, mem, moved, outcome, faults, ghosts>>

\* Faulty variant: the rename does not wait for the data.
NotSynced == unsynced

Synced == unsynced \ {"tmp"}

\* fflush, fsync and fclose.
SyncTmp ==
    /\ pc = "sync"
    /\ \/ unsynced' = Synced /\ pc' = "direct"
       \/ UNCHANGED unsynced /\ pc' = "discard"
    /\ UNCHANGED <<files, mem, moved, outcome, faults, ghosts>>

\* rename(from, to): succeeds, is refused, or fails.
Renamed(from, to) ==
    /\ Exists(from) /\ (RenameReplaces \/ ~Exists(to))
    /\ files' = [files EXCEPT ![to] = files[from], ![from] = NoFile]
    /\ unsynced' = {IF n = from THEN to ELSE n : n \in unsynced \ {to}}
    /\ UNCHANGED faults

NotRenamed(from, to) ==
    /\ \/ ~Exists(from) /\ UNCHANGED faults
       \/ ~RenameReplaces /\ Exists(to) /\ UNCHANGED faults
       \/ Exists(from) /\ Fault
    /\ UNCHANGED card

\* remove(n): succeeds, finds nothing, or fails.
Removed(n) ==
    \/ /\ files' = [files EXCEPT ![n] = NoFile] /\ unsynced' = unsynced \ {n}
       /\ UNCHANGED faults
    \/ Exists(n) /\ Fault /\ UNCHANGED card

\* remove(tmp) after a write error.
Discard ==
    /\ pc = "discard"
    /\ Removed("tmp")
    /\ Return("failed")
    /\ UNCHANGED <<mem, moved, ghosts>>

Saved == Return("saved") /\ promised' = mem /\ UNCHANGED <<newest, before, crashes>>

\* rename(tmp, path): done where rename replaces, refused on the Vita whenever
\* there is a file to replace.
RenameOver ==
    \/ Renamed("tmp", "path") /\ Saved
    \/ NotRenamed("tmp", "path") /\ pc' = "rmbak" /\ UNCHANGED <<outcome, ghosts>>
    \/ Fault /\ Return("failed") /\ UNCHANGED <<card, ghosts>>   \* no memory for bak

Direct ==
    /\ pc = "direct"
    /\ RenameOver
    /\ UNCHANGED <<mem, moved>>

RemoveBak ==
    /\ pc = "rmbak"
    /\ Removed("bak")
    /\ pc' = "aside"
    /\ UNCHANGED <<mem, moved, outcome, ghosts>>

\* Faulty variant: the old file is deleted, not kept as ".bak".
RemovedAside ==
    /\ files' = [files EXCEPT !["path"] = NoFile] /\ moved' = FALSE
    /\ UNCHANGED <<unsynced, faults>>

\* moved = rename(path, bak) == 0
MovedAside ==
    \/ Renamed("path", "bak") /\ moved' = TRUE
    \/ NotRenamed("path", "bak") /\ moved' = FALSE

StepAside ==
    /\ pc = "aside"
    /\ MovedAside
    /\ pc' = "again"
    /\ UNCHANGED <<mem, outcome, ghosts>>

\* Faulty variant: the return value of the second rename is not looked at.
AgainUnchecked ==
    \/ Renamed("tmp", "path") /\ Saved
    \/ NotRenamed("tmp", "path") /\ Saved

AgainFails ==
    /\ NotRenamed("tmp", "path")
    /\ \/ moved /\ pc' = "restore" /\ UNCHANGED outcome
       \/ ~moved /\ Return("failed")
    /\ UNCHANGED ghosts

RenameAgain ==
    \/ /\ Renamed("tmp", "path")
       /\ \/ moved /\ pc' = "clean" /\ UNCHANGED <<outcome, ghosts>>
          \/ ~moved /\ Saved
    \/ AgainFails

Again ==
    /\ pc = "again"
    /\ RenameAgain
    /\ UNCHANGED <<mem, moved>>

\* Faulty variant: the old file stays aside.
RestoredNot == UNCHANGED <<card, faults>>

\* rename(bak, path): "put the old one back"
Restored == Renamed("bak", "path") \/ NotRenamed("bak", "path")

Restore ==
    /\ pc = "restore"
    /\ Restored
    /\ Return("failed")
    /\ UNCHANGED <<mem, moved, ghosts>>

Clean ==
    /\ pc = "clean"
    /\ Removed("bak")
    /\ Saved
    /\ UNCHANGED <<mem, moved>>

-----------------------------------------------------------------------------

\* The power goes, or the application is closed: what was not synced may or may
\* not be on the card.
PowerCut ==
    /\ pc # "off" /\ crashes < MaxCrashes
    /\ crashes' = crashes + 1
    /\ \E lost \in SUBSET unsynced :
           files' = [n \in Names |-> IF n \in lost THEN Torn ELSE files[n]]
    /\ unsynced' = {}
    /\ pc' = "off" /\ mem' = 0 /\ moved' = FALSE /\ outcome' = "none"
    /\ UNCHANGED <<newest, promised, before, faults>>

\* The user makes no further change.
Terminated == pc = "idle" /\ newest = MaxVer /\ UNCHANGED vars

SaveStep ==
    \/ OpenTmp \/ WriteTmp \/ SyncTmp \/ Discard
    \/ Direct \/ RemoveBak \/ StepAside \/ Again \/ Restore \/ Clean

Next == Start \/ Change \/ SaveStep \/ PowerCut \/ Terminated

Spec == Init /\ [][Next]_vars

-----------------------------------------------------------------------------
(* Properties                                                              *)

Whole(n) == files[n] > 0 /\ n \notin unsynced

\* Neither the file nor its stand-in is ever seen half-written, not even after a
\* power cut: nothing is renamed before its data is on the card
\* (favourites.c:78-82, settings.c:56-61).
NeverTorn ==
    \A n \in {"path", "bak"} : Exists(n) => Whole(n)

\* A save that returned 0 has put the list in memory on the card under its own
\* name, where the next start will find it (favourites.c:98-126).
SuccessIsDurable ==
    outcome = "saved" => Whole("path") /\ files["path"] = mem

\* A save that fails leaves under the file's own name what was there before
\* (favourites.c:111-120, settings.c:89-97).
FailureKeepsOld ==
    outcome = "failed" => files["path"] = before

\* What a save does to the card and to its own state, whatever fails: only the
\* three names are ever used, each with a list that was in memory, and a failure
\* leaves the old one (favourites.c:45-127).
SaveSound == TypeOk /\ FailureKeepsOld

\* From the first successful save on, some file on the card holds that save or a
\* later one whole, whatever step the power cut falls on (favourites.c:94-100).
SavedSomewhere ==
    promised > 0 => \E n \in Names : Whole(n) /\ files[n] >= promised

\* "so there is no window in which the settings are simply absent"
\* (settings.c:74-75): once saved, the file is there under its own name.
NoAbsentWindow == promised > 0 => Exists("path")

\* "an interrupted save cannot destroy the file that is already there": a start
\* finds the last save that returned 0, or a later one (favourites.c:94-95).
LoadFindsSaved == pc = "idle" => mem >= promised

=============================================================================
