--------------------------- MODULE SafeSaveProofs ---------------------------
(***************************************************************************)
(* Proofs about SafeSave for any number of changes and power cuts: what a  *)
(* save guarantees whatever fails, and what it guarantees when only the    *)
(* power does.                                                             *)
(***************************************************************************)
EXTENDS SafeSave, TLAPS

\* Steps at which tmp is complete and on the card.
Written == {"direct", "rmbak", "aside", "again"}

Saving == Steps \ {"off", "idle"}

Sound ==
    /\ NeverTorn /\ SuccessIsDurable
    /\ pc \in Saving => mem > 0 /\ mem >= promised /\ outcome = "none"
    /\ pc \in Written => Whole("tmp") /\ files["tmp"] = mem
    /\ pc = "sync" => files["tmp"] = mem
    /\ pc = "clean" => Whole("path") /\ files["path"] = mem
    /\ "path" \notin unsynced /\ "bak" \notin unsynced
    /\ newest >= promised /\ newest >= mem
    /\ \A n \in Names : files[n] <= newest

-----------------------------------------------------------------------------
(* The file operations                                                     *)

\* What sceIoRename does when it succeeds: the file is under its new name only, and as
\* safely on the card as it was.
LEMMA Renaming ==
    ASSUME CardOk, NEW from \in Names, NEW to \in Names, from # to,
           Renamed(from, to)
    PROVE  /\ CardOk' /\ faults' = faults
           /\ Exists(from) /\ (RenameReplaces \/ ~Exists(to))
           /\ files'[to] = files[from] /\ files'[from] = NoFile
           /\ to \in unsynced' <=> from \in unsynced
           /\ from \notin unsynced'
           /\ \A n \in Names \ {from, to} :
                  /\ files'[n] = files[n]
                  /\ n \in unsynced' <=> n \in unsynced
  <1> USE DEF CardOk, Renamed, NoFile
  <1>1. files' \in [Names -> NoFile..MaxVer]
    BY BoundAssumption
  <1>2. unsynced' \subseteq Names
    OBVIOUS
  <1> QED
    BY <1>1, <1>2, BoundAssumption

\* What it leaves when it does not: everything, and the cause is the target in its way, no
\* file to rename, or a fault.
LEMMA NotRenaming ==
    ASSUME NEW from \in Names, NEW to \in Names, NotRenamed(from, to)
    PROVE  /\ card' = card
           /\ \/ /\ faults' = faults
                 /\ ~Exists(from) \/ (~RenameReplaces /\ Exists(to))
              \/ Fault
  BY DEF NotRenamed, card

\* sceIoRemove takes one file away or, with a fault, nothing.
LEMMA Removing ==
    ASSUME CardOk, NEW n \in Names, Removed(n)
    PROVE  /\ CardOk'
           /\ \/ files'[n] = NoFile /\ n \notin unsynced' /\ faults' = faults
              \/ card' = card /\ Fault
           /\ \A m \in Names \ {n} :
                  /\ files'[m] = files[m]
                  /\ m \in unsynced' <=> m \in unsynced
  <1> USE DEF CardOk, Removed, card, NoFile
  <1>1. files' \in [Names -> NoFile..MaxVer]
    BY BoundAssumption
  <1> QED
    BY <1>1, BoundAssumption

-----------------------------------------------------------------------------
(* Types                                                                   *)

\* The flag that remembers the old file's step aside stays a flag.
LEMMA MovedStep == ASSUME moved \in BOOLEAN, [Next]_vars PROVE moved' \in BOOLEAN
  <1> USE DEF ghosts
  <1>1. CASE Start
    BY <1>1 DEF Start, Loaded, Fault
  <1>2. CASE Change
    BY <1>2 DEF Change
  <1>3. CASE SaveStep
    <2>1. CASE OpenTmp
      BY <2>1 DEF OpenTmp, Return
    <2>2. CASE WriteTmp
      BY <2>2 DEF WriteTmp
    <2>3. CASE SyncTmp
      BY <2>3 DEF SyncTmp, Synced
    <2>4. CASE Discard
      BY <2>4 DEF Discard, Return
    <2>5. CASE Direct
      BY <2>5 DEF Direct, RenameOver, Return, Saved, Fault
    <2>6. CASE RemoveBak
      BY <2>6 DEF RemoveBak
    <2>7. CASE StepAside
      BY <2>7 DEF StepAside, MovedAside
    <2>8. CASE Again
      BY <2>8 DEF Again, RenameAgain, AgainFails, Return, Saved
    <2>9. CASE Restore
      BY <2>9 DEF Restore, Restored, Return
    <2>10. CASE Clean
      BY <2>10 DEF Clean, Return, Saved
    <2> QED
      BY <1>3, <2>1, <2>2, <2>3, <2>4, <2>5, <2>6, <2>7, <2>8, <2>9, <2>10
      DEF SaveStep
  <1>4. CASE PowerCut
    BY <1>4 DEF PowerCut
  <1>5. CASE Terminated \/ UNCHANGED vars
    BY <1>5 DEF Terminated, vars
  <1> QED
    BY <1>1, <1>2, <1>3, <1>4, <1>5 DEF Next

\* Every step leaves the files what files can be, a power cut included.
LEMMA CardStep ==
    ASSUME CardOk, mem \in 0..MaxVer, [Next]_vars PROVE CardOk'
  <1> USE Renaming, NotRenaming, Removing DEF Names, card
  <1>1. CASE Start
    <3>1. files' \in [Names -> NoFile..MaxVer]
      BY <1>1, BoundAssumption DEF Start, CardOk, Torn, NoFile
    <3>2. unsynced' \subseteq Names
      BY <1>1 DEF Start, CardOk
    <3> QED BY <3>1, <3>2 DEF CardOk
  <1>2. CASE Change
    <3>1. files' \in [Names -> NoFile..MaxVer]
      BY <1>2, BoundAssumption DEF Change, CardOk, Torn, NoFile
    <3>2. unsynced' \subseteq Names
      BY <1>2 DEF Change, CardOk
    <3> QED BY <3>1, <3>2 DEF CardOk
  <1>3. CASE SaveStep
    <2>1. CASE OpenTmp
      <3>1. files' \in [Names -> NoFile..MaxVer]
        BY <2>1, BoundAssumption DEF OpenTmp, CardOk, Torn, NoFile
      <3>2. unsynced' \subseteq Names
        BY <2>1 DEF OpenTmp, CardOk
      <3> QED BY <3>1, <3>2 DEF CardOk
    <2>2. CASE WriteTmp
      <3>1. files' \in [Names -> NoFile..MaxVer]
        BY <2>2, BoundAssumption DEF WriteTmp, CardOk, Torn, NoFile
      <3>2. unsynced' \subseteq Names
        BY <2>2 DEF WriteTmp, CardOk
      <3> QED BY <3>1, <3>2 DEF CardOk
    <2>3. CASE SyncTmp
      <3>1. files' \in [Names -> NoFile..MaxVer]
        BY <2>3, BoundAssumption DEF SyncTmp, Synced, CardOk, Torn, NoFile
      <3>2. unsynced' \subseteq Names
        BY <2>3 DEF SyncTmp, Synced, CardOk
      <3> QED BY <3>1, <3>2 DEF CardOk
    <2>4. CASE Discard
      BY <2>4 DEF Discard, Return
    <2>5. CASE Direct
      BY <2>5 DEF Direct, RenameOver, CardOk
    <2>6. CASE RemoveBak
      BY <2>6 DEF RemoveBak
    <2>7. CASE StepAside
      BY <2>7 DEF StepAside, MovedAside, CardOk
    <2>8. CASE Again
      BY <2>8 DEF Again, RenameAgain, AgainFails, CardOk
    <2>9. CASE Restore
      BY <2>9 DEF Restore, Restored, CardOk
    <2>10. CASE Clean
      BY <2>10 DEF Clean, Return, Saved
    <2> QED
      BY <1>3, <2>1, <2>2, <2>3, <2>4, <2>5, <2>6, <2>7, <2>8, <2>9, <2>10
      DEF SaveStep
  <1>4. CASE PowerCut
    <3>1. files' \in [Names -> NoFile..MaxVer]
      BY <1>4, BoundAssumption DEF PowerCut, CardOk, Torn, NoFile
    <3>2. unsynced' \subseteq Names
      BY <1>4 DEF PowerCut, CardOk
    <3> QED BY <3>1, <3>2 DEF CardOk
  <1>5. CASE Terminated \/ UNCHANGED vars
    BY <1>5 DEF Terminated, vars, CardOk
  <1> QED
    BY <1>1, <1>2, <1>3, <1>4, <1>5 DEF Next

\* No step has more faults than there may be.
LEMMA FaultStep ==
    ASSUME faults \in 0..MaxFaults, [Next]_vars PROVE faults' \in 0..MaxFaults
  <1> USE BoundAssumption
      DEF Fault, Renamed, NotRenamed, Removed, Return, Saved, ghosts, card
  <1>1. CASE Start
    BY <1>1 DEF Start, Loaded, Fault
  <1>2. CASE Change
    BY <1>2 DEF Change
  <1>3. CASE SaveStep
    <2>1. CASE OpenTmp
      BY <2>1 DEF OpenTmp, Return
    <2>2. CASE WriteTmp
      BY <2>2 DEF WriteTmp
    <2>3. CASE SyncTmp
      BY <2>3 DEF SyncTmp, Synced
    <2>4. CASE Discard
      BY <2>4 DEF Discard, Return
    <2>5. CASE Direct
      BY <2>5 DEF Direct, RenameOver, Return, Saved, Fault
    <2>6. CASE RemoveBak
      BY <2>6 DEF RemoveBak
    <2>7. CASE StepAside
      BY <2>7 DEF StepAside, MovedAside
    <2>8. CASE Again
      BY <2>8 DEF Again, RenameAgain, AgainFails, Return, Saved
    <2>9. CASE Restore
      BY <2>9 DEF Restore, Restored, Return
    <2>10. CASE Clean
      BY <2>10 DEF Clean, Return, Saved
    <2> QED
      BY <1>3, <2>1, <2>2, <2>3, <2>4, <2>5, <2>6, <2>7, <2>8, <2>9, <2>10
      DEF SaveStep
  <1>4. CASE PowerCut
    BY <1>4 DEF PowerCut
  <1>5. CASE Terminated \/ UNCHANGED vars
    BY <1>5 DEF Terminated, vars
  <1> QED
    BY <1>1, <1>2, <1>3, <1>4, <1>5 DEF Next

\* Every step keeps the types.
LEMMA TypeStep == ASSUME TypeOk, [Next]_vars PROVE TypeOk'
  <1>0. moved' \in BOOLEAN /\ CardOk' /\ faults' \in 0..MaxFaults
    BY MovedStep, CardStep, FaultStep DEF TypeOk
  <1>00. \A n \in Names : files[n] \in NoFile..MaxVer
    BY DEF TypeOk, CardOk
  <1> USE <1>0, <1>00, BoundAssumption
      DEF TypeOk, Names, Steps, NoFile, Torn, Exists, card, ghosts, Return, Saved
  <1>1. CASE Start
    BY <1>1 DEF Start, Loaded, Fault
  <1>2. CASE Change
    BY <1>2 DEF Change
  <1>3. CASE SaveStep
    <2>1. CASE OpenTmp
      BY <2>1 DEF OpenTmp, Return
    <2>2. CASE WriteTmp
      BY <2>2 DEF WriteTmp
    <2>3. CASE SyncTmp
      BY <2>3 DEF SyncTmp, Synced
    <2>4. CASE Discard
      BY <2>4 DEF Discard, Return
    <2>5. CASE Direct
      BY <2>5 DEF Direct, RenameOver, Return, Saved, Fault
    <2>6. CASE RemoveBak
      BY <2>6 DEF RemoveBak
    <2>7. CASE StepAside
      BY <2>7 DEF StepAside, MovedAside
    <2>8. CASE Again
      BY <2>8 DEF Again, RenameAgain, AgainFails, Return, Saved
    <2>9. CASE Restore
      BY <2>9 DEF Restore, Restored, Return
    <2>10. CASE Clean
      BY <2>10 DEF Clean, Return, Saved
    <2> QED
      BY <1>3, <2>1, <2>2, <2>3, <2>4, <2>5, <2>6, <2>7, <2>8, <2>9, <2>10
      DEF SaveStep
  <1>4. CASE PowerCut
    BY <1>4 DEF PowerCut
  <1>5. CASE Terminated \/ UNCHANGED vars
    BY <1>5 DEF Terminated, vars
  <1> QED
    BY <1>1, <1>2, <1>3, <1>4, <1>5 DEF Next

\* Every step keeps the files whole and what was promised on the card.
LEMMA SafeStep ==
    ASSUME TypeOk, Sound, [Next]_vars PROVE Sound'
  <1>0. TypeOk'
    BY TypeStep
  <1> USE <1>0, Renaming, NotRenaming, Removing
      DEF TypeOk, Names, Steps, NoFile, Torn, Exists, card, ghosts,
          Sound, NeverTorn, SuccessIsDurable, Whole, Written, Saving
  <1>1. CASE Start
    BY <1>1 DEF Start, Loaded, Fault, CardOk
  <1>2. CASE Change
    BY <1>2 DEF Change, CardOk
  <1>3. CASE SaveStep
    <2>1. CASE OpenTmp
      BY <2>1 DEF OpenTmp, Return, CardOk
    <2>2. CASE WriteTmp
      BY <2>2 DEF WriteTmp, CardOk
    <2>3. CASE SyncTmp
      BY <2>3 DEF SyncTmp, Synced
    <2>4. CASE Discard
      BY <2>4 DEF Discard, Return
    <2>5. CASE Direct
      <3>1. CASE Renamed("tmp", "path") /\ Saved
        BY <2>5, <3>1 DEF Direct, Return, Saved
      <3>2. CASE NotRenamed("tmp", "path") /\ pc' = "rmbak" /\ UNCHANGED <<outcome, ghosts>>
        BY <2>5, <3>2 DEF Direct
      <3>3. CASE Fault /\ Return("failed") /\ UNCHANGED <<card, ghosts>>
        BY <2>5, <3>3 DEF Direct, Return
      <3> QED BY <2>5, <3>1, <3>2, <3>3 DEF Direct, RenameOver
    <2>6. CASE RemoveBak
      BY <2>6 DEF RemoveBak
    <2>7. CASE StepAside
      BY <2>7 DEF StepAside, MovedAside
    <2>8. CASE Again
      <3>1. CASE Renamed("tmp", "path") /\ moved /\ pc' = "clean" /\ UNCHANGED <<outcome, ghosts>>
        BY <2>8, <3>1 DEF Again
      <3>2. CASE Renamed("tmp", "path") /\ Saved
        BY <2>8, <3>2 DEF Again, Return, Saved
      <3>3. CASE NotRenamed("tmp", "path") /\ AgainFails
        BY <2>8, <3>3 DEF Again, AgainFails, Return
      <3> QED BY <2>8, <3>1, <3>2, <3>3 DEF Again, RenameAgain, AgainFails
    <2>9. CASE Restore
      BY <2>9 DEF Restore, Restored, Return
    <2>10. CASE Clean
      BY <2>10 DEF Clean, Return, Saved
    <2> QED
      BY <1>3, <2>1, <2>2, <2>3, <2>4, <2>5, <2>6, <2>7, <2>8, <2>9, <2>10
      DEF SaveStep
  <1>4. CASE PowerCut
    BY <1>4 DEF PowerCut, CardOk
  <1>5. CASE Terminated \/ UNCHANGED vars
    BY <1>5 DEF Terminated, vars
  <1> QED
    BY <1>1, <1>2, <1>3, <1>4, <1>5 DEF Next


-----------------------------------------------------------------------------
(* What a failing save leaves                                              *)

\* The old list during a save: under its own name until it steps aside, then
\* under ".bak"; only a second failing operation leaves it there.
Keeping ==
    /\ pc \in {"open", "write", "sync", "discard", "direct", "rmbak", "aside"}
           => files["path"] = before
    /\ pc = "again" => IF moved THEN files["bak"] = before /\ ~Exists("path")
                                ELSE files["path"] = before
    /\ pc = "restore" => files["bak"] = before /\ ~Exists("path") /\ faults >= 1
    /\ outcome = "failed" =>
           \/ files["path"] = before
           \/ files["bak"] = before /\ ~Exists("path") /\ faults >= 2

\* No step of a save loses the old list before the new one is in place.
LEMMA KeepingStep ==
    ASSUME TypeOk, Sound, Keeping, [Next]_vars PROVE Keeping'
  <1>0. TypeOk' /\ Sound'
    BY TypeStep, SafeStep
  <1> USE <1>0, Renaming, NotRenaming, Removing
      DEF TypeOk, Names, Steps, NoFile, Torn, Exists, card, ghosts,
          Sound, NeverTorn, SuccessIsDurable, Whole, Written, Saving,
          Keeping
  <1>1. CASE Start
    BY <1>1 DEF Start, Loaded, Fault, CardOk
  <1>2. CASE Change
    BY <1>2 DEF Change, CardOk
  <1>3. CASE SaveStep
    <2>1. CASE OpenTmp
      BY <2>1 DEF OpenTmp, Return, CardOk
    <2>2. CASE WriteTmp
      BY <2>2 DEF WriteTmp, CardOk
    <2>3. CASE SyncTmp
      BY <2>3 DEF SyncTmp, Synced
    <2>4. CASE Discard
      BY <2>4 DEF Discard, Return
    <2>5. CASE Direct
      <3>1. CASE Renamed("tmp", "path") /\ Saved
        BY <2>5, <3>1 DEF Direct, Return, Saved
      <3>2. CASE NotRenamed("tmp", "path") /\ pc' = "rmbak" /\ UNCHANGED <<outcome, ghosts>>
        BY <2>5, <3>2 DEF Direct
      <3>3. CASE Fault /\ Return("failed") /\ UNCHANGED <<card, ghosts>>
        BY <2>5, <3>3 DEF Direct, Return
      <3> QED BY <2>5, <3>1, <3>2, <3>3 DEF Direct, RenameOver
    <2>6. CASE RemoveBak
      BY <2>6 DEF RemoveBak
    <2>7. CASE StepAside
      BY <2>7 DEF StepAside, MovedAside
    <2>8. CASE Again
      <3>1. CASE Renamed("tmp", "path") /\ moved /\ pc' = "clean" /\ UNCHANGED <<outcome, ghosts>>
        BY <2>8, <3>1 DEF Again
      <3>2. CASE Renamed("tmp", "path") /\ Saved
        BY <2>8, <3>2 DEF Again, Return, Saved
      <3>3. CASE NotRenamed("tmp", "path") /\ AgainFails
        <4>1. card' = card /\ UNCHANGED before /\ moved' = moved
          BY <2>8, <3>3 DEF Again, AgainFails
        <4>2. moved => Fault
          BY <2>8, <3>3 DEF Again
        <4>3. faults \in Nat /\ (moved => faults' = faults + 1)
          BY <4>2, BoundAssumption DEF Fault
        <4>4. CASE moved
          BY <2>8, <3>3, <4>1, <4>3, <4>4 DEF Again, AgainFails, Return
        <4>5. CASE ~moved
          BY <2>8, <3>3, <4>1, <4>5 DEF Again, AgainFails, Return
        <4> QED BY <4>4, <4>5
      <3> QED BY <2>8, <3>1, <3>2, <3>3 DEF Again, RenameAgain, AgainFails
    <2>9. CASE Restore
      <3>1. CASE Renamed("bak", "path")
        BY <2>9, <3>1 DEF Restore, Return
      <3>2. CASE NotRenamed("bak", "path")
        <4>1. card' = card /\ UNCHANGED before
          BY <2>9, <3>2 DEF Restore
        <4>2. ~Exists("bak") \/ Fault
          BY <2>9, <3>2 DEF Restore
        <4>3. faults \in Nat /\ (Fault => faults' = faults + 1)
          BY BoundAssumption DEF Fault
        <4> QED BY <2>9, <4>1, <4>2, <4>3 DEF Restore, Return
      <3> QED BY <2>9, <3>1, <3>2 DEF Restore, Restored
    <2>10. CASE Clean
      BY <2>10 DEF Clean, Return, Saved
    <2> QED
      BY <1>3, <2>1, <2>2, <2>3, <2>4, <2>5, <2>6, <2>7, <2>8, <2>9, <2>10
      DEF SaveStep
  <1>4. CASE PowerCut
    BY <1>4 DEF PowerCut, CardOk
  <1>5. CASE Terminated \/ UNCHANGED vars
    BY <1>5 DEF Terminated, vars
  <1> QED
    BY <1>1, <1>2, <1>3, <1>4, <1>5 DEF Next

-----------------------------------------------------------------------------
(* When only the power fails                                               *)

\* The list is under its own name, or, between the two renames of a save and
\* until the next save after a cut there, under ".bak".
Kept ==
    /\ Exists("path") => files["path"] >= promised
    /\ ~Exists("path") /\ promised > 0 => files["bak"] >= promised
    /\ pc \in {"rmbak", "aside"} => Exists("path")
    /\ pc = "aside" => ~Exists("bak")
    /\ pc = "again" => moved /\ ~Exists("path")
    /\ pc # "restore"

\* Where nothing fails, every step leaves the last successful save whole in some file.
LEMMA KeptStep ==
    ASSUME MaxFaults = 0, TypeOk, Sound, Kept, [Next]_vars PROVE Kept'
  <1>0. TypeOk' /\ Sound' /\ ~Fault
    BY TypeStep, SafeStep DEF Fault, TypeOk
  <1> USE <1>0, Renaming, NotRenaming, Removing
      DEF TypeOk, Names, Steps, NoFile, Torn, Exists, card, ghosts,
          Sound, NeverTorn, SuccessIsDurable, Whole, Written, Saving, Kept
  <1>1. CASE Start
    BY <1>1 DEF Start, Loaded, Fault, CardOk
  <1>2. CASE Change
    BY <1>2 DEF Change, CardOk
  <1>3. CASE SaveStep
    <2>1. CASE OpenTmp
      BY <2>1 DEF OpenTmp, Return, CardOk
    <2>2. CASE WriteTmp
      BY <2>2 DEF WriteTmp, CardOk
    <2>3. CASE SyncTmp
      BY <2>3 DEF SyncTmp, Synced
    <2>4. CASE Discard
      BY <2>4 DEF Discard, Return
    <2>5. CASE Direct
      <3>1. CASE Renamed("tmp", "path") /\ Saved
        BY <2>5, <3>1 DEF Direct, Return, Saved
      <3>2. CASE NotRenamed("tmp", "path") /\ pc' = "rmbak" /\ UNCHANGED <<outcome, ghosts>>
        BY <2>5, <3>2 DEF Direct
      <3>3. CASE Fault /\ Return("failed") /\ UNCHANGED <<card, ghosts>>
        BY <2>5, <3>3 DEF Direct, Return
      <3> QED BY <2>5, <3>1, <3>2, <3>3 DEF Direct, RenameOver
    <2>6. CASE RemoveBak
      BY <2>6 DEF RemoveBak
    <2>7. CASE StepAside
      BY <2>7 DEF StepAside, MovedAside
    <2>8. CASE Again
      <3>1. CASE Renamed("tmp", "path") /\ moved /\ pc' = "clean" /\ UNCHANGED <<outcome, ghosts>>
        BY <2>8, <3>1 DEF Again
      <3>2. CASE Renamed("tmp", "path") /\ Saved
        BY <2>8, <3>2 DEF Again, Return, Saved
      <3>3. CASE NotRenamed("tmp", "path") /\ AgainFails
        BY <2>8, <3>3 DEF Again, AgainFails, Return
      <3> QED BY <2>8, <3>1, <3>2, <3>3 DEF Again, RenameAgain, AgainFails
    <2>9. CASE Restore
      BY <2>9 DEF Restore, Restored, Return
    <2>10. CASE Clean
      BY <2>10 DEF Clean, Return, Saved
    <2> QED
      BY <1>3, <2>1, <2>2, <2>3, <2>4, <2>5, <2>6, <2>7, <2>8, <2>9, <2>10
      DEF SaveStep
  <1>4. CASE PowerCut
    BY <1>4 DEF PowerCut, CardOk
  <1>5. CASE Terminated \/ UNCHANGED vars
    BY <1>5 DEF Terminated, vars
  <1> QED
    BY <1>1, <1>2, <1>3, <1>4, <1>5 DEF Next

\* Where rename replaces, the fallback is never entered.
Replaced ==
    /\ pc \notin {"rmbak", "aside", "again", "clean", "restore"}
    /\ promised > 0 => Exists("path")
    /\ LoadFindsSaved

\* Where nothing fails and rename replaces, it is under the file's own name.
LEMMA ReplacedStep ==
    ASSUME MaxFaults = 0, RenameReplaces, TypeOk, Sound, Kept, Replaced, [Next]_vars
    PROVE  Replaced'
  <1>0. TypeOk' /\ Sound' /\ ~Fault
    BY TypeStep, SafeStep DEF Fault, TypeOk
  <1> USE <1>0, Renaming, NotRenaming, Removing
      DEF TypeOk, Names, Steps, NoFile, Torn, Exists, card, ghosts,
          Sound, NeverTorn, SuccessIsDurable, Whole, Written, Saving, Kept,
          Replaced, LoadFindsSaved
  <1>1. CASE Start
    BY <1>1 DEF Start, Loaded, Fault, CardOk
  <1>2. CASE Change
    BY <1>2 DEF Change, CardOk
  <1>3. CASE SaveStep
    <2>1. CASE OpenTmp
      BY <2>1 DEF OpenTmp, Return, CardOk
    <2>2. CASE WriteTmp
      BY <2>2 DEF WriteTmp, CardOk
    <2>3. CASE SyncTmp
      BY <2>3 DEF SyncTmp, Synced
    <2>4. CASE Discard
      BY <2>4 DEF Discard, Return
    <2>5. CASE Direct
      <3>1. CASE Renamed("tmp", "path") /\ Saved
        BY <2>5, <3>1 DEF Direct, Return, Saved
      <3>2. CASE NotRenamed("tmp", "path") /\ pc' = "rmbak" /\ UNCHANGED <<outcome, ghosts>>
        BY <2>5, <3>2 DEF Direct
      <3>3. CASE Fault /\ Return("failed") /\ UNCHANGED <<card, ghosts>>
        BY <2>5, <3>3 DEF Direct, Return
      <3> QED BY <2>5, <3>1, <3>2, <3>3 DEF Direct, RenameOver
    <2>6. CASE RemoveBak
      BY <2>6 DEF RemoveBak
    <2>7. CASE StepAside
      BY <2>7 DEF StepAside, MovedAside
    <2>8. CASE Again
      <3>1. CASE Renamed("tmp", "path") /\ moved /\ pc' = "clean" /\ UNCHANGED <<outcome, ghosts>>
        BY <2>8, <3>1 DEF Again
      <3>2. CASE Renamed("tmp", "path") /\ Saved
        BY <2>8, <3>2 DEF Again, Return, Saved
      <3>3. CASE NotRenamed("tmp", "path") /\ AgainFails
        BY <2>8, <3>3 DEF Again, AgainFails, Return
      <3> QED BY <2>8, <3>1, <3>2, <3>3 DEF Again, RenameAgain, AgainFails
    <2>9. CASE Restore
      BY <2>9 DEF Restore, Restored, Return
    <2>10. CASE Clean
      BY <2>10 DEF Clean, Return, Saved
    <2> QED
      BY <1>3, <2>1, <2>2, <2>3, <2>4, <2>5, <2>6, <2>7, <2>8, <2>9, <2>10
      DEF SaveStep
  <1>4. CASE PowerCut
    BY <1>4 DEF PowerCut, CardOk
  <1>5. CASE Terminated \/ UNCHANGED vars
    BY <1>5 DEF Terminated, vars
  <1> QED
    BY <1>1, <1>2, <1>3, <1>4, <1>5 DEF Next

-----------------------------------------------------------------------------
(* The theorems                                                            *)

\* An empty card is sound.
LEMMA InitAll == Init => TypeOk /\ Sound /\ Kept /\ Replaced
  <1> HAVE Init
  <1>1. CardOk
    BY BoundAssumption DEF Init, CardOk, NoFile
  <1>2. moved \in BOOLEAN
    BY DEF Init
  <1>3. TypeOk
    BY <1>1, <1>2, BoundAssumption DEF Init, TypeOk, Steps, NoFile
  <1>4. Sound /\ Kept /\ Replaced
    BY DEF Init, Sound, NeverTorn, SuccessIsDurable, Whole, Written, Saving,
       Kept, Replaced, LoadFindsSaved, Exists, Names, NoFile, Steps
  <1> QED
    BY <1>3, <1>4

\* Types and soundness always hold.
LEMMA SafeAlways == Spec => [](TypeOk /\ Sound)
  <1>1. TypeOk /\ Sound /\ [Next]_vars => (TypeOk /\ Sound)'
    BY TypeStep, SafeStep
  <1> QED
    BY InitAll, <1>1, PTL DEF Spec

\* Neither the file nor its ".bak" is ever half-written, whatever fails and
\* wherever the power goes: no rename comes before its fsync.
THEOREM FilesAreWhole == Spec => []NeverTorn
  <1>1. Sound => NeverTorn
    BY DEF Sound
  <1> QED
    BY SafeAlways, <1>1, PTL

\* A save that returned 0 is on the card under the file's own name.
THEOREM SavesAreDurable == Spec => []SuccessIsDurable
  <1>1. Sound => SuccessIsDurable
    BY DEF Sound
  <1> QED
    BY SafeAlways, <1>1, PTL

\* The old list is kept in every reachable state.
LEMMA KeepingAlways == Spec => [](TypeOk /\ Sound /\ Keeping)
  <1>1. TypeOk /\ Sound /\ Keeping /\ [Next]_vars => (TypeOk /\ Sound /\ Keeping)'
    BY TypeStep, SafeStep, KeepingStep
  <1>2. Init => Keeping
    BY DEF Init, Keeping
  <1> QED
    BY InitAll, <1>1, <1>2, PTL DEF Spec

\* A failing save leaves the old list under its own name, or, when the rename
\* that puts it back fails too, whole under ".bak" - and then nothing is there
\* under its own name (favourites.c:111-120).
THEOREM OldListKept ==
    Spec => [](outcome = "failed" =>
                   \/ files["path"] = before
                   \/ files["bak"] = before /\ ~Exists("path"))
  <1>1. Keeping => (outcome = "failed" =>
                       \/ files["path"] = before
                       \/ files["bak"] = before /\ ~Exists("path"))
    BY DEF Keeping
  <1> QED
    BY KeepingAlways, <1>1, PTL

\* Every variable keeps its type, and a save in which at most one directory
\* operation fails leaves the old list under its own name.
THEOREM SavesStaySound ==
    ASSUME MaxFaults <= 1 PROVE Spec => []SaveSound
  <1>1. TypeOk /\ Sound /\ Keeping => SaveSound
    BY BoundAssumption DEF TypeOk, Keeping, SaveSound, FailureKeepsOld
  <1> QED
    BY KeepingAlways, <1>1, PTL

\* On a card whose directory operations work, any number of power cuts leaves
\* the last successful save, or a later one, in some file - also on the Vita.
THEOREM PowerCutsLoseNothing ==
    ASSUME MaxFaults = 0 PROVE Spec => []SavedSomewhere
  <1>1. TypeOk /\ Sound /\ Kept /\ [Next]_vars => (TypeOk /\ Sound /\ Kept)'
    BY TypeStep, SafeStep, KeptStep
  <1>2. TypeOk /\ Sound /\ Kept => SavedSomewhere
    BY DEF TypeOk, CardOk, Sound, Kept, SavedSomewhere, NeverTorn, Whole, Exists,
       Names, NoFile
  <1> QED
    BY InitAll, <1>1, <1>2, PTL DEF Spec

\* Where rename also replaces its target, the next start finds that save.
THEOREM ReplacingRenameLoadsSaved ==
    ASSUME MaxFaults = 0, RenameReplaces PROVE Spec => []LoadFindsSaved
  <1>1. TypeOk /\ Sound /\ Kept /\ Replaced /\ [Next]_vars
            => (TypeOk /\ Sound /\ Kept /\ Replaced)'
    BY TypeStep, SafeStep, KeptStep, ReplacedStep
  <1>2. Replaced => LoadFindsSaved
    BY DEF Replaced
  <1> QED
    BY InitAll, <1>1, <1>2, PTL DEF Spec
=============================================================================
