-------------------------- MODULE MCSafeSaveProofs --------------------------
(***************************************************************************)
(* The card whose rename replaces its target, proved safe inside MCSafeSave *)
(* by instantiating the lemmas of SafeSaveProofs for it.                   *)
(***************************************************************************)
EXTENDS MCSafeSave, TLAPS

OnPosix == INSTANCE SafeSaveProofs WITH RenameReplaces <- TRUE, MaxFaults <- 0

\* The four invariants of a save, on that card.
PosixInv == posix => OnPosix!TypeOk /\ OnPosix!Sound /\ OnPosix!Kept /\ OnPosix!Replaced

\* A start on that card finds an empty card, in all four.
LEMMA PosixInit == CardInit => PosixInv
  <1>1. CardInit => OnPosix!Init
    BY DEF CardInit, Init, OnPosix!Init, Names, OnPosix!Names, NoFile, OnPosix!NoFile
  <1> QED BY <1>1, BoundAssumption, OnPosix!InitAll DEF PosixInv

\* The step MCSafeSave takes on that card is the step the lemmas are about.
LEMMA SameNext == Posix!Next => OnPosix!Next
  <1>1. Posix!Start => OnPosix!Start
    BY DEF Posix!Start, OnPosix!Start, Posix!card, OnPosix!card,
           Posix!ghosts, OnPosix!ghosts, Posix!Exists,
           OnPosix!Exists, Posix!NoFile, OnPosix!NoFile,
           Posix!Fault, OnPosix!Fault, Posix!Loaded,
           OnPosix!Loaded
  <1>2. Posix!Change => OnPosix!Change
    BY DEF Posix!Change, OnPosix!Change, Posix!card, OnPosix!card
  <1>3. Posix!OpenTmp => OnPosix!OpenTmp
    BY DEF Posix!OpenTmp, OnPosix!OpenTmp, Posix!Torn, OnPosix!Torn,
           Posix!card, OnPosix!card, Posix!ghosts, OnPosix!ghosts,
           Posix!Return, OnPosix!Return
  <1>4. Posix!WriteTmp => OnPosix!WriteTmp
    BY DEF Posix!WriteTmp, OnPosix!WriteTmp, Posix!ghosts, OnPosix!ghosts
  <1>5. Posix!SyncTmp => OnPosix!SyncTmp
    BY DEF Posix!SyncTmp, OnPosix!SyncTmp, Posix!ghosts, OnPosix!ghosts,
           Posix!Synced, OnPosix!Synced
  <1>6. Posix!Discard => OnPosix!Discard
    BY DEF Posix!Discard, OnPosix!Discard, Posix!ghosts, OnPosix!ghosts,
           Posix!Return, OnPosix!Return, Posix!Removed,
           OnPosix!Removed, Posix!NoFile, OnPosix!NoFile,
           Posix!card, OnPosix!card, Posix!Exists, OnPosix!Exists,
           Posix!Fault, OnPosix!Fault
  <1>7. Posix!Direct => OnPosix!Direct
    BY DEF Posix!Direct, OnPosix!Direct, Posix!RenameOver,
           OnPosix!RenameOver, Posix!card, OnPosix!card,
           Posix!ghosts, OnPosix!ghosts, Posix!Return,
           OnPosix!Return, Posix!Saved, OnPosix!Saved,
           Posix!Fault, OnPosix!Fault, Posix!Renamed,
           OnPosix!Renamed, Posix!NoFile, OnPosix!NoFile,
           Posix!Exists, OnPosix!Exists, Posix!NotRenamed,
           OnPosix!NotRenamed
  <1>8. Posix!RemoveBak => OnPosix!RemoveBak
    BY DEF Posix!RemoveBak, OnPosix!RemoveBak, Posix!ghosts, OnPosix!ghosts,
           Posix!Removed, OnPosix!Removed, Posix!NoFile,
           OnPosix!NoFile, Posix!card, OnPosix!card, Posix!Exists,
           OnPosix!Exists, Posix!Fault, OnPosix!Fault
  <1>9. Posix!StepAside => OnPosix!StepAside
    BY DEF Posix!StepAside, OnPosix!StepAside, Posix!ghosts, OnPosix!ghosts,
           Posix!MovedAside, OnPosix!MovedAside, Posix!Renamed,
           OnPosix!Renamed, Posix!NoFile, OnPosix!NoFile,
           Posix!Exists, OnPosix!Exists, Posix!NotRenamed,
           OnPosix!NotRenamed, Posix!card, OnPosix!card,
           Posix!Fault, OnPosix!Fault
  <1>10. Posix!Again => OnPosix!Again
    BY DEF Posix!Again, OnPosix!Again, Posix!RenameAgain,
           OnPosix!RenameAgain, Posix!ghosts, OnPosix!ghosts,
           Posix!Saved, OnPosix!Saved, Posix!Return,
           OnPosix!Return, Posix!Renamed, OnPosix!Renamed,
           Posix!NoFile, OnPosix!NoFile, Posix!Exists,
           OnPosix!Exists, Posix!AgainFails, OnPosix!AgainFails,
           Posix!NotRenamed, OnPosix!NotRenamed, Posix!card,
           OnPosix!card, Posix!Fault, OnPosix!Fault
  <1>11. Posix!Restore => OnPosix!Restore
    BY DEF Posix!Restore, OnPosix!Restore, Posix!ghosts, OnPosix!ghosts,
           Posix!Return, OnPosix!Return, Posix!Restored,
           OnPosix!Restored, Posix!Renamed, OnPosix!Renamed,
           Posix!NoFile, OnPosix!NoFile, Posix!Exists,
           OnPosix!Exists, Posix!NotRenamed, OnPosix!NotRenamed,
           Posix!card, OnPosix!card, Posix!Fault, OnPosix!Fault
  <1>12. Posix!Clean => OnPosix!Clean
    BY DEF Posix!Clean, OnPosix!Clean, Posix!Saved, OnPosix!Saved,
           Posix!Return, OnPosix!Return, Posix!Removed,
           OnPosix!Removed, Posix!NoFile, OnPosix!NoFile,
           Posix!card, OnPosix!card, Posix!Exists, OnPosix!Exists,
           Posix!Fault, OnPosix!Fault
  <1>13. Posix!PowerCut => OnPosix!PowerCut
    BY DEF Posix!PowerCut, OnPosix!PowerCut, Posix!Names, OnPosix!Names,
           Posix!Torn, OnPosix!Torn, Posix!card, OnPosix!card
  <1>14. Posix!Terminated => OnPosix!Terminated
    BY DEF Posix!Terminated, OnPosix!Terminated, Posix!vars, OnPosix!vars
  <1> QED
    BY <1>1, <1>2, <1>3, <1>4, <1>5, <1>6, <1>7, <1>8, <1>9, <1>10, <1>11,
       <1>12, <1>13, <1>14
    DEF Posix!Next, OnPosix!Next, Posix!SaveStep, OnPosix!SaveStep

\* Where rename replaces its target and no operation fails, the file is there under
\* its own name from the first successful save on, wherever the power goes, and
\* every start finds that save or a later one (favourites.c:91-98).
THEOREM ReplacingRenameStaysSafe == CardSpec => []ReplacingRenameIsSafe
  <1>1. PosixInv /\ [CardNext]_<<vars, posix>> => PosixInv'
    <2> SUFFICES ASSUME PosixInv, [CardNext]_<<vars, posix>>, posix'
                 PROVE  (OnPosix!TypeOk /\ OnPosix!Sound /\ OnPosix!Kept /\ OnPosix!Replaced)'
      BY DEF PosixInv
    <2>1. posix /\ [Posix!Next]_vars
      BY DEF CardNext
    <2>2. [OnPosix!Next]_(OnPosix!vars)
      BY <2>1, SameNext DEF vars, OnPosix!vars
    <2>3. OnPosix!TypeOk /\ OnPosix!Sound /\ OnPosix!Kept /\ OnPosix!Replaced
      BY <2>1 DEF PosixInv
    <2>4. OnPosix!TypeOk'
      BY <2>2, <2>3, BoundAssumption, OnPosix!TypeStep
    <2>5. OnPosix!Sound'
      BY <2>2, <2>3, BoundAssumption, OnPosix!SafeStep
    <2>6. OnPosix!Kept'
      BY <2>2, <2>3, BoundAssumption, OnPosix!KeptStep
    <2>7. OnPosix!Replaced'
      BY <2>2, <2>3, BoundAssumption, OnPosix!ReplacedStep
    <2> QED BY <2>4, <2>5, <2>6, <2>7
  <1>2. PosixInv => ReplacingRenameIsSafe
    BY DEF PosixInv, OnPosix!Replaced, ReplacingRenameIsSafe, NoAbsentWindow, LoadFindsSaved,
       OnPosix!LoadFindsSaved, Exists, OnPosix!Exists, NoFile, OnPosix!NoFile
  <1> QED BY PosixInit, <1>1, <1>2, PTL DEF CardSpec
=============================================================================
