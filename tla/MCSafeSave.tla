----------------------------- MODULE MCSafeSave -----------------------------
(***************************************************************************)
(* SafeSave on the two cards the code is written for, one of them picked   *)
(* for each behaviour: the Vita's, whose rename refuses an existing target *)
(* and where a directory operation or a read may fail, and a POSIX host's, *)
(* whose rename replaces it and where only the power goes.                 *)
(***************************************************************************)
EXTENDS SafeSave

CONSTANT VitaCrashes        \* bound: power cuts on the Vita's card

VARIABLE posix

Posix == INSTANCE SafeSave WITH RenameReplaces <- TRUE, MaxFaults <- 0

CardInit == Init /\ posix \in BOOLEAN

CardNext ==
    \/ ~posix /\ Next /\ crashes' <= VitaCrashes /\ UNCHANGED posix
    \/ posix /\ Posix!Next /\ UNCHANGED posix

CardSpec == CardInit /\ [][CardNext]_<<vars, posix>>

\* Where rename replaces, the short path is enough: whatever step the power cut
\* falls on, the file is there under its own name and a start finds the last save
\* that returned 0, or a later one - "an interrupted save cannot destroy the file
\* that is already there" (favourites.c:91-98, settings.c:74-75).
ReplacingRenameIsSafe == posix => LoadFindsSaved /\ NoAbsentWindow

=============================================================================
