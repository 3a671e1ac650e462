\* Both cards: three power cuts where rename replaces, one power cut and one failing
\* directory operation on the Vita, anywhere in four saves.
CONSTANTS
    RenameReplaces = FALSE
    MaxVer = 4
    MaxFaults = 1
    MaxCrashes = 3
    VitaCrashes = 1
SPECIFICATION CardSpec
INVARIANTS SaveSound NeverTorn SuccessIsDurable SavedSomewhere ReplacingRenameIsSafe
