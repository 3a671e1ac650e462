\* The Vita, nothing failing and no power cut: two saves in a row.
CONSTANTS
    RenameReplaces = FALSE
    MaxVer = 2
    MaxFaults = 0
    MaxCrashes = 0
SPECIFICATION Spec
INVARIANTS NoAbsentWindow
