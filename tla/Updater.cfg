\* Two installs, two releases above the first, one power cut anywhere.
CONSTANTS
    MaxRelease = 2
    MaxInstalls = 2
    MaxCrashes = 1
SPECIFICATION FairSpec
INVARIANTS SharedFilesSound OneShot OnlyAuthorised
PROPERTIES ShutdownReturns
