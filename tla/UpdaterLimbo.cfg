\* One install, no power cut: START while the package is being staged.
CONSTANTS
    MaxRelease = 2
    MaxInstalls = 1
    MaxCrashes = 0
SPECIFICATION Spec
INVARIANTS ReadyIsLaunched
