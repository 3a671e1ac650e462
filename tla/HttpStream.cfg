CONSTANTS
    UNIT = 5
    TITLE_MAX = 2
    METAINT = 2
    MAXREDIRS = 1
    Blocks <- SomeBlocks
SPECIFICATION Spec
INVARIANTS TypeOk StationOnly ResultIsHonest TitlesAreChanges
