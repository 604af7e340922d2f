SPECIFICATION Spec
CONSTANTS
    p1 = p1
    p2 = p2
    Commands = {p1, p2}
    Project <- MCProject
    Starter <- MCStarter
    Partial = {"part"}
    Written <- MCWritten
    Settings <- MCSettings
    Documents <- MCDocuments
    Envs <- MCEnvs
    Disks <- MCDisks
    MaxEdits = 2
INVARIANTS
    UnforcedInitKeepsFiles
    
    RacingInitsAgree
    ValidationIsExact
    LoadedIdsAreUnique
SYMMETRY Symmetry
CHECK_DEADLOCK FALSE
