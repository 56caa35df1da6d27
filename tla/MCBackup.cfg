CONSTANTS
    Keep <- KeepTwo
    MaxTime <- FourBackups
    Faults = {"crash", "io"}
SPECIFICATION FairBackupSpec
CHECK_DEADLOCK FALSE
INVARIANTS
    ArchivesSound
PROPERTIES
    NewestSurvives
    CommandEnds
    NoBackupWhileRunning
