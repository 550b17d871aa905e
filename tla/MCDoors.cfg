SPECIFICATION FairSpec
CONSTANTS
    lb = lb
    spare = spare
    Slots <- TwoSlots
    Primaries <- OnePrimary
    Backups <- OneBackup
    Count = 2
    OpenFails = 2
    BenchS = 3
    BenchMaxS = 4
    DialMax = 1
PROPERTIES BackupIsLastResort SomeDoorIsEnough LegsGoHome
