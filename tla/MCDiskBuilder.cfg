CONSTANTS
    img = img
    plain1 = plain1
    plain2 = plain2
    plain3 = plain3
    Zero = Zero
    Malformed = Malformed
    Units <- MCUnits
    Parts <- MCParts
    ExistingSources <- MCSources
    SectorSize = 2
    VmdkSector = 2
    MaxCalls = 5
SPECIFICATION Spec
INVARIANTS TypeOK ExtentsWellFormed
PROPERTIES AbstractSpec
CHECK_DEADLOCK FALSE
