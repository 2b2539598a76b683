SPECIFICATION LiveSpec
CONSTANTS
    Names = {"AM5", "1700", "DDR4", "DDR5", "ATX", "ITX", "EATX", "SFX", ""}
    Starts <- StartsMC
    Offers <- OffersMC
    MaxMoves = 1
INVARIANTS
    RepairTypeOK
    ReportIsExact
    RepairedIsGone
PROPERTIES
    RepairBreaksNothing
    RepairsEnd
CHECK_DEADLOCK FALSE
