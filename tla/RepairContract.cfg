SPECIFICATION Spec
CONSTANTS
    Names = {"AM5", "1700", "DDR4", "DDR5", "ATX", "ITX", "EATX", "SFX", ""}
    Starts <- StartsMC
    Offers <- OffersMC
    MaxMoves = 1
PROPERTIES
    EveryFixResolves
CHECK_DEADLOCK FALSE
