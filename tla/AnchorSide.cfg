SPECIFICATION SideSpec
CONSTANTS
    Values = {0, 1, 2, 3}
    Decays = {0, 1}
    Unit = 2
    DataMaps <- AllDataMaps
INVARIANT BandAnchoredTruly InvertUndoesResidual
