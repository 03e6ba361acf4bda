CONSTANTS
  Devices = {d1, d2, d3}
  Sony = {d1, d2}
  NoDevice = NoDevice
  Handles = {h1, h2}
  Nobody = Nobody
  Careful = TRUE
  MaxCom = 3
SPECIFICATION Spec
SYMMETRY EnumSymmetry
INVARIANTS TypeOK HostKeepsCom SnapshotFitsIndexes HandleHasSession
PROPERTIES ReturnsClean
