CONSTANTS
  Devices = {d1, d2}
  Sony = {d1}
  NoDevice = NoDevice
  Handles = {h1, h2}
  Nobody = Nobody
  Careful = FALSE
  MaxCom = 3
SPECIFICATION Spec
SYMMETRY EnumSymmetry
INVARIANTS HandleHasSession
