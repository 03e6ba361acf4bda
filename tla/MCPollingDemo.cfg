CONSTANTS
  MaxField = 7
  MaxDenominator = 3
  Initial <- AnyShutter
  Dials <- SomeDials
  Limits = {0, 1}
  Described = {"shutter_speed", "f_number", "exposure_comp"}
  MaxTurns = 1
SPECIFICATION FairSpec
INVARIANTS TypeOK NearestFound ReturnsClean
PROPERTIES WriteBackIsNeutral SettingsComeToRest EndsMain
