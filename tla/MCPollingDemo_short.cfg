CONSTANTS
  MaxField = 65535
  MaxDenominator = 10000
  Initial <- ShortTime
  Dials <- NoDials
  Limits = {1}
  Described = {"shutter_speed"}
  MaxTurns = 0
SPECIFICATION Spec
INVARIANTS KeepsMagnitude
