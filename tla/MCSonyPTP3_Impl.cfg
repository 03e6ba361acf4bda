CONSTANTS
  Threads = {t1, t2}
  Transports = {tr1, tr2}
  NoTransport = NoTransport
  Retained = {tr1}
  Nobody = Nobody
  ParamFields = {"shutter_speed"}
SPECIFICATION FairSpec
INVARIANTS TypeOK StateConsistent StatusIsOfSession HoldBounded
PROPERTIES CallsReturn
