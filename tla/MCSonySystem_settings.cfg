CONSTANTS
  Threads = {t1}
  Transports = {tr1}
  NoTransport = NoTransport
  Nobody = Nobody
  ParamFields = {}
  Retained = {tr1}
  Workload = {"SetPtpTransport", "Connect", "Disconnect", "SetExposureParams", "ControlDevice"}
  Buttons = {"S1Down"}
  MaxBacklog = 5
  MaxSets = 2
SPECIFICATION SysSpec
INVARIANTS SessionIsOpen ReleasedWhenClosed
PROPERTIES TrueMeansApplied
