CONSTANTS
  Threads = {t1}
  Transports = {tr1, tr2}
  NoTransport = NoTransport
  Nobody = Nobody
  ParamFields = {}
  Retained = {tr1, tr2}
  Workload = {"SetPtpTransport", "Connect", "Disconnect", "ControlDevice"}
  Buttons = {"MovieDown"}
  MaxBacklog = 2
  MaxSets = 0
SPECIFICATION SysSpec
SYMMETRY SystemSymmetry
INVARIANTS SessionIsOpen
