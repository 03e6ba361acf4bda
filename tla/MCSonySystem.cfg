CONSTANTS
  Threads = {t1, t2}
  Transports = {tr1, tr2}
  NoTransport = NoTransport
  Nobody = Nobody
  ParamFields = {}
  Retained = {}
  Workload = {"SetPtpTransport", "Connect", "Disconnect", "ControlDevice",
              "UpdateStatus"}
  Buttons = {"MovieDown", "MovieUp"}
  MaxBacklog = 4
  MaxSets = 0
SPECIFICATION SysSpec
SYMMETRY SystemSymmetry
INVARIANTS SysTypeOK SessionIsOpen ReleasedWhenClosed RecordingIsKnown
PROPERTIES StaysInSession ConnectRecovers
