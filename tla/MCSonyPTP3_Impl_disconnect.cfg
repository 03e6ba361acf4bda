CONSTANTS
  Threads = {t1, t2}
  Transports = {tr1}
  NoTransport = NoTransport
  Retained = {}
  Nobody = Nobody
  ParamFields = {"shutter_speed"}
SPECIFICATION Spec
PROPERTIES DisconnectCloses
