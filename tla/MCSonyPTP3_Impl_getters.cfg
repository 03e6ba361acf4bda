CONSTANTS
  Threads = {t1}
  Transports = {tr1}
  NoTransport = NoTransport
  Retained = {}
  Nobody = Nobody
  ParamFields = {"shutter_speed"}
SPECIFICATION Spec
PROPERTIES GettersAreGated
