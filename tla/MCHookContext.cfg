SPECIFICATION MCTransportSpec
CONSTANTS
  rpc = rpc
  profile = profile
  data = data
  Requests = {r1}
  Extensions = {rpc, profile, data}
  ExtKind <- MCExtKind
  HandlerConfigs <- MCConfigs
  Hooks <- MCHooks
  Supported <- MCSupported
  Methods <- MCMethods
  MaxExts = 3
  MaxEvents = 2
  Window = 2
  MaxHistory = 3
INVARIANTS
  HooksPrepareTheContext
CHECK_DEADLOCK FALSE
