CONSTANTS
  domain = domain
  transport = transport
  verbosity = verbosity
  mode = mode
  scale = scale
  h1 = h1
  h2 = h2
  Unset = Unset
  None = None
  Down = Down
  Boot = Boot
  Keys = {domain, transport, mode, scale}
  Severing = {domain, transport}
  Mode = {mode}
  Motion = {scale}
  Paired = {domain}
  Values = {1, 2}
  Broken = {2}
  Handlers = {h1}
  Serial = TRUE
  Faults = {"recreate", "bridge", "write"}
  Custodies = {"absent", "direct", "delegated"}
  Verbs = {"set", "rollback", "up", "down"}
  MaxCrashes = 2
  MaxDetached = 1
SPECIFICATION Spec
INVARIANTS TypeOK Recoverable IInv
PROPERTIES GuardSpec
