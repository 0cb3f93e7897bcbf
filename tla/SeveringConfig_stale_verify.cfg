CONSTANTS
  domain = domain
  transport = transport
  verbosity = verbosity
  mode = mode
  scale = scale
  h1 = h1
  h2 = h2
  Unset = Unset
  None = None
  Down = Down
  Boot = Boot
  Keys = {domain, transport}
  Severing = {domain, transport}
  Mode = {}
  Motion = {}
  Paired = {domain}
  Values = {1, 2}
  Broken = {2}
  Handlers = {h1}
  Serial = TRUE
  Faults = {"recreate"}
  Custodies = {"absent", "direct", "delegated"}
  Verbs = {"set", "rollback"}
  MaxCrashes = 0
  MaxDetached = 1
SPECIFICATION Spec
INVARIANTS VerifiedIsApplied
