CONSTANTS
  r1 = r1
  r2 = r2
  operator = operator
  desktop = desktop
  Everyone = Everyone
  Robots = {r1, r2}
  Operators = {operator}
  Others = {desktop}
  Typed <- MCTyped
  Raw <- MCRaw
  Slug <- MCSlug
  MaxTakes = 1
  MaxCrashes = 1
SPECIFICATION Spec
INVARIANTS TypeOK OnlyNamedChanges ExitIsTrue ClientAgrees
