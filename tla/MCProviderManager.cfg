SPECIFICATION Spec
CONSTANTS
  Op = {o1, o2, o3}
  Mission = {m}
  Name = {seed, a}
  Seed = {seed}
  Stamp = {1}
  None = None
  Linked = Linked
SYMMETRY Symmetry
INVARIANTS
  ServedAsRegistered
  ConfigMatchesPlugin
  SeedsServed
