SPECIFICATION Spec
CONSTANTS
  base = base  derived = derived  o = o  p = p  v = v
  Classes = {base, derived}
  Lineage <- MCLineage
  Casts <- MCCasts
  Objects = {o}
  ClassOf <- MCClassOf
  Values = {}
  Boxes = {b1}
  Blocks = {g1}
  None = None
CHECK_DEADLOCK FALSE
INVARIANT SelfAlive
