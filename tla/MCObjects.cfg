SPECIFICATION Spec
CONSTANTS
  base = base  derived = derived  o = o  p = p  v = v
  Classes = {base, derived}
  Lineage <- MCLineage
  Casts <- MCCasts
  Objects = {o, v}
  ClassOf <- MCClassOf
  Values = {v}
  Boxes = {b1, b2, b3}
  Blocks = {g1, g2}
  None = None
CHECK_DEADLOCK FALSE
INVARIANTS TypeOK ArgumentAlive
PROPERTIES KeepsPromise ClosedDestroys
