SPECIFICATION Spec
CONSTANTS
  Functions = {f, g}
  Closures = {c}
  Slots = {s}
  Blocks = {b1, b2}
  Refs = {r1, r2}
  Main = Main
  co = co
  Threads = {Main, co}
  Plain = Plain  None = None  Gone = Gone
  Rash = {}
  MaxDepth = 5
CHECK_DEADLOCK FALSE
INVARIANTS TypeOK RefsExact ClosuresWhole StateThere
PROPERTIES Freed
