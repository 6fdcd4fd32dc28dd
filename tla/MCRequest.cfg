SPECIFICATION Spec
CONSTANTS
  plain = plain  split = split  meth = meth  ctor = ctor  pair = pair
  Functions = {plain, split, meth, ctor}
  Shape <- MCShape
  Params <- MCParams
  Place <- MCPlace
  Outs <- MCOuts
  Extra <- MCExtra
  Basic = {1, 2}
  o = o  p = p
  Instances = {o}
  Nil = Nil  Default = Default  Fresh = Fresh  State = State  Below = Below
  MaxArgs = 2
  MaxDepth = 2
CHECK_DEADLOCK FALSE
INVARIANTS TypeOK ArgsInOrder ReturnsExact
