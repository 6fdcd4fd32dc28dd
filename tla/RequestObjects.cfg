SPECIFICATION Spec
CONSTANTS
  plain = plain  split = split  meth = meth  ctor = ctor  pair = pair
  Functions = {pair}
  Shape <- MCShape
  Params <- MCParams
  Place <- MCPlace
  Outs <- MCOuts
  Extra <- MCExtra
  Basic = {1, 2}
  o = o  p = p
  Instances = {o, p}
  Nil = Nil  Default = Default  Fresh = Fresh  State = State  Below = Below
  MaxArgs = 2
  MaxDepth = 1
CHECK_DEADLOCK FALSE
INVARIANT ArgsAlwaysInOrder
