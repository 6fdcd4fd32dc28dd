SPECIFICATION Spec
CONSTANTS
  plain = plain  mixed = mixed  closure = closure  both = both
  Callers = {plain, mixed, closure}
  Local <- MCLocal
  Result <- MCResult
  Params <- MCParams
  MaxLevels = 3
  MaxLeft = 2
CHECK_DEADLOCK FALSE
INVARIANTS TypeOK 
PROPERTY NothingTaken
