SPECIFICATION AccessSpec
CONSTANTS
  Top = Top  Left = Left  Right = Right  Bottom = Bottom
  d = d  x = x  m = m
  Classes = {Top, Left, Right, Bottom}
  Bases <- MCBases
  Derives <- MCDerives
  Chains <- MCChains
  Objects = {d}
  ClassOf <- BottomObject
  Names = {x, m}
  Offers <- MCOffers
  Methods <- MCMethods
  Values = {0, 1}
  Odd = Odd  Error = Error  Method = Method  Nil = Nil  Own = Own
  MaxVersion = 2
  Late = FALSE
CHECK_DEADLOCK FALSE
INVARIANTS AccessTypeOK MethodsReached
PROPERTY KeepsPromise
