CONSTANTS
  Base = Base
  Mixin = Mixin
  Left = Left
  Right = Right
  Bottom = Bottom
  Null = Null
  Classes = {Base, Mixin, Left, Right, Bottom}
  Needs <- MCNeeds
  Derives <- MCDerives
SPECIFICATION FairSpec
INVARIANTS TypeOK MappingsChain
PROPERTIES SearchEnds KeepsPromise
