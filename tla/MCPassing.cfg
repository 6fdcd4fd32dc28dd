SPECIFICATION Spec
CONSTANTS
  Types <- MCTypes
  MaxNesting = 2
  Raw = {a}
  Counted = {s}
  Consts = {k}
  New = new
  Temp = temp
  Null = null
  Rash = {}
  MaxDepth = 3
  MaxChanges = 2
INVARIANTS TypeOK ConstKept CastsFit ReadsExist OwnersAsked
