CONSTANTS
  Father = Father
  Child = Child
  Again = Again
  Size = Size
  Nephew = Nephew
  Origin = Origin
  Fct = Fct
  Colour = Colour
  Sum = Sum
  Product = Product
  Shape = Shape
  Square = Square
  Cousin = Cousin
  M = M
  N = N
  TFather = TFather
  TChild = TChild
  TSize = TSize
  TNephew = TNephew
  TColour = TColour
  TShape = TShape
  TSquare = TSquare
  TCousin = TCousin
  TOther = TOther
  Root = Root
  NoType = NoType
  Nil = Nil
  LoadedTable = LoadedTable
  Items = {Father, Child, Again, Size, Nephew, Origin, Fct}
  Subs = {M, N}
  Types = {TFather, TChild, TSize, TNephew, TColour, TShape, TSquare, TCousin, TOther}
  Module <- MCModule
  Key <- MCKey
  Kind <- MCKind
  Provides <- MCProvides
  Needs <- MCNeeds
  Litter <- MCLitter
  MaxBinds = 3
SPECIFICATION FairSpec
CHECK_DEADLOCK FALSE
INVARIANTS TypeOK ClassesLinked LookupExact SymbolsReadBack
PROPERTIES ResultExact RootComplete BindReturns KeepsPromise
