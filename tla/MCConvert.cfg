SPECIFICATION ConvertSpec
CONSTANTS
  byte = byte  word = word  colour = colour  colours = colours  suit = suit  suits = suits  string = string  unknown = unknown  object = object
  bytes = bytes  words = words  ages = ages  names = names  lists = lists
  index = index  secrets = secrets  people = people
  Types = {byte, word, colour, colours, suit, suits, string, unknown, object, bytes, words, ages, names, lists, index, secrets, people}
  Kind <- MCKind
  Key <- MCKey
  Elem <- MCElem
  Enumerators <- MCEnumerators
  Least <- MCLeast
  Size <- MCSize
  LuaLeast <- MCLuaLeast
  LuaSize = 16
  Text <- MCText
  UpToNul <- MCUpToNul
  Plain <- MCPlain
  Values <- MCValues
  Registered <- MCRegistered
  Exact <- MCExact
  Scripts <- MCScripts
  Nil = "nil"
  None = None
  MaxStack = 12
CHECK_DEADLOCK FALSE
INVARIANTS ConvertTypeOK RoundTrip ReadExact
PROPERTY ConversionEnds
