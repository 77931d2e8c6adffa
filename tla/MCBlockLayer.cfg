CONSTANTS
  FF = FF
  Junk = Junk
  Blocks = {0}
  BlockSize = 24
  FragSizes = {1, 5, 6}
  SeqMod = 4
  FirstFrags = {0, 3}
  Lens = {1, 5}
  Vals = {"a", "b"}
SPECIFICATION Spec
INVARIANTS EmptyIsErased ValidIsComplete CommandOrder
PROPERTIES ThreeStates KeptUntilErased
