SPECIFICATION Spec
CONSTANTS
  Frame = {f1, f2}
  NoFrame = NoFrame
  CAPACITY = 4
  DropModulus = 4
INVARIANTS
  IInv
  DataRaceFree
PROPERTIES
  ChannelSpec
  HeadAdvances
