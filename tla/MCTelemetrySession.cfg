SPECIFICATION SessionSpec
CONSTANTS
  Token <- Tokens
  GoodToken <- GoodTokens
  Reading <- Readings
  MinSize = 20
  NFrames = 2
  Burst <- Bursts
INVARIANTS RowsAreSent AnsweredIsStored
PROPERTY SessionEnds
