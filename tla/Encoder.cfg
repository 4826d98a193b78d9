CONSTANTS
  a = a  b = b
  Byte <- Bytes
  Junk = Junk
  Chunks <- SomeChunks
  DefaultCapacity = 4
  FrameLength = 2
  MaxLength = 8
SPECIFICATION FairSpec
INVARIANTS EncoderInv OneFramePerCall
PROPERTIES ImplementsFraming Returns
