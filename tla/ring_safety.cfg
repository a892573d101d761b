CONSTANTS
  Capacity = 12
  HeaderLen = 2
  Radix = 3
  MaxPayload = 3
  Lengths = {0, 1, 3, 4, 11}
SPECIFICATION FairSpec
INVARIANTS WriterClearOfReader ReaderWithinPublished
PROPERTIES ImplementsFifo HeadAdvances
