SPECIFICATION FairSpec
CONSTANTS
  Base = 16
  Magic <- MCMagic
  Version = 1
  LengthBytes = 4
  MaxPayload = 11
  Frames <- MCFrames
  Noises <- MCNoises
  MaxFrames = 3
  MaxBuffer = 20
  Window = 20
  Pieces = {5}
INVARIANTS StreamIntact BufferBound DecodesAllReceived DecodedIsAccepted
PROPERTY FrameArrives
CHECK_DEADLOCK FALSE
