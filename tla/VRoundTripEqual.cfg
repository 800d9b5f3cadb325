SPECIFICATION Spec
CONSTANTS
  ByteBits = 2
  IntBytes = 2
  LongBytes = 3
  FullShift = 0
  Types <- MCTypes
  Sample <- MCSample
  Noise <- MCNoise
  Size = 7
  Places = {0, 1, 5, 7}
  NULL = NULL
  Thrown = Thrown
INVARIANT RoundTripEqual
