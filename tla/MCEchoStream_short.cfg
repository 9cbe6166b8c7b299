SPECIFICATION Spec
CONSTANTS
  Buffers = 3
  BlockSize = 3
  Spaces = {2, 3}
PROPERTY EchoComplete
