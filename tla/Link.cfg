SPECIFICATION LinkSpec
CONSTANTS
  Sockets = {k1, k2, k3}
  NoSocket = NoSocket
  MaxTrouble = 2
  MaxFrames = 1
INVARIANTS OneSession AckFirst
PROPERTY StaysLinked
