CONSTANTS
  Mtu = 5
  Overhead = 2
  Lens = {1, 2, 3}
  Capacity = 9
  KeyLength = 1
  AskLength = 4
  MaxControl = 3
  MaxData = 3
SPECIFICATION FlushSpec
INVARIANTS RoomInv
PROPERTIES NeverDropped
