SPECIFICATION Spec
CONSTANTS
  Entries = 2
  PhysPages = 16
  Ram = {2, 3}
  Io = {4}
  TablePages = {8, 9}
  Root = 8
  ByteBits = 1
  Guests <- AllGuests
INVARIANT AccessesAsGranted
PROPERTY ScOutcome ByteAccurate
CHECK_DEADLOCK FALSE
