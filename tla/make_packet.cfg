\* The packet of the program, in buffers around the size it needs.
SPECIFICATION ScriptSpec
CONSTANTS
  Strings <- AddressNames
  Addresses <- AddressNames
  Strlen <- Lengths
  Int32 <- Integer
  Float32 <- Float
  Args <- Arguments
  TagCounts = {1, 3, 5, 15}
  Capacities = {128, 251, 252, 512}
  Alignments = {TRUE, FALSE}
  Surplus = FALSE
  Null = Null
  MaxDepth = 1
  NumCoefficients = 13
  MAX_OSC_PACKET_SIZE = 512
INVARIANTS
  NeverThrows
  PacketWhole
\* An exception in the script ends the process.
CHECK_DEADLOCK FALSE
