\* Does a reader get the features of the program's packet?
SPECIFICATION ProgramTrip
CONSTANTS
  Strings <- AddressNames
  Addresses <- AddressNames
  Strlen <- Lengths
  Int32 <- Integer
  Float32 <- Float
  Args <- ProgramArguments
  TagCounts = {1, 3, 5, 15}
  Capacities = {512}
  Alignments = {TRUE}
  Surplus = FALSE
  Null = Null
  MaxDepth = 1
  NumCoefficients = 13
  MAX_OSC_PACKET_SIZE = 512
  Cuts = {0}
INVARIANT
  FeaturesReadBack
