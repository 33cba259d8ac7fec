\* Packets of any shape, whole or cut at any word.
SPECIFICATION RoundTrip
CONSTANTS
  Strings = {"/a", "/meta"}
  Strlen <- ShortLengths
  Addresses = {"/a"}
  Int32 <- Number
  Float32 <- Number
  Args <- SomeArguments
  TagCounts = {0, 1, 5}
  Capacities = {60}
  Alignments = {TRUE}
  Surplus = FALSE
  Null = Null
  MaxDepth = 2
  NumCoefficients = 0
  MAX_OSC_PACKET_SIZE = 512
  Cuts = {0, 3, 12, 20}
INVARIANTS
  ReadsBack
  ReadsAll
  StreamsNested
  PrintsBack
