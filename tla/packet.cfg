\* Packets of every shape that the buffers hold, and those they do not.
SPECIFICATION Spec
CONSTANTS
  Strings = {"/a", "/meta"}
  Addresses = {"/meta"}
  Strlen <- Lengths
  Args <- Arguments
  TagCounts = {0, 2}
  Capacities = {0, 43, 84}
  Alignments = {TRUE, FALSE}
  Surplus = TRUE
  Null = Null
  MaxDepth = 3
INVARIANTS
  TypeOK
  SlotsLinked
  SizesMatch
  BundlesTile
  MessagesIntact
  SizesPredicted
  AssertionsHold
  NumbersAligned
