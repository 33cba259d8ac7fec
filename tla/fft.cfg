\* The FFT, for lengths with every radix at every depth.
SPECIFICATION Spec
CONSTANTS
  Lengths <- FftLengths
  AskedSizes <- FftAsked
  Fields <- FftFields
  CallersMemory <- FftMemory
  Strides <- FftStrides
  Probes <- FftProbes
  Between <- FftBetween
INVARIANTS
  TypeOK
  FactorsChain
  RadicesPrime
  TransformIsDFT
  LeastFastSize
  StateFits
PROPERTIES
  FactorReturns
  SizeReturns
