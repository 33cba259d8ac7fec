------------------------------- MODULE MCKissFft -------------------------------
(***************************************************************************)
(* Lengths that take every radix as the first, a middle and the last       *)
(* stage: powers of four and of two, squares of odd primes, products, and  *)
(* 128, the length this program uses.  The transform is linear, so the     *)
(* unit vectors and one dense input decide it.                             *)
(***************************************************************************)
EXTENDS KissFft

FftLengths == {1, 2, 3, 4, 5, 6, 7, 8, 9, 10, 12, 14, 15, 16, 20, 21, 25, 30, 32, 35, 49, 60, 128}

Field(length) ==
  CASE length =   1 -> [q |->  59, root |-> [r |->  1, i |->   0]]
  [] length =   2 -> [q |->  59, root |-> [r |-> 58, i |->   0]]
  [] length =   3 -> [q |->  59, root |-> [r |-> 29, i |->  24]]
  [] length =   4 -> [q |->  59, root |-> [r |->  0, i |->   1]]
  [] length =   5 -> [q |->  59, root |-> [r |-> 42, i |->  19]]
  [] length =   6 -> [q |->  59, root |-> [r |-> 30, i |->  24]]
  [] length =   7 -> [q |->  83, root |-> [r |->  5, i |->  15]]
  [] length =   8 -> [q |->  71, root |-> [r |->  6, i |->   6]]
  [] length =   9 -> [q |->  71, root |-> [r |-> 23, i |->  18]]
  [] length =  10 -> [q |->  59, root |-> [r |-> 13, i |->   3]]
  [] length =  12 -> [q |->  59, root |-> [r |-> 24, i |->  30]]
  [] length =  14 -> [q |->  83, root |-> [r |-> 13, i |->   9]]
  [] length =  15 -> [q |->  59, root |-> [r |-> 22, i |->  15]]
  [] length =  16 -> [q |->  79, root |-> [r |-> 27, i |->  46]]
  [] length =  20 -> [q |->  59, root |-> [r |->  3, i |->  46]]
  [] length =  21 -> [q |->  83, root |-> [r |-> 12, i |->  40]]
  [] length =  25 -> [q |-> 199, root |-> [r |-> 28, i |->  49]]
  [] length =  30 -> [q |->  59, root |-> [r |->  5, i |->  25]]
  [] length =  32 -> [q |-> 127, root |-> [r |-> 25, i |->  30]]
  [] length =  35 -> [q |-> 139, root |-> [r |->  7, i |->  62]]
  [] length =  49 -> [q |-> 587, root |-> [r |-> 96, i |-> 288]]
  [] length =  60 -> [q |-> 179, root |-> [r |-> 19, i |-> 101]]
  [] length = 128 -> [q |-> 383, root |-> [r |->  4, i |-> 208]]

FftFields == [length \in FftLengths |-> Field(length)]

(* The root has norm 1, in a field that has a square root of -1 to offer.  *)
NormOne(field) ==
  /\ (field.root.r * field.root.r + field.root.i * field.root.i) % field.q = 1
  /\ field.q % 4 = 3
  /\ \A d \in 2 .. field.q - 1 : field.q % d # 0

ASSUME FieldsAssumption == \A length \in FftLengths : NormOne(FftFields[length])

Unit(length, j) == [k \in 1 .. length |-> IF k = j THEN One ELSE Zero]
Dense(length) == [k \in 1 .. length |-> [r |-> (k * k) % 19, i |-> (7 * k) % 23]]

FftProbes(length) ==
  {Dense(length)} \cup
  {Unit(length, j) : j \in IF length <= 35 THEN 1 .. length ELSE {1, 2, 3, length}}

(* Beyond the first wide gaps: 108 to 120, 135 to 144, 162 to 180.         *)
FftAsked == 1 .. 170

(* One byte too few, and just enough.                                      *)
FftMemory(length) == {263 + 8 * length, 264 + 8 * length}

FftStrides == {1, 2}
FftBetween == [r |-> 3, i |-> 5]
=============================================================================
