--------------------------- MODULE KissFftProofs ---------------------------
(***************************************************************************)
(* What the factorisations hand to kf_work, for every length.              *)
(***************************************************************************)
EXTENDS KissFft, FiniteSetTheorems, TLAPS

(* A divisor's quotient: the only arithmetic of the factorisation.         *)
LEMMA ExactQuotient ==
  ASSUME NEW a \in Nat \ {0}, NEW b \in Nat \ {0}, a % b = 0
  PROVE  /\ a \div b \in 1 .. a
         /\ b * (a \div b) = a
<1> DEFINE q == a \div b
<1>1. q \in Nat
  OBVIOUS
<1>2. a = b * q + (a % b)
  OBVIOUS
<1>3. b * q = a
  BY <1>1, <1>2
<1>4. q # 0
  BY <1>3
<1>5. q <= b * q
  BY <1>1, SMT
<1> QED
  BY <1>1, <1>3, <1>4, <1>5

LEMMA RootBounds ==
  ASSUME NEW a \in Nat \ {0}, NEW b \in Nat, b * b <= a
  PROVE  b <= a
<1>1. CASE b <= 1
  BY <1>1
<1>2. CASE b >= 1
  <2>1. b <= b * b
    BY <1>2, SMT
  <2> QED
    BY <2>1
<1> QED
  BY <1>1, <1>2

-----------------------------------------------------------------------------
(* Dividing goes on only while something is left, so that no stage but the *)
(* last has length 1.                                                      *)
MoreToDivide == pc = "factor" /\ factors # <<>> => n > 1

FactorInv == TypeOK /\ FactorsChain /\ MoreToDivide

LEMMA CandidateType ==
  ASSUME TypeOK, ~NoneSmaller(Candidate(p))
  PROVE  Candidate(p) \in 1 .. nfft
<1>1. nfft \in Nat \ {0} /\ n \in 1 .. nfft
  BY LengthsAssumption DEF TypeOK
<1>2. Candidate(p) \in Nat \ {0}
  BY <1>1 DEF Candidate, TypeOK
<1>3. Candidate(p) * Candidate(p) <= nfft
  BY <1>1, <1>2 DEF NoneSmaller, PastRoot, PastRootOfRest
<1> QED
  BY <1>1, <1>2, <1>3, RootBounds

LEMMA InitInv == FactorInit => FactorInv
<1> SUFFICES ASSUME FactorInit PROVE FactorInv
  OBVIOUS
<1>1. template \in BOOLEAN
  BY Zenon DEF FactorInit
<1>2. /\ pc = "idle" /\ nfft = 1 /\ n = 1 /\ p = 4 /\ factors = <<>>
  BY DEF FactorInit
<1> QED
  BY <1>1, <1>2 DEF FactorInv, TypeOK, FactorsChain, MoreToDivide

LEMMA EnterInv ==
  ASSUME NEW length \in Lengths, NEW hh \in BOOLEAN, Enter(length, hh)
  PROVE  FactorInv'
<1>1. length \in Nat \ {0}
  BY LengthsAssumption
<1> QED
  BY <1>1 DEF Enter, FactorInv, TypeOK, FactorsChain, MoreToDivide

LEMMA NextRadixInv ==
  ASSUME FactorInv, NextRadix
  PROVE  FactorInv'
<1>1. TypeOK'
  <2>1. CASE NoneSmaller(Candidate(p))
    BY <2>1 DEF FactorInv, TypeOK, NextRadix
  <2>2. CASE ~NoneSmaller(Candidate(p))
    BY <2>2, CandidateType DEF FactorInv, TypeOK, NextRadix
  <2> QED
    BY <2>1, <2>2
<1>2. FactorsChain' /\ MoreToDivide'
  BY DEF FactorInv, NextRadix, FactorsChain, MoreToDivide
<1> QED
  BY <1>1, <1>2 DEF FactorInv

LEMMA DivideInv ==
  ASSUME FactorInv, Divide
  PROVE  FactorInv'
<1>0. /\ nfft \in Nat \ {0} /\ n \in Nat \ {0} /\ p \in Nat \ {0}
      /\ factors \in Seq([p : Nat \ {0}, m : 1 .. nfft])
  BY LengthsAssumption DEF FactorInv, TypeOK
<1>1. n' \in 1 .. n /\ p * n' = n
  <2>1. n % p = 0 /\ n' = n \div p
    BY DEF Divide
  <2> QED
    BY <1>0, <2>1, ExactQuotient
<1> DEFINE last == [p |-> p, m |-> n']
<1>2. factors' = Append(factors, last)
  BY DEF Divide, Stage
<1>3. /\ Len(factors) \in Nat
      /\ Len(factors') = Len(factors) + 1
      /\ factors'[Len(factors) + 1] = last
      /\ \A i \in 1 .. Len(factors) : factors'[i] = factors[i]
  BY <1>0, <1>2
<1>4. TypeOK'
  <2>1. last \in [p : Nat \ {0}, m : 1 .. nfft]
    BY <1>0, <1>1 DEF FactorInv, TypeOK
  <2>2. factors' \in Seq([p : Nat \ {0}, m : 1 .. nfft])
    BY <1>0, <1>2, <2>1
  <2> QED
    BY <1>0, <1>1, <2>2 DEF FactorInv, TypeOK, Divide
<1> DEFINE Length(i) == IF i = 0 THEN nfft ELSE factors[i].m
           LengthAfter(i) == IF i = 0 THEN nfft' ELSE factors'[i].m
<1>5. /\ n = Length(Len(factors))
      /\ \A i \in 1 .. Len(factors) : factors[i].p * factors[i].m = Length(i - 1)
      /\ \A i \in 1 .. Len(factors) - 1 : factors[i].m > 1
      /\ Len(factors) > 0 => factors[Len(factors)].m > 1
  BY <1>0 DEF FactorInv, FactorsChain, MoreToDivide, Divide
<1>6. \A i \in 0 .. Len(factors) : LengthAfter(i) = Length(i)
  BY <1>3 DEF Divide
<1>7. FactorsChain'
  <2>1. \A i \in 1 .. Len(factors') : factors'[i].p * factors'[i].m = LengthAfter(i - 1)
    <3> SUFFICES ASSUME NEW i \in 1 .. Len(factors')
                 PROVE  factors'[i].p * factors'[i].m = LengthAfter(i - 1)
      OBVIOUS
    <3>1. CASE i \in 1 .. Len(factors)
      BY <1>3, <1>5, <1>6, <3>1
    <3>2. CASE i = Len(factors) + 1
      <4>1. factors'[i].p * factors'[i].m = n
        BY <1>1, <1>3, <3>2
      <4>2. LengthAfter(i - 1) = n
        BY <1>3, <1>5, <1>6, <3>2
      <4> QED
        BY <4>1, <4>2
    <3> QED
      BY <1>3, <3>1, <3>2
  <2>2. n' = LengthAfter(Len(factors'))
    BY <1>3
  <2>3. pc' = "ready" => n' = 1
    BY <1>1 DEF Divide
  <2>4. \A i \in 1 .. Len(factors') - 1 : factors'[i].m > 1
    BY <1>3, <1>5
  <2> QED
    BY <2>1, <2>2, <2>3, <2>4 DEF FactorsChain
<1>8. MoreToDivide'
  BY DEF Divide, MoreToDivide
<1> QED
  BY <1>4, <1>7, <1>8 DEF FactorInv

LEMMA StepInv == FactorInv /\ [FactorNext]_factorVars => FactorInv'
<1> SUFFICES ASSUME FactorInv, [FactorNext]_factorVars
             PROVE  FactorInv'
  OBVIOUS
<1>1. CASE \E length \in Lengths, hh \in BOOLEAN : Enter(length, hh)
  BY <1>1, EnterInv
<1>2. CASE NextRadix
  BY <1>2, NextRadixInv
<1>3. CASE Divide
  BY <1>3, DivideInv
<1>4. CASE Free
  <2>1. template' \in BOOLEAN
    BY <1>4, Zenon DEF Free
  <2>2. /\ pc' = "idle" /\ nfft' = 1 /\ n' = 1 /\ p' = 4 /\ factors' = <<>>
    BY <1>4 DEF Free
  <2> QED
    BY <2>1, <2>2 DEF FactorInv, TypeOK, FactorsChain, MoreToDivide
<1>5. CASE UNCHANGED factorVars
  BY <1>5 DEF factorVars, FactorInv, TypeOK, FactorsChain, MoreToDivide
<1> QED
  BY <1>1, <1>2, <1>3, <1>4, <1>5 DEF FactorNext, FactorStep

LEMMA InvHolds == FactorSpec => []FactorInv
  BY InitInv, StepInv, PTL DEF FactorSpec

(* For every length the radix tried stays in range, and what is left is    *)
(* never 0, so that the loops divide by a radix that is not 0.             *)
LEMMA FactorsTyped == FactorSpec => []TypeOK
<1>1. FactorInv => TypeOK
  BY DEF FactorInv
<1> QED
  BY <1>1, InvHolds, PTL

(* For every length the stages that kf_factor stores fit together: the     *)
(* radix and the length of each make up the length of the stage before,    *)
(* the first is the transform's, the last and only the last is 1.          *)
LEMMA FactorsFit == FactorSpec => []FactorsChain
<1>1. FactorInv => FactorsChain
  BY DEF FactorInv
<1> QED
  BY <1>1, InvHolds, PTL
-----------------------------------------------------------------------------
(* What no remainder means: there is a quotient.                           *)
LEMMA ExactMultiple ==
  ASSUME NEW a \in Nat, NEW b \in Nat \ {0}, NEW q \in Nat, b * q = a
  PROVE  a % b = 0
<1> DEFINE r == a % b
           e == a \div b
<1>1. r \in Nat /\ e \in Nat /\ r < b
  OBVIOUS
<1>2. a = b * e + r
  OBVIOUS
<1> HIDE DEF r, e
<1>3. b * (q - e) = r
  BY <1>1, <1>2
<1>4. q - e <= 0
  <2>1. q - e >= 1 => b * (q - e) >= b
    BY <1>1, SMT
  <2> QED
    BY <1>1, <1>3, <2>1
<1>5. b * (q - e) <= 0
  <2>1. b * (e - q) >= 0
    BY <1>1, <1>4, SMT
  <2> QED
    BY <1>1, <2>1
<1>6. r = 0
  BY <1>1, <1>3, <1>5
<1> QED
  BY <1>6 DEF r

(* A divisor of a divisor divides.                                         *)
LEMMA DividesOn ==
  ASSUME NEW a \in Nat \ {0}, NEW b \in Nat \ {0}, NEW d \in Nat \ {0},
         a % b = 0, b % d = 0
  PROVE  a % d = 0
<1> DEFINE s == a \div b
           t == b \div d
<1>1. s \in Nat /\ b * s = a /\ t \in Nat /\ d * t = b
  BY ExactQuotient
<1> HIDE DEF s, t
<1>2. d * (t * s) = a /\ t * s \in Nat
  BY <1>1
<1> QED
  BY <1>2, ExactMultiple

(* With a divisor comes another one: the two are not both past the root.   *)
LEMMA SmallDivisor ==
  ASSUME NEW a \in Nat \ {0}, NEW c \in Nat, a < c * c,
         \A d \in 2 .. c - 1 : a % d # 0
  PROVE  \A d \in 2 .. a - 1 : a % d # 0
<1> SUFFICES ASSUME NEW d \in 2 .. a - 1, a % d = 0
             PROVE  FALSE
  OBVIOUS
<1> DEFINE e == a \div d
<1>1. e \in Nat /\ d * e = a
  BY ExactQuotient
<1> HIDE DEF e
<1>2. e > 1
  <2>1. e = 0 => d * e = 0
    BY SMT
  <2>2. e = 1 => d * e = d
    BY SMT
  <2> QED
    BY <1>1, <2>1, <2>2
<1>3. e < a
  <2>1. 2 * e <= d * e
    BY <1>1, SMT
  <2> QED
    BY <1>1, <1>2, <2>1
<1>4. a % e = 0
  <2>1. e * d = a /\ e \in Nat \ {0} /\ d \in Nat
    BY <1>1, <1>2
  <2> QED
    BY <2>1, ExactMultiple
<1>5. d >= c /\ e >= c
  <2>1. ~(d \in 2 .. c - 1)
    OBVIOUS
  <2>2. ~(e \in 2 .. c - 1)
    BY <1>4
  <2> QED
    BY <1>1, <1>2, <2>1, <2>2
<1>6. c * c <= d * e
  <2>1. c * c <= d * c
    BY <1>5, SMT
  <2>2. d * c <= d * e
    BY <1>1, <1>5, SMT
  <2> QED
    BY <1>1, <2>1, <2>2
<1> QED
  BY <1>1, <1>6

-----------------------------------------------------------------------------
(* What the radix that is tried knows of what is left: nothing below it    *)
(* divides, but for 4, tried first, and 2, which 4 did not divide into.    *)
Sieved ==
  /\ p = 4 \/ (p > 1 /\ \A d \in 2 .. p - 1 : n % d # 0)
  /\ p \in {2, 4} \/ p % 2 = 1
  /\ p = 2 => n % 4 # 0

(* The radices so far are 4s, or no larger than the one tried; the 2 among *)
(* them left an odd number.                                                *)
RadicesSoFar ==
  \A i \in 1 .. Len(factors) :
    \/ factors[i].p = 4
    \/ p # 4 /\ factors[i].p <= p /\ (factors[i].p = 2 => n % 2 # 0)

RadicesInv ==
  /\ RadicesPrime
  /\ nfft = 1 => Len(factors) <= 1
  /\ pc = "factor" /\ nfft > 1 => Sieved /\ RadicesSoFar

LEMMA StageRadix ==
  ASSUME factors \in Seq([p : Nat \ {0}, m : 1 .. nfft]),
         NEW i \in 1 .. Len(factors)
  PROVE  factors[i].p \in Nat \ {0}
<1>1. \A S : \A s \in Seq(S) : \A j \in 1 .. Len(s) : s[j] \in S
  OBVIOUS
<1>2. factors[i] \in [p : Nat \ {0}, m : 1 .. nfft]
  BY <1>1
<1> QED
  BY <1>2

LEMMA LeftToDivide ==
  ASSUME FactorInv, pc = "factor", nfft > 1
  PROVE  n > 1
<1>1. factors \in Seq([p : Nat \ {0}, m : 1 .. nfft])
  BY DEF FactorInv, TypeOK
<1>2. CASE factors = <<>>
  BY <1>1, <1>2 DEF FactorInv, FactorsChain
<1>3. CASE factors # <<>>
  BY <1>3 DEF FactorInv, MoreToDivide
<1> QED
  BY <1>2, <1>3

(* The next candidate: still nothing below it divides.                     *)
LEMMA CandidateSieves ==
  ASSUME FactorInv, Sieved, n > 1, n % p # 0
  PROVE  LET c == Candidate(p)
         IN  /\ c \in Nat /\ c > 1 /\ (c > p \/ p = 4) /\ c # 4
             /\ \A d \in 2 .. c - 1 : n % d # 0
             /\ c = 2 \/ c % 2 = 1
             /\ c = 2 => n % 4 # 0
<1>1. n \in Nat \ {0} /\ p \in Nat \ {0}
  BY LengthsAssumption DEF FactorInv, TypeOK
<1>2. CASE p = 4
  BY <1>1, <1>2 DEF Candidate
<1>3. CASE p = 2
  BY <1>1, <1>3 DEF Candidate
<1>4. CASE p \notin {2, 4}
  <2>1. Candidate(p) = p + 2
    BY <1>4 DEF Candidate
  <2>2. p > 2 /\ p % 2 = 1 /\ \A d \in 2 .. p - 1 : n % d # 0
    BY <1>1, <1>4 DEF Sieved
  <2>3. n % 2 # 0 /\ (p + 1) % 2 = 0 /\ (p + 2) % 2 = 1 /\ p + 2 # 4
    BY <1>1, <2>2
  <2>4. n % (p + 1) # 0
    <3>1. p + 1 \in Nat \ {0} /\ 2 \in Nat \ {0}
      BY <1>1
    <3> QED
      BY <1>1, <2>3, <3>1, DividesOn
  <2>5. \A d \in 2 .. p + 1 : n % d # 0
    <3>1. \A d \in 2 .. p + 1 : d \in 2 .. p - 1 \/ d = p \/ d = p + 1
      BY <1>1
    <3> QED
      BY <2>2, <2>4, <3>1
  <2>6. p + 2 \in Nat /\ p + 2 > 1 /\ p + 2 > p /\ p + 2 # 2 /\ (p + 2) - 1 = p + 1
    BY <1>1
  <2> HIDE DEF Candidate
  <2> QED
    BY <2>1, <2>3, <2>5, <2>6
<1> QED
  BY <1>2, <1>3, <1>4

LEMMA NextRadixRadices ==
  ASSUME FactorInv, RadicesInv, NextRadix
  PROVE  RadicesInv'
<1>1. /\ pc = "factor" /\ pc' = "factor" /\ n % p # 0
      /\ nfft' = nfft /\ n' = n /\ factors' = factors
      /\ p' = IF NoneSmaller(Candidate(p)) THEN n ELSE Candidate(p)
  BY DEF NextRadix
<1>2. n \in Nat \ {0} /\ nfft \in Nat \ {0} /\ n <= nfft /\ p \in Nat \ {0}
      /\ factors \in Seq([p : Nat \ {0}, m : 1 .. nfft])
  BY LengthsAssumption DEF FactorInv, TypeOK
<1>3. ASSUME nfft > 1
      PROVE  Sieved' /\ RadicesSoFar'
  <2> DEFINE c == Candidate(p)
  <2>1. Sieved /\ RadicesSoFar /\ n > 1
    BY <1>1, <1>3, LeftToDivide DEF RadicesInv
  <2>2. /\ c \in Nat /\ c > 1 /\ (c > p \/ p = 4) /\ c # 4
        /\ \A d \in 2 .. c - 1 : n % d # 0
        /\ c = 2 \/ c % 2 = 1
        /\ c = 2 => n % 4 # 0
    BY <1>1, <2>1, CandidateSieves
  <2>3. p' = n \/ p' = c
    BY <1>1
  <2>4. /\ \A d \in 2 .. p' - 1 : n % d # 0
        /\ p' = n => p' > 1 /\ (p' = 2 \/ p' % 2 = 1)
    <3>1. CASE NoneSmaller(c)
      <4>1. c * c > n /\ p' = n
        BY <1>1, <1>2, <2>2, <3>1 DEF NoneSmaller, PastRoot, PastRootOfRest
      <4>2. \A d \in 2 .. n - 1 : n % d # 0
        BY <1>2, <2>2, <4>1, SmallDivisor
      <4>3. n = 2 \/ n % 2 = 1
        <5>1. CASE n > 2
          <6>1. n % 2 # 0
            BY <1>2, <4>2, <5>1
          <6> QED
            BY <1>2, <6>1
        <5> QED
          BY <1>2, <2>1, <5>1
      <4> QED
        BY <2>1, <4>1, <4>2, <4>3
    <3>2. CASE ~NoneSmaller(c)
      <4>1. p' = c
        BY <1>1, <3>2
      <4> QED
        BY <2>2, <4>1
    <3> QED
      BY <3>1, <3>2
  <2>5. p' > 1 /\ (p' = 2 \/ p' % 2 = 1)
    BY <2>2, <2>3, <2>4
  <2>6. p' = 2 => n % 4 # 0
    BY <1>2, <2>1, <2>2, <2>3
  <2>7. p # 4 => p <= p'
    <3>1. ASSUME p # 4 PROVE p <= n
      <4>1. n % n = 0
        BY <1>2, ExactMultiple
      <4>2. ~(n \in 2 .. p - 1)
        BY <2>1, <3>1, <4>1 DEF Sieved
      <4> QED
        BY <1>2, <2>1, <4>2
    <3> QED
      BY <1>2, <2>2, <2>3, <3>1
  <2>8. p' # 4
    <3>1. 4 % 2 = 0
      OBVIOUS
    <3> QED
      BY <2>5, <3>1
  <2>9. Sieved'
    BY <1>1, <2>4, <2>5, <2>6 DEF Sieved
  <2>10. RadicesSoFar'
    <3> SUFFICES ASSUME NEW i \in 1 .. Len(factors)
                 PROVE  \/ factors[i].p = 4
                        \/ p' # 4 /\ factors[i].p <= p' /\ (factors[i].p = 2 => n % 2 # 0)
      BY <1>1 DEF RadicesSoFar
    <3>1. factors[i].p \in Nat /\ p' \in Nat
      <4>1. factors[i].p \in Nat \ {0}
        BY <1>2, StageRadix
      <4> QED
        BY <1>2, <2>2, <2>3, <4>1
    <3> QED
      BY <1>2, <2>1, <2>7, <2>8, <3>1 DEF RadicesSoFar
  <2> QED
    BY <2>9, <2>10
<1>4. RadicesPrime'
  BY <1>1 DEF RadicesInv, RadicesPrime
<1> QED
  BY <1>1, <1>3, <1>4 DEF RadicesInv

LEMMA DivideRadices ==
  ASSUME FactorInv, RadicesInv, Divide
  PROVE  RadicesInv'
<1>0. /\ nfft \in Nat \ {0} /\ n \in 1 .. nfft /\ p \in Nat \ {0}
      /\ factors \in Seq([p : Nat \ {0}, m : 1 .. nfft])
  BY LengthsAssumption DEF FactorInv, TypeOK
<1>1. /\ pc = "factor" /\ n % p = 0 /\ n' = n \div p
      /\ nfft' = nfft /\ p' = p
  BY DEF Divide
<1>2. n' \in 1 .. n /\ p * n' = n
  BY <1>0, <1>1, ExactQuotient
<1> DEFINE k == Len(factors)
<1>3. /\ k \in Nat
      /\ Len(factors') = k + 1
      /\ factors'[k + 1].p = p
      /\ \A i \in 1 .. k : factors'[i] = factors[i]
  BY <1>0 DEF Divide, Stage
<1>4. \A i \in 1 .. k : factors[i].p \in Nat \ {0}
  BY <1>0, StageRadix
<1>5. \A i \in 1 .. k + 1 : i \in 1 .. k \/ i = k + 1
  BY <1>3
<1> HIDE DEF k
<1>6. CASE nfft = 1
  <2>1. n = 1
    BY <1>0, <1>6
  <2>2. factors = <<>>
    BY <1>1, <2>1 DEF FactorInv, MoreToDivide
  <2>3. k = 0
    BY <2>2 DEF k
  <2>4. RadicesPrime'
    <3>1. \A i, j \in 1 .. Len(factors') : ~(i < j)
      BY <1>3, <2>3
    <3> QED
      BY <1>1, <1>6, <3>1 DEF RadicesPrime
  <2> QED
    BY <1>1, <1>3, <1>6, <2>3, <2>4 DEF RadicesInv
<1>7. CASE nfft # 1
  <2>1. nfft > 1 /\ n > 1
    BY <1>0, <1>1, <1>7, LeftToDivide
  <2>2. Sieved /\ RadicesSoFar
    BY <1>1, <2>1 DEF RadicesInv
  <2>3. n % n' = 0
    <3>1. n' * p = n
      <4>1. n' \in Nat
        BY <1>0, <1>2
      <4>2. p * n' = n' * p
        BY <1>0, <4>1
      <4> QED
        BY <1>2, <4>2
    <3>2. n \in Nat /\ n' \in Nat \ {0} /\ p \in Nat
      BY <1>0, <1>2
    <3> QED
      BY <3>1, <3>2, ExactMultiple
  <2>4. \A d \in Nat \ {0} : n' % d = 0 => n % d = 0
    <3>1. n \in Nat \ {0} /\ n' \in Nat \ {0}
      BY <1>0, <1>2
    <3> QED
      BY <2>3, <3>1, DividesOn
  <2>5. p = 4 \/ IsPrime(p)
    <3> SUFFICES ASSUME p # 4 PROVE IsPrime(p)
      OBVIOUS
    <3>1. p > 1 /\ \A d \in 2 .. p - 1 : n % d # 0
      BY <2>2 DEF Sieved
    <3>2. \A d \in 2 .. p - 1 : p % d # 0
      <4> SUFFICES ASSUME NEW d \in 2 .. p - 1, p % d = 0
                   PROVE  FALSE
        OBVIOUS
      <4>1. d \in Nat \ {0}
        BY <1>0
      <4>2. n % d = 0
        <5>1. n \in Nat \ {0}
          BY <1>0
        <5> QED
          BY <1>0, <1>1, <4>1, <5>1, DividesOn
      <4> QED
        BY <3>1, <4>2
    <3> QED
      BY <3>1, <3>2 DEF IsPrime
  <2>6. \A i \in 1 .. k :
          \/ factors[i].p = 4
          \/ factors[i].p <= p /\ ~(factors[i].p = 2 /\ p = 2)
    BY <1>1, <2>2 DEF RadicesSoFar, k
  <2>7. RadicesPrime'
    <3>1. \A i \in 1 .. k + 1 :
            factors'[i].p = 4 \/ IsPrime(factors'[i].p) \/ nfft = 1
      BY <1>3, <1>5, <2>5 DEF RadicesInv, RadicesPrime, k
    <3>2. ASSUME NEW i \in 1 .. k + 1, NEW j \in 1 .. k + 1, i < j
          PROVE  \/ factors'[i].p = 4
                 \/ /\ factors'[i].p <= factors'[j].p
                    /\ ~(factors'[i].p = 2 /\ factors'[j].p = 2)
      <4>1. i \in 1 .. k
        BY <1>3, <3>2
      <4>2. CASE j \in 1 .. k
        BY <1>3, <3>2, <4>1, <4>2 DEF RadicesInv, RadicesPrime, k
      <4>3. CASE j = k + 1
        BY <1>3, <2>6, <4>1, <4>3
      <4> QED
        BY <1>5, <4>2, <4>3
    <3> QED
      BY <1>1, <1>3, <3>1, <3>2 DEF RadicesPrime, IsPrime
  <2>8. Sieved'
    <3>1. p = 4 \/ (p > 1 /\ \A d \in 2 .. p - 1 : n' % d # 0)
      BY <1>0, <2>2, <2>4 DEF Sieved
    <3>2. p = 2 => n' % 4 # 0
      BY <2>2, <2>4 DEF Sieved
    <3> QED
      BY <1>1, <2>2, <3>1, <3>2 DEF Sieved
  <2>9. RadicesSoFar'
    <3>1. p = 2 => n' % 2 # 0
      <4>1. \A x \in Nat : (2 * x) % 4 # 0 => x % 2 # 0
        OBVIOUS
      <4>2. n' \in Nat
        BY <1>0, <1>2
      <4>3. p = 2 => n % 4 # 0 /\ n = 2 * n'
        BY <1>2, <2>2 DEF Sieved
      <4> QED
        BY <4>1, <4>2, <4>3
    <3>2. ASSUME NEW i \in 1 .. k + 1
          PROVE  \/ factors'[i].p = 4
                 \/ p # 4 /\ factors'[i].p <= p /\ (factors'[i].p = 2 => n' % 2 # 0)
      <4>1. CASE i \in 1 .. k
        BY <1>3, <2>2, <2>4, <4>1 DEF RadicesSoFar, k
      <4>2. CASE i = k + 1
        BY <1>0, <1>3, <3>1, <4>2
      <4> QED
        BY <1>5, <4>1, <4>2
    <3> QED
      BY <1>1, <1>3, <3>2 DEF RadicesSoFar
  <2> QED
    BY <1>1, <2>1, <2>7, <2>8, <2>9 DEF RadicesInv
<1> QED
  BY <1>6, <1>7

(* Without a stage there is nothing to say of the radices.                 *)
LEMMA FreshRadices ==
  ASSUME factors = <<>>, p = 4
  PROVE  RadicesInv
<1>1. Len(factors) = 0
  OBVIOUS
<1>2. RadicesPrime
  BY <1>1 DEF RadicesPrime
<1>3. Sieved /\ RadicesSoFar
  BY <1>1 DEF Sieved, RadicesSoFar
<1> QED
  BY <1>1, <1>2, <1>3 DEF RadicesInv

LEMMA RadicesStep == FactorInv /\ RadicesInv /\ [FactorNext]_factorVars => RadicesInv'
<1> SUFFICES ASSUME FactorInv, RadicesInv, [FactorNext]_factorVars
             PROVE  RadicesInv'
  OBVIOUS
<1>1. CASE \E length \in Lengths, hh \in BOOLEAN : Enter(length, hh)
  BY <1>1 DEF Enter, RadicesInv, RadicesPrime, Sieved, RadicesSoFar
<1>2. CASE NextRadix
  BY <1>2, NextRadixRadices
<1>3. CASE Divide
  BY <1>3, DivideRadices
<1>4. CASE Free
  BY <1>4 DEF Free, RadicesInv, RadicesPrime, Sieved, RadicesSoFar
<1>5. CASE UNCHANGED factorVars
  BY <1>5 DEF factorVars, RadicesInv, RadicesPrime, Sieved, RadicesSoFar
<1> QED
  BY <1>1, <1>2, <1>3, <1>4, <1>5 DEF FactorNext, FactorStep

(* For every length the stages that either loop finds are 4s, then at most *)
(* one 2, then odd primes in order: the skip past the root never takes a   *)
(* product for a prime, though the one version compares with the root of   *)
(* the whole length and the other with the root of what is left.           *)
LEMMA FactorsPrime == FactorSpec => []RadicesPrime
<1>1. FactorInit => RadicesInv
  BY FreshRadices DEF FactorInit
<1>2. RadicesInv => RadicesPrime
  BY DEF RadicesInv
<1> QED
  BY <1>1, <1>2, InvHolds, RadicesStep, PTL DEF FactorSpec

-----------------------------------------------------------------------------
LEMMA Decomposed ==
  ASSUME NEW a \in Nat, NEW f \in {2, 3, 5}
  PROVE  \E b \in Nat, i \in 0 .. f - 1 : a = f * b + i
<1>1. /\ a \div f \in Nat
      /\ a % f \in 0 .. f - 1
      /\ a = f * (a \div f) + (a % f)
  OBVIOUS
<1> QED
  BY <1>1

(* A prime factor f of a product that does not divide the one divides the  *)
(* other; here for 2, 3 and 5.                                             *)
LEMMA FastPrime ==
  ASSUME NEW f \in {2, 3, 5}, NEW d \in Nat, NEW q \in Nat,
         (d * q) % f = 0, d % f # 0
  PROVE  q % f = 0
<1>0. \A x \in Nat : \E b \in Nat, i \in 0 .. f - 1 : x = f * b + i
  <2> TAKE x \in Nat
  <2> QED
    BY ONLY f \in {2, 3, 5}, x \in Nat, Decomposed, Zenon
<1>1. PICK a \in Nat, i \in 0 .. f - 1 : d = f * a + i
  BY <1>0, Zenon
<1>2. PICK b \in Nat, j \in 0 .. f - 1 : q = f * b + j
  BY <1>0, Zenon
<1>3. d * q = f * (f * a * b + a * j + b * i) + i * j
  <2>1. d * q = (f * a + i) * (f * b + j)
    BY <1>1, <1>2
  <2> QED
    BY <2>1
<1>4. PICK c \in Nat : c = f * a * b + a * j + b * i
  OBVIOUS
<1>5. i # 0
  <2>1. CASE f = 2
    BY <1>1, <2>1
  <2>2. CASE f = 3
    BY <1>1, <2>2
  <2>3. CASE f = 5
    BY <1>1, <2>3
  <2> QED
    BY <2>1, <2>2, <2>3
<1>6. j = 0
  <2>0. (f * c + i * j) % f = 0
    BY <1>3, <1>4
  <2>1. CASE f = 2
    <3>1. \A x \in 1 .. 1, y \in 0 .. 1, z \in Nat : (2 * z + x * y) % 2 = 0 => y = 0
      OBVIOUS
    <3> QED
      BY <1>5, <2>0, <2>1, <3>1
  <2>2. CASE f = 3
    <3>1. \A x \in {1, 2}, y \in {0, 1, 2}, z \in Nat : (3 * z + x * y) % 3 = 0 => y = 0
      OBVIOUS
    <3>2. i \in {1, 2} /\ j \in {0, 1, 2}
      BY <1>5, <2>2
    <3> QED
      BY <2>0, <2>2, <3>1, <3>2
  <2>3. CASE f = 5
    <3>1. \A x \in {1, 2, 3, 4}, y \in {0, 1, 2, 3, 4}, z \in Nat :
            (5 * z + x * y) % 5 = 0 => y = 0
      OBVIOUS
    <3>2. i \in {1, 2, 3, 4} /\ j \in {0, 1, 2, 3, 4}
      BY <1>5, <2>3
    <3> QED
      BY <2>0, <2>3, <3>1, <3>2
  <2> QED
    BY <2>1, <2>2, <2>3
<1>7. q = f * b
  BY <1>2, <1>6
<1>8. CASE f = 2
  BY <1>7, <1>8
<1>9. CASE f = 3
  BY <1>7, <1>9
<1>10. CASE f = 5
  BY <1>7, <1>10
<1> QED
  BY <1>8, <1>9, <1>10

(* Dividing by a fast factor leaves a size fast or not, as it was.         *)
LEMMA DividedIsFast ==
  ASSUME NEW f \in {2, 3, 5}, NEW m \in Nat \ {0}, m % f = 0
  PROVE  /\ m \div f \in 1 .. m
         /\ IsFast(m \div f) <=> IsFast(m)
<1>1. PICK r : r = m \div f
  OBVIOUS
<1>2. r \in 1 .. m /\ f * r = m
  BY <1>1, ExactQuotient
<1>3. ASSUME IsFast(m) PROVE IsFast(r)
  <2> SUFFICES ASSUME NEW d \in 2 .. r, r % d = 0
               PROVE  \E g \in {2, 3, 5} : d % g = 0
    BY DEF IsFast
  <2>1. PICK k \in Nat : r = d * k
    BY <1>2, ExactQuotient
  <2>2. PICK e \in Nat : e = f * k
    OBVIOUS
  <2>3. d * e = m
    BY <1>2, <2>1, <2>2
  <2>4. m % d = 0
    <3>1. d \in Nat \ {0} /\ e \in Nat
      BY <1>2, <2>2
    <3> QED
      BY <2>3, <3>1, ExactMultiple
  <2>5. m % d = 0 /\ d \in 2 .. m
    BY <1>2, <2>4
  <2> QED
    BY <1>3, <2>5 DEF IsFast
<1>4. ASSUME IsFast(r) PROVE IsFast(m)
  <2> SUFFICES ASSUME NEW d \in 2 .. m, m % d = 0, \A g \in {2, 3, 5} : d % g # 0
               PROVE  FALSE
    BY DEF IsFast
  <2>1. PICK q \in Nat : m = d * q
    BY ExactQuotient
  <2>2. q % f = 0
    <3>1. (d * q) % f = 0 /\ d \in Nat /\ d % f # 0
      BY <2>1
    <3> QED
      BY <3>1, FastPrime
  <2>3. PICK k \in Nat : q = f * k
    <3>1. q # 0
      BY <2>1
    <3>2. f \in Nat \ {0} /\ q \in Nat \ {0}
      BY <3>1
    <3> QED
      BY <2>2, <3>2, ExactQuotient
  <2>4. f * r = f * (d * k)
    BY <1>2, <2>1, <2>3
  <2>5. r = d * k
    <3>1. PICK e \in Nat : e = d * k
      OBVIOUS
    <3> QED
      BY <1>2, <2>4, <3>1
  <2>6. r % d = 0 /\ d <= r
    <3>1. k # 0
      BY <1>2, <2>5
    <3>2. r % d = 0
      <4>1. d * k = r /\ r \in Nat /\ d \in Nat \ {0}
        BY <1>2, <2>5
      <4> QED
        BY <4>1, ExactMultiple
    <3>3. \A x, y \in Nat : y # 0 => x <= x * y
      OBVIOUS
    <3>4. d <= d * k
      BY <3>1, <3>3
    <3> QED
      BY <2>5, <3>2, <3>4
  <2> QED
    BY <1>2, <1>4, <2>6 DEF IsFast
<1> QED
  BY <1>1, <1>2, <1>3, <1>4

-----------------------------------------------------------------------------
LEMMA IntLimit == INT_MAX \in Nat /\ INT_MAX >= 1
  BY SMT DEF INT_MAX

(* kiss_fft_next_fast_size: what is left of the size that is tried is fast *)
(* if that size is, and no size between was.                               *)
SizeInv ==
  pc \in {"size", "sized"} =>
    /\ asked \in Nat \ {0} /\ fast \in Nat /\ asked <= fast
    /\ rest \in Nat \ {0}
    /\ IsFast(rest) <=> IsFast(fast)
    /\ \A size \in asked .. fast - 1 : ~IsFast(size)
    /\ \E k \in asked .. INT_MAX : IsFast(k)
    /\ pc = "sized" => rest = 1

LEMMA SizeSteps ==
  ASSUME SizeInv, SizeStep
  PROVE  SizeInv'
<1>1. CASE DivideSize
  <2>1. PICK f \in {2, 3, 5} : rest % f = 0 /\ rest' = rest \div f
    BY <1>1 DEF DivideSize, FastFactors, Divides
  <2>2. /\ pc = "size" /\ pc' = "size" /\ asked' = asked /\ fast' = fast
    BY <1>1 DEF DivideSize, factorVars
  <2>3. rest' \in 1 .. rest /\ (IsFast(rest') <=> IsFast(rest))
    BY <2>1, <2>2, DividedIsFast DEF SizeInv
  <2> QED
    BY <2>2, <2>3 DEF SizeInv
<1>2. CASE TryNextSize
  <2>1. /\ pc = "size" /\ pc' = "size" /\ asked' = asked
        /\ fast' = fast + 1 /\ rest' = fast' /\ rest > 1
        /\ \A f \in {2, 3, 5} : rest % f # 0
    BY <1>2 DEF TryNextSize, tried, FastFactors, Divides, NextSize, factorVars
  <2>2. rest \in 2 .. rest /\ rest % rest = 0
    BY <2>1 DEF SizeInv
  <2>3. ~IsFast(fast)
    BY <2>1, <2>2 DEF SizeInv, IsFast
  <2>4. \A size \in asked' .. fast' - 1 : ~IsFast(size)
    BY <2>1, <2>3 DEF SizeInv
  <2> QED
    BY <2>1, <2>4 DEF SizeInv
<1>3. CASE ReturnSize
  <2>1. /\ pc = "size" /\ asked' = asked /\ fast' = fast /\ rest' = rest /\ rest <= 1
    BY <1>3 DEF ReturnSize, tried, sizeVars
  <2> QED
    BY <2>1 DEF SizeInv
<1> QED
  BY <1>1, <1>2, <1>3 DEF SizeStep

LEMMA NextSizeInv == SizeInv /\ [Next]_vars => SizeInv'
<1> SUFFICES ASSUME SizeInv, [Next]_vars PROVE SizeInv'
  OBVIOUS
<1>1. CASE \E size \in AskedSizes : AskSize(size)
  <2>1. PICK size \in AskedSizes : AskSize(size)
    BY <1>1
  <2>2. /\ asked' = size /\ fast' = size /\ rest' = size /\ pc' = "size"
    BY <2>1 DEF AskSize
  <2>3. size \in Nat \ {0} /\ \E k \in size .. INT_MAX : IsFast(k)
    BY SizesAssumption
  <2> QED
    BY <2>2, <2>3 DEF SizeInv
<1>2. CASE SizeStep
  BY <1>2, SizeSteps
<1>3. CASE TakeSize
  BY <1>3 DEF TakeSize, SizeInv
<1>4. CASE \E length \in Lengths, backwards \in BOOLEAN :
             \/ Alloc(length, backwards)
             \/ \E lenmem \in CallersMemory(length) : AllocIn(length, backwards, lenmem)
             \/ Construct(length, backwards)
  BY <1>4 DEF Alloc, AllocIn, Construct, Prepare, SizeInv
<1>5. CASE FillTwiddles
  BY <1>5 DEF FillTwiddles, Enter, SizeInv
<1>6. CASE Factor
  BY <1>6 DEF Factor, FactorStep, NextRadix, Divide, SizeInv
<1>7. CASE \E samples \in Probes(nfft) :
             \/ ~template /\ \E stride \in Strides : Transform(samples, stride)
             \/ TemplateTransform(samples)
  BY <1>7 DEF Transform, TemplateTransform, SizeInv
<1>8. CASE Collect
  BY <1>8 DEF Collect, SizeInv
<1>9. CASE Release
  BY <1>9 DEF Release, Free, SizeInv
<1>10. CASE UNCHANGED vars
  BY <1>10 DEF vars, factorVars, sizeVars, SizeInv
<1> QED
  BY <1>1, <1>2, <1>3, <1>4, <1>5, <1>6, <1>7, <1>8, <1>9, <1>10 DEF Next

(* For every size it is asked for, kiss_fft_next_fast_size returns the     *)
(* least size that is not below it and whose every divisor shares a factor *)
(* with 30, as kiss_fft.h:111 has it: an int, as its n++ is never past     *)
(* that size.                                                              *)
THEOREM NextSizeIsLeast == Spec => []LeastFastSize
<1>1. Init => SizeInv
  BY DEF Init, FactorInit, SizeInv
<1>2. SizeInv => LeastFastSize
  <2> SUFFICES ASSUME SizeInv, pc = "sized"
               PROVE  /\ fast \in asked .. INT_MAX /\ IsFast(fast)
                      /\ \A size \in asked .. fast - 1 : ~IsFast(size)
    BY DEF LeastFastSize
  <2>1. /\ asked \in Nat \ {0} /\ fast \in Nat /\ asked <= fast
        /\ \A size \in asked .. fast - 1 : ~IsFast(size)
    BY DEF SizeInv
  <2>2. IsFast(fast)
    BY DEF SizeInv, IsFast
  <2>3. PICK k \in asked .. INT_MAX : IsFast(k)
    BY DEF SizeInv
  <2>4. fast <= k
    BY <2>1, <2>3
  <2>5. fast \in asked .. INT_MAX
    BY <2>1, <2>4, IntLimit
  <2> QED
    BY <2>1, <2>2, <2>5
<1> QED
  BY <1>1, <1>2, NextSizeInv, PTL DEF Spec

-----------------------------------------------------------------------------
(* The factorisation inside the rest of the library: it starts from a      *)
(* state that has no stages, and a transform leaves the stages alone.      *)
Untouched ==
  pc \in {"idle", "size", "sized", "alloc"} => n = 1 /\ p = 4 /\ factors = <<>>

Kept ==
  pc = "done" => n = 1 /\ n = IF factors = <<>> THEN nfft ELSE factors[Len(factors)].m

StagesInv == FactorInv /\ RadicesInv /\ Untouched /\ Kept

(* Steps that leave the stages as they are, and the length of those that   *)
(* there are.                                                              *)
LEMMA StagesAlone ==
  ASSUME StagesInv, n' = n, p' = p, factors' = factors, template' \in BOOLEAN,
         nfft' = nfft \/ (pc = "idle" /\ nfft' \in Lengths),
         pc' \in Elsewhere \cup {"idle", "ready"},
         pc' = pc \/ pc \in Elsewhere \cup {"idle", "ready"},
         pc' \in {"idle", "size", "sized", "alloc"} => pc \in {"idle", "size", "sized", "alloc"},
         pc' \in {"ready", "done"} => pc \in {"ready", "done"}
  PROVE  StagesInv'
<1>0. /\ nfft \in Lengths \cup {1} /\ n \in 1 .. nfft
      /\ factors \in Seq([p : Nat \ {0}, m : 1 .. nfft])
  BY DEF StagesInv, FactorInv, TypeOK
<1>1. /\ nfft \in Nat \ {0} /\ n \in 1 .. nfft
      /\ factors \in Seq([p : Nat \ {0}, m : 1 .. nfft])
      /\ nfft' \in Nat \ {0} /\ nfft' \in Lengths \cup {1}
  <2>1. nfft' \in Lengths \cup {1}
    <3>1. CASE nfft' = nfft
      BY <1>0, <3>1, Zenon
    <3>2. CASE pc = "idle" /\ nfft' \in Lengths
      BY <3>2, Zenon
    <3> QED
      BY <3>1, <3>2, Zenon
  <2> QED
    BY <1>0, <2>1, LengthsAssumption
<1>2. pc \in {"idle", "size", "sized", "alloc"} => n = 1 /\ p = 4 /\ factors = <<>>
  BY DEF StagesInv, Untouched
<1>3. n \in 1 .. nfft' /\ p \in (1 .. nfft') \cup {4}
      /\ factors \in Seq([p : Nat \ {0}, m : 1 .. nfft'])
  <2>1. CASE nfft' = nfft
    BY <1>1, <2>1 DEF StagesInv, FactorInv, TypeOK
  <2>2. CASE pc = "idle" /\ nfft' \in Lengths
    BY <1>1, <1>2, <2>2
  <2> QED
    BY <2>1, <2>2
<1>4. TypeOK'
  BY <1>1, <1>3 DEF TypeOK
<1>5. pc' \in {"ready", "done"} =>
        n = 1 /\ n = IF factors = <<>> THEN nfft' ELSE factors[Len(factors)].m
  <2> SUFFICES ASSUME pc' \in {"ready", "done"}
               PROVE  n = 1 /\ n = IF factors = <<>> THEN nfft' ELSE factors[Len(factors)].m
    OBVIOUS
  <2>1. nfft' = nfft
    OBVIOUS
  <2>2. CASE pc = "done"
    BY <2>1, <2>2 DEF StagesInv, Kept
  <2>3. CASE pc = "ready"
    BY <1>1, <2>1, <2>3 DEF StagesInv, FactorInv, FactorsChain
  <2> QED
    BY <2>2, <2>3
<1>6. FactorsChain'
  <2>1. CASE nfft' = nfft
    BY <1>1, <1>5, <2>1 DEF StagesInv, FactorInv, FactorsChain, Elsewhere
  <2>2. CASE pc = "idle" /\ nfft' \in Lengths
    <3>1. factors = <<>> /\ pc' \notin {"factor", "ready"}
      BY <1>2, <2>2 DEF Elsewhere
    <3> QED
      BY <3>1 DEF FactorsChain
  <2> QED
    BY <2>1, <2>2
<1>7. MoreToDivide' /\ Untouched' /\ Kept'
  BY <1>2, <1>5 DEF MoreToDivide, Untouched, Kept, Elsewhere
<1>8. RadicesInv'
  <2>1. CASE nfft' = nfft
    BY <2>1 DEF StagesInv, RadicesInv, RadicesPrime, Elsewhere
  <2>2. CASE pc = "idle" /\ nfft' \in Lengths
    BY <1>2, <2>2, FreshRadices DEF RadicesInv, RadicesPrime, Sieved, RadicesSoFar
  <2> QED
    BY <2>1, <2>2
<1> QED
  BY <1>4, <1>6, <1>7, <1>8 DEF StagesInv, FactorInv

LEMMA StagesStep == StagesInv /\ [Next]_vars => StagesInv'
<1> SUFFICES ASSUME StagesInv, [Next]_vars PROVE StagesInv'
  OBVIOUS
<1>0. template \in BOOLEAN /\ pc \in {"idle", "factor", "ready"} \cup Elsewhere
  BY DEF StagesInv, FactorInv, TypeOK
<1>1. CASE \E size \in AskedSizes : AskSize(size)
  BY <1>0, <1>1, StagesAlone DEF AskSize, Elsewhere
<1>2. CASE SizeStep
  BY <1>0, <1>2, StagesAlone DEF SizeStep, DivideSize, TryNextSize, ReturnSize, tried, factorVars, Elsewhere
<1>3. CASE TakeSize
  BY <1>0, <1>3, StagesAlone DEF TakeSize, Elsewhere
<1>4. ASSUME NEW length \in Lengths, NEW backwards \in BOOLEAN,
             \/ Alloc(length, backwards)
             \/ \E lenmem \in CallersMemory(length) : AllocIn(length, backwards, lenmem)
             \/ Construct(length, backwards)
      PROVE  StagesInv'
  <2>1. /\ pc = "idle" /\ pc' = "alloc" /\ nfft' = length /\ template' \in BOOLEAN
        /\ n' = n /\ p' = p /\ factors' = factors
    BY <1>4 DEF Alloc, AllocIn, Construct, Prepare
  <2> QED
    BY <2>1, StagesAlone DEF Elsewhere
<1>5. CASE FillTwiddles
  <2>1. pc = "alloc" /\ Enter(nfft, template)
    BY <1>5 DEF FillTwiddles
  <2>2. nfft \in Nat \ {0} /\ nfft \in Lengths \cup {1}
    BY LengthsAssumption DEF StagesInv, FactorInv, TypeOK
  <2>3. FactorInv'
    BY <1>0, <2>1, <2>2 DEF Enter, FactorInv, TypeOK, FactorsChain, MoreToDivide
  <2>4. RadicesInv'
    BY <2>1 DEF Enter, RadicesInv, RadicesPrime, Sieved, RadicesSoFar
  <2> QED
    BY <2>1, <2>3, <2>4 DEF StagesInv, Untouched, Kept, Enter
<1>6. CASE Factor
  <2>1. FactorStep
    BY <1>6 DEF Factor
  <2>2. FactorInv'
    BY <2>1, NextRadixInv, DivideInv DEF FactorStep, StagesInv
  <2>3. RadicesInv'
    BY <2>1, NextRadixRadices, DivideRadices DEF FactorStep, StagesInv
  <2>4. pc' \in {"factor", "ready"}
    BY <2>1 DEF FactorStep, NextRadix, Divide
  <2> QED
    BY <2>2, <2>3, <2>4 DEF StagesInv, Untouched, Kept
<1>7. CASE \E samples \in Probes(nfft) :
             \/ ~template /\ \E stride \in Strides : Transform(samples, stride)
             \/ TemplateTransform(samples)
  <2>1. /\ pc = "ready" /\ pc' = "done" /\ nfft' = nfft /\ template' = template
        /\ n' = n /\ p' = p /\ factors' = factors
    BY <1>7 DEF Transform, TemplateTransform
  <2> QED
    BY <1>0, <2>1, StagesAlone DEF Elsewhere
<1>8. CASE Collect
  BY <1>0, <1>8, StagesAlone DEF Collect, Elsewhere
<1>9. CASE Release
  <2>1. Free
    BY <1>9 DEF Release
  <2>2. /\ template' = FALSE /\ pc' = "idle" /\ nfft' = 1 /\ n' = 1 /\ p' = 4 /\ factors' = <<>>
    BY <2>1 DEF Free
  <2>3. template' \in BOOLEAN
    BY <2>2, Zenon
  <2>4. FactorInv' /\ RadicesInv'
    BY <2>2, <2>3 DEF FactorInv, TypeOK, FactorsChain, MoreToDivide, RadicesInv, RadicesPrime, Sieved, RadicesSoFar
  <2> QED
    BY <2>2, <2>4 DEF StagesInv, Untouched, Kept
<1>10. CASE UNCHANGED vars
  BY <1>10 DEF vars, factorVars, StagesInv, FactorInv, TypeOK, FactorsChain, MoreToDivide,
               RadicesInv, RadicesPrime, Sieved, RadicesSoFar, Untouched, Kept
<1> QED
  BY <1>1, <1>2, <1>3, <1>4, <1>5, <1>6, <1>7, <1>8, <1>9, <1>10 DEF Next

LEMMA StagesAlways == Spec => []StagesInv
<1>1. Init => StagesInv
  BY InitInv, FreshRadices DEF Init, FactorInit, StagesInv, Untouched, Kept
<1> QED
  BY <1>1, StagesStep, PTL DEF Spec

(* For every length the radix tried stays in range, and what is left is    *)
(* never 0, so that the loops divide by a radix that is not 0, in every    *)
(* order of calls of the library. (kiss_fft.c:308-331, kissfft.hh:27-47)   *)
THEOREM TypeCorrect == Spec => []TypeOK
<1>1. StagesInv => TypeOK
  BY DEF StagesInv, FactorInv
<1> QED
  BY <1>1, StagesAlways, PTL

(* For every length the stages that kf_work is given fit together: the     *)
(* radix and the length of each make up the length of the stage before,    *)
(* the first is the transform's, the last and only the last is 1, also     *)
(* when another state has been prepared and freed before.                  *)
THEOREM StagesFitTogether == Spec => []FactorsChain
<1>1. StagesInv => FactorsChain
  BY DEF StagesInv, FactorInv
<1> QED
  BY <1>1, StagesAlways, PTL

(* For every length the stages that either version uses are 4s, then at    *)
(* most one 2, then odd primes in order. (kiss_fft.c:308-331,              *)
(* kissfft.hh:27-47)                                                       *)
THEOREM RadicesArePrime == Spec => []RadicesPrime
<1>1. StagesInv => RadicesPrime
  BY DEF StagesInv, RadicesInv
<1> QED
  BY <1>1, StagesAlways, PTL

-----------------------------------------------------------------------------
(* Every stage at least halves what is left of an int: MAXFACTORS is       *)
(* enough.  Twice[k + 1] is the product of k twos.                         *)
Twice == << 1, 2, 4, 8, 16, 32, 64, 128, 256, 512, 1024, 2048, 4096, 8192, 16384, 32768,
            65536, 131072, 262144, 524288, 1048576, 2097152, 4194304, 8388608, 16777216,
            33554432, 67108864, 134217728, 268435456, 536870912, 1073741824 >>

LEMMA Doubling ==
  /\ Twice \in [1 .. 31 -> Nat]
  /\ Twice[1] = 1 /\ 2 * Twice[31] = INT_MAX + 1
  /\ \A k \in 1 .. 30 : Twice[k + 1] = 2 * Twice[k]
<1>1. Twice \in [1 .. 31 -> Nat] /\ Twice[1] = 1 /\ 2 * Twice[31] = INT_MAX + 1
  BY SMT DEF Twice, INT_MAX
<1>2. /\ \A k \in 1 .. 10 : Twice[k + 1] = 2 * Twice[k]
      /\ \A k \in 11 .. 20 : Twice[k + 1] = 2 * Twice[k]
      /\ \A k \in 21 .. 30 : Twice[k + 1] = 2 * Twice[k]
  BY SMT DEF Twice
<1> QED
  BY <1>1, <1>2

FewStages ==
  /\ nfft > 1 => p > 1
  /\ nfft = 1 => Len(factors) <= 1
  /\ nfft > 1 => Len(factors) <= 30 /\ n * Twice[Len(factors) + 1] <= nfft

LEMMA FewStagesStep ==
  ASSUME StagesInv, FewStages, FactorStep
  PROVE  FewStages'
<1>0. /\ pc = "factor"
      /\ nfft \in Nat \ {0} /\ nfft <= INT_MAX
      /\ n \in 1 .. nfft /\ p \in Nat \ {0}
      /\ Len(factors) \in Nat
      /\ nfft' = nfft
  <2>1. nfft \in Nat \ {0} /\ nfft <= INT_MAX /\ n \in 1 .. nfft /\ p \in Nat \ {0}
    BY LengthsAssumption, IntAssumption, IntLimit DEF StagesInv, FactorInv, TypeOK
  <2>2. Len(factors) \in Nat
    BY DEF StagesInv, FactorInv, TypeOK
  <2> QED
    BY <2>1, <2>2 DEF FactorStep, NextRadix, Divide
<1>1. nfft > 1 => n > 1
  <2>1. CASE factors = <<>>
    BY <1>0, <2>1 DEF StagesInv, FactorInv, FactorsChain
  <2>2. CASE factors # <<>>
    BY <1>0, <2>2 DEF StagesInv, FactorInv, MoreToDivide
  <2> QED
    BY <2>1, <2>2
<1>2. CASE NextRadix
  <2>1. n' = n /\ factors' = factors
    BY <1>2 DEF NextRadix
  <2>2. nfft > 1 => p' > 1
    <3>1. p' = n \/ p' = Candidate(p)
      BY <1>2 DEF NextRadix
    <3>2. Candidate(p) > 1
      BY <1>0 DEF Candidate
    <3> QED
      BY <1>1, <3>1, <3>2
  <2> QED
    BY <1>0, <2>1, <2>2 DEF FewStages
<1>3. CASE Divide
  <2>1. n' \in 1 .. n /\ p * n' = n
    <3>1. n % p = 0 /\ n' = n \div p
      BY <1>3 DEF Divide
    <3> QED
      BY <1>0, <3>1, ExactQuotient
  <2>2. Len(factors') = Len(factors) + 1 /\ p' = p
    BY <1>0, <1>3 DEF Divide, Stage, StagesInv, FactorInv, TypeOK
  <2>3. nfft = 1 => Len(factors') <= 1
    <3> SUFFICES ASSUME nfft = 1 PROVE Len(factors) = 0
      BY <2>2
    <3>1. ASSUME factors # <<>> PROVE FALSE
      BY <1>0, <3>1 DEF StagesInv, FactorInv, MoreToDivide
    <3> QED
      BY <3>1
  <2>4. ASSUME nfft > 1
        PROVE  Len(factors') <= 30 /\ n' * Twice[Len(factors') + 1] <= nfft
    <3>0. PICK k : k = Len(factors)
      OBVIOUS
    <3>1. k = Len(factors) /\ n * Twice[k + 1] <= nfft /\ k \in Nat
      BY <1>0, <2>4, <3>0, Zenon DEF FewStages
    <3>10. k <= 30
      BY <2>4, <3>0, Zenon DEF FewStages
    <3>11. k \in 0 .. 30
      <4>1. \A x \in Nat : x <= 30 => x \in 0 .. 30
        OBVIOUS
      <4> QED
        BY <3>1, <3>10, <4>1, Zenon
    <3>2. k < 30
      <4>1. ASSUME k = 30 PROVE FALSE
        <5>1. PICK t \in Nat : t = Twice[31] /\ 2 * t = INT_MAX + 1
          BY Doubling
        <5>2. n * t <= INT_MAX
          BY <1>0, <3>1, <4>1, <5>1, IntLimit
        <5>3. \A x, t1 \in Nat : x > 1 => x * t1 >= 2 * t1
          OBVIOUS
        <5>4. n * t >= 2 * t
          BY <1>0, <1>1, <2>4, <5>3
        <5> QED
          BY <1>0, <5>1, <5>2, <5>4, IntLimit
      <4>2. k # 30
        BY <4>1
      <4> QED
        BY <3>11, <4>2
    <3>3. PICK t \in Nat : t = Twice[k + 1]
      BY <3>2, <3>11, Doubling
    <3>4. Twice[k + 2] = 2 * t
      BY <3>2, <3>3, <3>11, Doubling
    <3>5. p > 1
      BY <2>4 DEF FewStages
    <3>6. \A x, y, r, l \in Nat : r > 1 /\ r * x = y /\ y * t <= l => x * (2 * t) <= l
      <4>1. SUFFICES ASSUME NEW x \in Nat, NEW y \in Nat, NEW r \in Nat, NEW l \in Nat,
                            r > 1, r * x = y, y * t <= l
                     PROVE  x * (2 * t) <= l
        OBVIOUS
      <4>2. PICK e \in Nat : r = 2 + e
        <5>1. r - 2 \in Nat /\ r = 2 + (r - 2)
          BY <4>1
        <5> QED
          BY <5>1
      <4>3. y * t = x * (2 * t) + e * x * t
        BY <4>1, <4>2
      <4>4. e * x * t \in Nat
        OBVIOUS
      <4> QED
        BY <4>1, <4>3, <4>4
    <3>7. n' * (2 * t) <= nfft
      <4>1. n' \in Nat /\ n \in Nat /\ p \in Nat /\ nfft \in Nat
        BY <1>0, <2>1
      <4>2. p > 1 /\ p * n' = n /\ n * t <= nfft
        BY <2>1, <3>1, <3>3, <3>5
      <4> QED
        BY <3>6, <4>1, <4>2
    <3> QED
      BY <2>2, <3>1, <3>2, <3>4, <3>7
  <2> QED
    BY <1>0, <2>2, <2>3, <2>4 DEF FewStages
<1> QED
  BY <1>2, <1>3 DEF FactorStep

(* The state: from the allocation on there is memory for what it holds.    *)
StateInv ==
  /\ FewStages
  /\ pc \in {"alloc", "factor", "ready", "done"} /\ ~template =>
       room \in Nat /\ memneeded(nfft) <= room
  /\ pc \in {"factor", "ready", "done"} => DOMAIN twiddles = 0 .. nfft - 1

LEMMA StateStep == StagesInv /\ StateInv /\ [Next]_vars => StateInv'
<1> SUFFICES ASSUME StagesInv, StateInv, [Next]_vars PROVE StateInv'
  OBVIOUS
<1>0. pc \in {"idle", "size", "sized", "alloc"} => n = 1 /\ p = 4 /\ factors = <<>>
  BY DEF StagesInv, Untouched
<1>1. CASE \E size \in AskedSizes : AskSize(size)
  BY <1>1 DEF AskSize, fftVars, StateInv, FewStages
<1>2. CASE SizeStep
  BY <1>2 DEF SizeStep, DivideSize, TryNextSize, ReturnSize, tried, factorVars, fftVars, StateInv, FewStages
<1>3. CASE TakeSize
  BY <1>3 DEF TakeSize, fftVars, StateInv, FewStages
<1>4. ASSUME NEW length \in Lengths, NEW backwards \in BOOLEAN,
             \/ Alloc(length, backwards)
             \/ \E lenmem \in CallersMemory(length) : AllocIn(length, backwards, lenmem)
             \/ Construct(length, backwards)
      PROVE  StateInv'
  <2>0. length \in Nat \ {0}
    BY LengthsAssumption
  <2>1. PICK bytes : /\ \E hh \in BOOLEAN : Prepare(length, hh, backwards, bytes)
                     /\ ~template' => bytes \in Nat /\ memneeded(length) <= bytes
    <3>1. CASE Alloc(length, backwards)
      <4>1. Prepare(length, FALSE, backwards, memneeded(length))
        BY <3>1 DEF Alloc
      <4>2. memneeded(length) \in Nat /\ memneeded(length) <= memneeded(length)
        BY <2>0 DEF memneeded, SizeofCpx, SizeofState, MAXFACTORS
      <4> QED
        BY <4>1, <4>2
    <3>2. CASE \E lenmem \in CallersMemory(length) : AllocIn(length, backwards, lenmem)
      <4>1. PICK lenmem \in CallersMemory(length) : AllocIn(length, backwards, lenmem)
        BY <3>2
      <4>2. lenmem \in Nat /\ memneeded(length) \in Nat
        BY <2>0, MemoryAssumption DEF memneeded, SizeofCpx, SizeofState, MAXFACTORS
      <4> QED
        BY <4>1, <4>2 DEF AllocIn
    <3>3. CASE Construct(length, backwards)
      BY <3>3 DEF Construct, Prepare
    <3> QED
      BY <1>4, <3>1, <3>2, <3>3
  <2>2. /\ pc = "idle" /\ pc' = "alloc" /\ nfft' = length /\ room' = bytes
        /\ n' = n /\ p' = p /\ factors' = factors
    BY <2>1 DEF Prepare
  <2>3. FewStages'
    <3>1. n' = 1 /\ p' = 4 /\ factors' = <<>> /\ Len(factors') = 0
      BY <1>0, <2>2
    <3>2. Twice[Len(factors') + 1] = 1
      BY <3>1, Doubling
    <3> QED
      BY <2>0, <2>2, <3>1, <3>2 DEF FewStages
  <2> QED
    BY <2>1, <2>2, <2>3 DEF StateInv, memneeded
<1>5. CASE FillTwiddles
  <2>1. /\ pc = "alloc" /\ pc' = "factor" /\ nfft' = nfft /\ n' = nfft /\ p' = 4
        /\ factors' = <<>> /\ template' = template /\ room' = room
        /\ twiddles' = Twiddles
    BY <1>5 DEF FillTwiddles, Enter
  <2>2. nfft \in Nat \ {0}
    BY LengthsAssumption DEF StagesInv, FactorInv, TypeOK
  <2>3. DOMAIN twiddles' = 0 .. nfft - 1
    BY <2>1 DEF Twiddles
  <2>4. FewStages'
    <3>1. Len(factors') = 0
      BY <2>1
    <3>2. Twice[Len(factors') + 1] = 1
      BY <3>1, Doubling
    <3> QED
      BY <2>1, <2>2, <3>1, <3>2 DEF FewStages
  <2> QED
    BY <2>1, <2>3, <2>4 DEF StateInv, memneeded
<1>6. CASE Factor
  <2>1. FactorStep /\ room' = room /\ twiddles' = twiddles
    BY <1>6 DEF Factor, fftVars
  <2>2. FewStages'
    BY <2>1, FewStagesStep DEF StateInv
  <2>3. pc = "factor" /\ pc' \in {"factor", "ready"} /\ nfft' = nfft /\ template' = template
    BY <2>1 DEF FactorStep, NextRadix, Divide
  <2> QED
    BY <2>1, <2>2, <2>3 DEF StateInv, memneeded
<1>7. CASE \E samples \in Probes(nfft) :
             \/ ~template /\ \E stride \in Strides : Transform(samples, stride)
             \/ TemplateTransform(samples)
  BY <1>7 DEF Transform, TemplateTransform, StateInv, FewStages, memneeded
<1>8. CASE Collect
  BY <1>8 DEF Collect, StateInv, FewStages, memneeded
<1>9. CASE Release
  <2>1. pc' = "idle" /\ nfft' = 1 /\ n' = 1 /\ p' = 4 /\ factors' = <<>>
    BY <1>9 DEF Release, Free
  <2> QED
    BY <2>1 DEF StateInv, FewStages
<1>10. CASE UNCHANGED vars
  BY <1>10 DEF vars, factorVars, fftVars, StateInv, FewStages, memneeded
<1> QED
  BY <1>1, <1>2, <1>3, <1>4, <1>5, <1>6, <1>7, <1>8, <1>9, <1>10 DEF Next

(* In the memory that kiss_fft_alloc takes, or is given, there is room for *)
(* the twiddles of the whole length, and MAXFACTORS pairs are enough for   *)
(* the stages of any length that is an int. (kiss_fft.c:334-367)           *)
THEOREM StateAlwaysFits == Spec => []StateFits
<1>1. Init => StateInv
  BY DEF Init, FactorInit, StateInv, FewStages
<1>2. StagesInv /\ StateInv => StateFits
  <2> SUFFICES ASSUME StagesInv, StateInv, pc \in {"factor", "ready", "done"}, ~template
               PROVE  /\ 8 + 8 * MAXFACTORS + SizeofCpx * Cardinality(DOMAIN twiddles) <= room
                      /\ Len(factors) <= MAXFACTORS
    BY DEF StateFits
  <2>1. nfft \in Nat \ {0} /\ Len(factors) \in Nat
    BY LengthsAssumption DEF StagesInv, FactorInv, TypeOK
  <2>2. Cardinality(DOMAIN twiddles) = nfft
    BY <2>1, FS_Interval DEF StateInv
  <2>3. 264 + 8 * nfft - 8 + 8 <= room /\ room \in Nat
    BY <2>1 DEF StateInv, memneeded, SizeofCpx, SizeofState, MAXFACTORS
  <2>4. Len(factors) <= 32
    BY <2>1 DEF StateInv, FewStages
  <2> QED
    BY <2>1, <2>2, <2>3, <2>4 DEF MAXFACTORS, SizeofCpx
<1> QED
  BY <1>1, <1>2, StagesAlways, StateStep, PTL DEF Spec
=============================================================================
