------------------------------ MODULE KissFactor ------------------------------
(***************************************************************************)
(* The radices of a transform, and the lengths left after each: kf_factor  *)
(* of kiss_fft.c, and the loop of prepare() in kissfft.hh (`template`),    *)
(* which gives up on small radices by another rule.                        *)
(***************************************************************************)
EXTENDS Integers, Sequences

CONSTANT Lengths        \* what transforms are allocated for

ASSUME LengthsAssumption == Lengths \subseteq Nat \ {0}

Elsewhere == {"size", "sized", "alloc", "done"}    \* pc outside the loop

VARIABLES
  pc,                   \* "factor" in the loop, "ready" after it
  template,             \* whether it is the loop of kissfft.hh
  nfft,                 \* the length of the transform
  n,                    \* what is left of it
  p,                    \* the radix that is tried
  factors               \* facbuf: pairs of a radix and the length left

factorVars == <<pc, template, nfft, n, p, factors>>

-----------------------------------------------------------------------------
FactorInit ==
  /\ pc = "idle"
  /\ template = FALSE
  /\ nfft = 1
  /\ n = 1
  /\ p = 4
  /\ factors = <<>>

Enter(length, hh) ==
  /\ pc' = "factor"
  /\ template' = hh
  /\ nfft' = length
  /\ n' = length
  /\ p' = 4
  /\ factors' = <<>>

CandidateStuck(radix) == IF radix = 4 THEN 2 ELSE 3    \* mutant: no default

(* The switch of the inner loop.                                           *)
Candidate(radix) ==
  CASE radix = 4 -> 2
    [] radix = 2 -> 3
    [] OTHER -> radix + 2

PastRootNever(radix) == FALSE                    \* mutant: no skip to the end
PastRootEarly(radix) == radix * radix >= nfft    \* mutant: >= for >

(* p > floor_sqrt: the root of the whole length, not of what is left.      *)
PastRoot(radix) == radix * radix > nfft

(* p*p>n, where n is what is left.                                         *)
PastRootOfRest(radix) == radix * radix > n

NoneSmaller(radix) == IF template THEN PastRootOfRest(radix) ELSE PastRoot(radix)

NextRadix ==
  /\ pc = "factor"
  /\ n % p # 0
  /\ p' = IF NoneSmaller(Candidate(p)) THEN n ELSE Candidate(p)
  /\ UNCHANGED <<pc, template, nfft, n, factors>>

StageBefore(radix, left) == [p |-> radix, m |-> n]    \* mutant: stored too early

Stage(radix, left) == [p |-> radix, m |-> left]

Divide ==
  /\ pc = "factor"
  /\ n % p = 0
  /\ n' = n \div p
  /\ factors' = Append(factors, Stage(p, n'))
  /\ pc' = IF n' > 1 THEN "factor" ELSE "ready"
  /\ UNCHANGED <<template, nfft, p>>

FactorStep == NextRadix \/ Divide

(* The caller frees the state.                                             *)
Free ==
  /\ pc = "ready"
  /\ pc' = "idle"
  /\ template' = FALSE
  /\ nfft' = 1
  /\ n' = 1
  /\ p' = 4
  /\ factors' = <<>>

FactorNext ==
  \/ FactorStep
  \/ Free
  \/ pc = "idle" /\ \E length \in Lengths, hh \in BOOLEAN : Enter(length, hh)

FactorSpec == FactorInit /\ [][FactorNext]_factorVars

-----------------------------------------------------------------------------
IsPrime(k) == k > 1 /\ \A d \in 2 .. k - 1 : k % d # 0

(* The candidate never runs past the length: one that divides it is found. *)
TypeOK ==
  /\ pc \in {"idle", "factor", "ready"} \cup Elsewhere
  /\ template \in BOOLEAN
  /\ nfft \in Lengths \cup {1}
  /\ n \in 1 .. nfft
  /\ p \in (1 .. nfft) \cup {4}
  /\ factors \in Seq([p : Nat \ {0}, m : 1 .. nfft])

(* "p[i] * m[i] = m[i-1]" and "m0 = n" (kiss_fft.c:306-307): each stage's  *)
(* radix times its length is the length of the stage before,               *)
(* n stays the last of these lengths, and kf_work, which stops at m = 1,   *)
(* finds that stage last and nowhere before.                               *)
FactorsChain ==
  LET Length(i) == IF i = 0 THEN nfft ELSE factors[i].m
  IN  /\ \A i \in 1 .. Len(factors) : factors[i].p * factors[i].m = Length(i - 1)
      /\ pc \in {"factor", "ready"} => n = Length(Len(factors))
      /\ pc = "ready" => n = 1
      /\ \A i \in 1 .. Len(factors) - 1 : factors[i].m > 1

(* The radices are 4, then 2 at most once, then odd primes in order: the   *)
(* skip to what is left once p is past the root - of the whole length in   *)
(* one version, of what is left in the other - never takes a product for a *)
(* prime, so both find the same stages.  (A length of 1 has radix 1.)      *)
RadicesPrime ==
  /\ \A i \in 1 .. Len(factors) :
       factors[i].p = 4 \/ IsPrime(factors[i].p) \/ nfft = 1
  /\ \A i, j \in 1 .. Len(factors) : i < j =>
       \/ factors[i].p = 4
       \/ factors[i].p <= factors[j].p /\ ~(factors[i].p = 2 /\ factors[j].p = 2)

(* Both loops end, whatever the length. (kiss_fft.c:316-330, kissfft.hh:33-46) *)
FactorReturns == pc = "factor" ~> pc = "ready"
=============================================================================
