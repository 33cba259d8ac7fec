-------------------------------- MODULE KissFft --------------------------------
(***************************************************************************)
(* kiss_fft.c: a caller asks for a fast size, or not, has a transform      *)
(* prepared by kiss_fft_alloc, in memory of its own or in the caller's,    *)
(* and run by kiss_fft_stride.  Or it constructs a kissfft of kissfft.hh   *)
(* (`template`) and calls its transform().                                 *)
(*                                                                         *)
(* Numbers.  Rounding is not what can go wrong in the control of an FFT,   *)
(* so the arithmetic is exact: a length has a field of q^2 elements        *)
(* r + i*sqrt(-1), q a prime of the form 4k + 3, in which it has a root    *)
(* of unity of norm 1.  Everything the code relies on holds there as it    *)
(* does in the complex plane: the conjugate of a twiddle is its inverse, a *)
(* quarter turn multiplies by sqrt(-1), a half is the inverse of 2.        *)
(***************************************************************************)
EXTENDS KissFactor, FiniteSets, SequencesExt

CONSTANTS
  AskedSizes,           \* what kiss_fft_next_fast_size is called with
  Fields,               \* a length -> its field: q, and root for a whole turn / length
  CallersMemory(_),     \* bytes a caller offers for the state of a length
  Strides,              \* values of in_stride
  Probes(_),            \* the inputs for a length: sequences of complex numbers
  Between               \* what lies between the samples that are read

ASSUME MemoryAssumption == \A length \in Lengths : CallersMemory(length) \subseteq Nat

(* nfft is an int.                                                         *)
INT_MAX == 2147483647
ASSUME IntAssumption == \A length \in Lengths : length <= INT_MAX

(* kiss_fft_next_fast_size counts in an int, too: past the largest fast    *)
(* one its n++ would overflow, and the size 0 is divided by 2 for ever.    *)
IsFast(size) == \A d \in 2 .. size : size % d = 0 => \E f \in {2, 3, 5} : d % f = 0
ASSUME SizesAssumption ==
  \A size \in AskedSizes : size \in Nat \ {0} /\ \E k \in size .. INT_MAX : IsFast(k)

VARIABLES
  asked,                \* in kiss_fft_next_fast_size: what it was called with,
  fast,                 \* its n,
  rest,                 \* and its m
  room,                 \* bytes of memory the state is built in
  inverse,              \* the direction
  twiddles,             \* 0 .. nfft - 1 -> complex numbers
  fin,                  \* the input, and
  in_stride,            \* the distance of the samples in it that count
  fout                  \* the output

sizeVars == <<asked, fast, rest>>
fftVars == <<room, inverse, twiddles, fin, in_stride, fout>>
vars == <<factorVars, sizeVars, fftVars>>

-----------------------------------------------------------------------------
(* The arithmetic of _kiss_fft_guts.h, floating point case.                *)
Q == Fields[nfft].q
Cpx(r, i) == [r |-> r % Q, i |-> i % Q]
C_MUL(a, b) == Cpx(a.r * b.r - a.i * b.i, a.r * b.i + a.i * b.r)
C_ADD(a, b) == Cpx(a.r + b.r, a.i + b.i)
C_SUB(a, b) == Cpx(a.r - b.r, a.i - b.i)
C_MULBYSCALAR(a, s) == Cpx(a.r * s, a.i * s)
HALF_OF(x) == x * ((Q + 1) \div 2)
Conj(a) == Cpx(a.r, -a.i)

Zero == [r |-> 0, i |-> 0]
One == [r |-> 1, i |-> 0]

Power(a, k) ==
  LET power[j \in Nat] ==
        IF j = 0 THEN One
        ELSE LET half == power[j \div 2]
                 square == C_MUL(half, half)
             IN  IF j % 2 = 0 THEN square ELSE C_MUL(a, square)
  IN  power[k]

-----------------------------------------------------------------------------
(* The butterflies: the values x that the radix combines at offset u in    *)
(* its block, and tw[j], the twiddle of the j-th.                          *)
Bfly2(x, tw) ==
  LET t == C_MUL(x[2], tw[1])
  IN  <<C_ADD(x[1], t), C_SUB(x[1], t)>>

Bfly4Forward(x, tw) ==    \* mutant: st->inverse is not looked at
  LET s0 == C_MUL(x[2], tw[1])
      s1 == C_MUL(x[3], tw[2])
      s2 == C_MUL(x[4], tw[3])
      s4 == C_SUB(s0, s2)
      s5 == C_SUB(x[1], s1)
      turned == Cpx(s4.i, -s4.r)
  IN  <<C_ADD(C_ADD(x[1], s1), C_ADD(s0, s2)), C_ADD(s5, turned),
        C_SUB(C_ADD(x[1], s1), C_ADD(s0, s2)), C_SUB(s5, turned)>>

Bfly4(x, tw) ==
  LET s0 == C_MUL(x[2], tw[1])
      s1 == C_MUL(x[3], tw[2])
      s2 == C_MUL(x[4], tw[3])
      s3 == C_ADD(s0, s2)
      s4 == C_SUB(s0, s2)
      s5 == C_SUB(x[1], s1)
      even == C_ADD(x[1], s1)
      turned == IF inverse THEN Cpx(-s4.i, s4.r) ELSE Cpx(s4.i, -s4.r)
  IN  <<C_ADD(even, s3), C_ADD(s5, turned), C_SUB(even, s3), C_SUB(s5, turned)>>

(* kf_bfly4 of kissfft.hh: a factor where the other chooses.               *)
TemplateBfly4(x, tw) ==
  LET s0 == C_MUL(x[2], tw[1])
      s1 == C_MUL(x[3], tw[2])
      s2 == C_MUL(x[4], tw[3])
      even == C_ADD(x[1], s1)
      s5 == C_SUB(x[1], s1)
      s3 == C_ADD(s0, s2)
      negative_if_inverse == IF inverse THEN -1 ELSE 1
      s4 == Cpx(C_SUB(s0, s2).i * negative_if_inverse, -C_SUB(s0, s2).r * negative_if_inverse)
  IN  <<C_ADD(even, s3), C_ADD(s5, s4), C_SUB(even, s3), C_SUB(s5, s4)>>

Bfly3(x, tw, epi3) ==
  LET s1 == C_MUL(x[2], tw[1])
      s2 == C_MUL(x[3], tw[2])
      s3 == C_ADD(s1, s2)
      s0 == C_MULBYSCALAR(C_SUB(s1, s2), epi3.i)
      middle == Cpx(x[1].r - HALF_OF(s3.r), x[1].i - HALF_OF(s3.i))
  IN  <<C_ADD(x[1], s3),
        Cpx(middle.r - s0.i, middle.i + s0.r),
        Cpx(middle.r + s0.i, middle.i - s0.r)>>

Bfly5(x, tw, ya, yb) ==
  LET s == [j \in 1 .. 4 |-> C_MUL(x[j + 1], tw[j])]
      s7 == C_ADD(s[1], s[4])
      s10 == C_SUB(s[1], s[4])
      s8 == C_ADD(s[2], s[3])
      s9 == C_SUB(s[2], s[3])
      s5 == C_ADD(x[1], C_ADD(C_MULBYSCALAR(s7, ya.r), C_MULBYSCALAR(s8, yb.r)))
      s6 == Cpx(s10.i * ya.i + s9.i * yb.i, - s10.r * ya.i - s9.r * yb.i)
      s11 == C_ADD(x[1], C_ADD(C_MULBYSCALAR(s7, yb.r), C_MULBYSCALAR(s8, ya.r)))
      s12 == Cpx(- s10.i * yb.i + s9.i * ya.i, s10.r * yb.i - s9.r * ya.i)
  IN  <<C_ADD(x[1], C_ADD(s7, s8)),
        C_SUB(s5, s6), C_ADD(s11, s12), C_SUB(s11, s12), C_ADD(s5, s6)>>

(* The index of a twiddle goes round at most once per addition.            *)
Wrapped(twidx) == IF twidx >= nfft THEN twidx - nfft ELSE twidx

(* kf_bfly_generic, the value at k: x[1] plus x[q] times a twiddle that    *)
(* advances by fstride * k from one q to the next.                         *)
Generic(x, fstride, k) ==
  FoldLeft(LAMBDA sum, xq :
             LET twidx == Wrapped(sum.twidx + fstride * k)
             IN  [twidx |-> twidx, value |-> C_ADD(sum.value, C_MUL(xq, twiddles[twidx]))],
           [twidx |-> 0, value |-> x[1]], Tail(x)).value

(* The values at the offset u of a block of radix * m of them that holds   *)
(* the transforms of its parts one after the other, combined.              *)
Butterfly(radix, m, fstride, block, u) ==
  LET x == [j \in 1 .. radix |-> block[(j - 1) * m + u + 1]]
      tw == [j \in 1 .. radix - 1 |-> twiddles[j * u * fstride]]
  IN  CASE radix = 2 -> Bfly2(x, tw)
        [] radix = 3 -> Bfly3(x, tw, twiddles[fstride * m])
        [] radix = 4 -> IF template THEN TemplateBfly4(x, tw) ELSE Bfly4(x, tw)
        [] radix = 5 -> Bfly5(x, tw, twiddles[fstride * m], twiddles[fstride * 2 * m])
        [] OTHER -> [j \in 1 .. radix |-> Generic(x, fstride, (j - 1) * m + u)]

Recombined(radix, m, fstride, block) ==
  [k \in 1 .. radix * m |->
     Butterfly(radix, m, fstride, block, (k - 1) % m)[1 + ((k - 1) \div m)]]

(* kf_work: each part takes every fstride-th sample, the next part starts  *)
(* one sample on.                                                          *)
Work(input, stride) ==
  LET work[f, fstride, stage \in Nat] ==
        LET radix == factors[stage].p
            m == factors[stage].m
            part(k) == IF m = 1 THEN <<input[1 + f + k * fstride * stride]>>
                       ELSE work[f + k * fstride * stride, fstride * radix, stage + 1]
            block == FlattenSeq([k \in 1 .. radix |-> part(k - 1)])
        IN  Recombined(radix, m, fstride, block)
  IN  work[0, 1, 1]

-----------------------------------------------------------------------------
FactorsOfPowers == {2, 3}              \* mutant: 5 is left out
FastFactors == {2, 3, 5}

NextSizeSame(size) == size             \* mutant: n++ forgotten
NextSize(size) == size + 1

(* The call of kiss_fft_next_fast_size.                                    *)
AskSize(size) ==
  /\ pc = "idle"
  /\ pc' = "size"
  /\ asked' = size
  /\ fast' = size
  /\ rest' = size
  /\ UNCHANGED <<template, nfft, n, p, factors, fftVars>>

Divides(factor) == rest % factor = 0

(* One round of the three inner loops, which come in the order 2, 3, 5.    *)
DivideSize ==
  /\ pc = "size"
  /\ \E factor \in FastFactors :
       /\ Divides(factor)
       /\ \A smaller \in FastFactors : smaller < factor => ~Divides(smaller)
       /\ rest' = rest \div factor
  /\ UNCHANGED <<factorVars, asked, fast, fftVars>>

tried == pc = "size" /\ \A factor \in FastFactors : ~Divides(factor)

TryNextSize ==
  /\ tried
  /\ rest > 1
  /\ fast' = NextSize(fast)
  /\ rest' = fast'
  /\ UNCHANGED <<factorVars, asked, fftVars>>

ReturnSize ==
  /\ tried
  /\ rest <= 1
  /\ pc' = "sized"
  /\ UNCHANGED <<template, nfft, n, p, factors, sizeVars, fftVars>>

(* The caller has its size, for a later kiss_fft_alloc.                    *)
TakeSize ==
  /\ pc = "sized"
  /\ pc' = "idle"
  /\ asked' = 0
  /\ fast' = 0
  /\ rest' = 0
  /\ UNCHANGED <<template, nfft, n, p, factors, fftVars>>

SizeStep == DivideSize \/ TryNextSize \/ ReturnSize

-----------------------------------------------------------------------------
(* kiss_fft_alloc's table: backward turns for the transform, forward ones  *)
(* for its inverse.                                                        *)
Twiddles ==
  LET turn == IF inverse THEN Fields[nfft].root ELSE Conj(Fields[nfft].root)
  IN  [i \in 0 .. nfft - 1 |-> Power(turn, i)]

Init ==
  /\ FactorInit
  /\ asked = 0
  /\ fast = 0
  /\ rest = 0
  /\ room = 0
  /\ inverse = FALSE
  /\ twiddles = [i \in {0} |-> One]
  /\ fin = <<>>
  /\ in_stride = 1
  /\ fout = <<>>

MAXFACTORS == 32
SizeofCpx == 8
SizeofState == 4 + 4 + 4 * 2 * MAXFACTORS + SizeofCpx    \* with one twiddle

NeededForOne(length) == SizeofState       \* mutant: the one twiddle it declares

memneeded(length) == SizeofState + SizeofCpx * (length - 1)

Prepare(length, hh, backwards, bytes) ==
  /\ pc = "idle"
  /\ pc' = "alloc"
  /\ template' = hh
  /\ nfft' = length
  /\ inverse' = backwards
  /\ room' = bytes
  /\ UNCHANGED <<n, p, factors, sizeVars, twiddles, fin, in_stride, fout>>

(* kiss_fft_alloc up to the loop: lenmem NULL, or memory of the caller's   *)
(* that is large enough; with less, nothing but *lenmem is changed.        *)
Alloc(length, backwards) == Prepare(length, FALSE, backwards, memneeded(length))

AllocIn(length, backwards, lenmem) ==
  /\ lenmem >= memneeded(length)
  /\ Prepare(length, FALSE, backwards, lenmem)

(* The constructor, whose vectors grow as they are filled.                 *)
Construct(length, backwards) == Prepare(length, TRUE, backwards, 0)

FillTwiddles ==
  /\ pc = "alloc"
  /\ twiddles' = Twiddles
  /\ Enter(nfft, template)
  /\ UNCHANGED <<room, sizeVars, inverse, fin, in_stride, fout>>

Factor == FactorStep /\ UNCHANGED <<sizeVars, fftVars>>

(* What the caller passes: samples in_stride apart, other data between.    *)
Spread(samples, stride) ==
  [i \in 1 .. stride * Len(samples) |->
     IF (i - 1) % stride = 0 THEN samples[1 + ((i - 1) \div stride)] ELSE Between]

(* kiss_fft_stride, out of place.                                          *)
Transform(samples, stride) ==
  /\ pc = "ready"
  /\ pc' = "done"
  /\ fin' = Spread(samples, stride)
  /\ in_stride' = stride
  /\ fout' = Work(Spread(samples, stride), stride)
  /\ UNCHANGED <<template, nfft, n, p, factors, sizeVars, room, inverse, twiddles>>

(* transform(), which knows no stride.                                     *)
TemplateTransform(samples) == template /\ Transform(samples, 1)

(* The caller takes the output and keeps the state for another transform.  *)
Collect ==
  /\ pc = "done"
  /\ pc' = "ready"
  /\ fin' = <<>>
  /\ in_stride' = 1
  /\ fout' = <<>>
  /\ UNCHANGED <<template, nfft, n, p, factors, sizeVars, room, inverse, twiddles>>

Release ==
  /\ Free
  /\ room' = 0
  /\ inverse' = FALSE
  /\ twiddles' = [i \in {0} |-> One]
  /\ UNCHANGED <<sizeVars, fin, in_stride, fout>>

Next ==
  \/ \E size \in AskedSizes : AskSize(size)
  \/ SizeStep
  \/ TakeSize
  \/ \E length \in Lengths, backwards \in BOOLEAN :
       \/ Alloc(length, backwards)
       \/ \E lenmem \in CallersMemory(length) : AllocIn(length, backwards, lenmem)
       \/ Construct(length, backwards)
  \/ FillTwiddles
  \/ Factor
  \/ \E samples \in Probes(nfft) :
       \/ ~template /\ \E stride \in Strides : Transform(samples, stride)
       \/ TemplateTransform(samples)
  \/ Collect
  \/ Release

Spec == Init /\ [][Next]_vars /\ WF_vars(Factor) /\ WF_vars(SizeStep)

-----------------------------------------------------------------------------
(* The definition of the transform: the sum of sample(j) * z^j, where z is *)
(* the k-th power of a turn, added up in halves.                           *)
Sum(z, samples) ==
  LET sum[first, last \in Nat] ==
        IF first = last THEN C_MUL(fin[1 + first * in_stride], Power(z, first))
        ELSE LET middle == (first + last) \div 2
             IN  C_ADD(sum[first, middle], sum[middle + 1, last])
  IN  sum[0, samples - 1]

(* The output is the discrete Fourier transform of the samples, or the     *)
(* inverse one without its factor, for every way the length factors: the   *)
(* stages' strides, twiddle indices and signs fit together.                *)
TransformIsDFT ==
  pc = "done" =>
    LET root == Fields[nfft].root
        turn == IF inverse THEN root ELSE Conj(root)
    IN  fout = [k \in 1 .. nfft |-> Sum(Power(turn, k - 1), nfft)]

(* Everything the allocation writes lies in the memory it has: after two   *)
(* integers and MAXFACTORS pairs of them the twiddles of the whole length, *)
(* and no more stages than there are pairs.                                *)
StateFits ==
  pc \in {"factor", "ready", "done"} /\ ~template =>
    /\ 8 + 8 * MAXFACTORS + SizeofCpx * Cardinality(DOMAIN twiddles) <= room
    /\ Len(factors) <= MAXFACTORS

(* "Returns the smallest integer k, such that k>=n and k has only "fast"   *)
(* factors (2,3,5)" (kiss_fft.h:111): every divisor of k but 1 shares one. *)
LeastFastSize ==
  pc = "sized" =>
    /\ fast \in asked .. INT_MAX
    /\ IsFast(fast)
    /\ \A size \in asked .. fast - 1 : ~IsFast(size)

(* kiss_fft_next_fast_size returns, for every size but 0, which is         *)
(* divided by 2 for ever. (kiss_fft.c:398-406)                             *)
SizeReturns == pc = "size" ~> pc = "sized"
=============================================================================
