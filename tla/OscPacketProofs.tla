--------------------------- MODULE OscPacketProofs ---------------------------
(***************************************************************************)
(* Proofs about OscPacket, for every size of buffer, every set of          *)
(* addresses and arguments and any depth of bundles.                       *)
(***************************************************************************)
EXTENDS OscPacket, SequenceTheorems, TLAPS

(* A stream on the buffer, between two writes.                             *)
IsStream(s) ==
  /\ s = [data |-> s.data, pos |-> s.pos, ok |-> s.ok]
  /\ s.data = [i \in 0 .. (capacity \div 4 - 1) |-> s.data[i]]
  /\ s.pos \in 0 .. capacity
  /\ s.pos % 4 = 0
  /\ s.ok \in BOOLEAN

(* What a write to a stream leaves behind it alone.                        *)
SameBelow(s, t) == \A i \in 0 .. (s.pos \div 4 - 1) : t.data[i] = s.data[i]

-----------------------------------------------------------------------------
(* Words and bytes.                                                        *)
LEMMA WordOf ==
  ASSUME NEW p \in Nat, p % 4 = 0
  PROVE  p \div 4 \in Nat /\ p = 4 * (p \div 4)
OBVIOUS

LEMMA AlignProperties ==
  ASSUME NEW n \in Nat
  PROVE  /\ Align(n) \in Nat
         /\ Align(n) % 4 = 0
         /\ n <= Align(n) /\ Align(n) < n + 4
         /\ Align(n) = 4 * (Align(n) \div 4)
BY DEF Align

(* The tags of a message take room for one more than was announced.        *)
LEMMA TagBytes ==
  ASSUME NEW n \in Nat
  PROVE  Align(n + 2) \in Nat /\ Align(n + 2) % 4 = 0 /\ n + 2 <= Align(n + 2)
<1> DEFINE m == n + 2
<1>1. m \in Nat
  OBVIOUS
<1> HIDE DEF m
<1>2. Align(m) \in Nat /\ Align(m) % 4 = 0 /\ m <= Align(m)
  BY <1>1, AlignProperties
<1> QED
  BY <1>2 DEF m

LEMMA WordBelow ==
  ASSUME NEW a \in Nat, NEW b \in Nat, a % 4 = 0, a <= b
  PROVE  /\ a <= 4 * (b \div 4) /\ 4 * (b \div 4) <= b
         /\ b \div 4 \in Nat /\ a \div 4 <= b \div 4
OBVIOUS

LEMMA WordSum ==
  ASSUME NEW a \in Nat, NEW b \in Nat, NEW c \in {0, 4}, a % 4 = 0, b % 4 = 0
  PROVE  a + c + b \in Nat /\ (a + c + b) % 4 = 0
OBVIOUS

LEMMA WordInside ==
  ASSUME NEW a \in Nat, NEW b \in Nat, a % 4 = 0, a + 4 <= b
  PROVE  a \div 4 \in 0 .. (b \div 4 - 1)
OBVIOUS

LEMMA WordStart ==
  ASSUME NEW a \in Nat, NEW b \in Nat, a < b
  PROVE  4 * (a \div 4) < b
OBVIOUS

(* The words of a row that ends before b.                                  *)
LEMMA RowInside ==
  ASSUME NEW a \in Nat, NEW n \in Nat, NEW b \in Nat, a % 4 = 0, b % 4 = 0, a + 4 * n <= b
  PROVE  \A k \in 1 .. n : /\ a \div 4 + k - 1 \in 0 .. (b \div 4 - 1)
                          /\ 4 * (a \div 4 + k - 1) = a + 4 * (k - 1)
<1>1. a = 4 * (a \div 4) /\ b = 4 * (b \div 4) /\ a \div 4 \in Nat /\ b \div 4 \in Nat
  OBVIOUS
<1>2. \A x, y \in Nat : 4 * x + 4 * n <= 4 * y =>
        \A k \in 1 .. n : x + k - 1 \in 0 .. (y - 1) /\ 4 * (x + k - 1) = 4 * x + 4 * (k - 1)
  OBVIOUS
<1> QED
  BY <1>1, <1>2

LEMMA WordsDiffer ==
  ASSUME NEW a \in Nat, NEW b \in Nat, a % 4 = 0, b % 4 = 0, a # b
  PROVE  a \div 4 # b \div 4
OBVIOUS

Wrote(s, ws, t) ==
  /\ IsStream(t)
  /\ t.ok = TRUE
  /\ t.pos = s.pos + 4 * Len(ws)
  /\ SameBelow(s, t)
  /\ \A k \in 1 .. Len(ws) : t.data[s.pos \div 4 + k - 1] = ws[k]
  /\ \A i \in 0 .. (capacity \div 4 - 1) :
       t.data[i] = s.data[i] \/ \E k \in 1 .. Len(ws) : t.data[i] = ws[k]

(* A write that fits puts its words at the position and goes on behind     *)
(* them; one that does not changes nothing.                                *)
LEMMA PutFits ==
  ASSUME capacity \in Nat, NEW s, IsStream(s), NEW W, NEW ws \in Seq(W),
         s.ok = TRUE, s.pos + 4 * Len(ws) <= capacity
  PROVE  Wrote(s, ws, Put(s, ws))
<1> DEFINE first == s.pos \div 4
           data == [i \in 0 .. (capacity \div 4 - 1) |->
                      IF i \in first .. (first + Len(ws) - 1) THEN ws[i - first + 1]
                                                              ELSE s.data[i]]
           t == [data |-> data, pos |-> s.pos + 4 * Len(ws), ok |-> TRUE]
<1>1. DOMAIN s.data = 0 .. (capacity \div 4 - 1)
  BY DEF IsStream
<1>2. WordsAt(s.data, s.pos, ws) = data
  BY <1>1 DEF WordsAt
<1>3. Fits(s, 4 * Len(ws))
  BY DEF Fits, IsStream
<1>4. Put(s, ws) = [s EXCEPT !.data = data, !.pos = s.pos + 4 * Len(ws)]
  BY <1>2, <1>3 DEF Put
<1>5. Put(s, ws) = t
  <2> HIDE DEF data
  <2> QED
    BY <1>4 DEF IsStream
<1>6. /\ first \in Nat /\ s.pos = 4 * first /\ Len(ws) \in Nat
      /\ first + Len(ws) <= capacity \div 4
  <2>1. s.pos \in Nat /\ s.pos % 4 = 0 /\ s.pos + 4 * Len(ws) <= capacity /\ Len(ws) \in Nat
    BY DEF IsStream
  <2>2. first \in Nat /\ s.pos = 4 * first
    BY ONLY <2>1, WordOf
  <2>3. \A f, n, c \in Nat : 4 * f + 4 * n <= c => f + n <= c \div 4
    OBVIOUS
  <2>4. capacity \in Nat /\ 4 * first + 4 * Len(ws) <= capacity
    BY <2>1, <2>2
  <2> HIDE DEF first
  <2> QED
    BY ONLY <2>1, <2>2, <2>3, <2>4
<1>7. IsStream(t)
  <2>1. data = [i \in 0 .. (capacity \div 4 - 1) |-> data[i]]
    OBVIOUS
  <2> HIDE DEF data, first
  <2>2. s.pos + 4 * Len(ws) \in 0 .. capacity /\ (s.pos + 4 * Len(ws)) % 4 = 0
    BY <1>6 DEF IsStream
  <2> QED
    BY <2>1, <2>2 DEF IsStream
<1>8. \A i \in 0 .. first - 1 : data[i] = s.data[i]
  BY <1>6
<1>9. \A k \in 1 .. Len(ws) : data[first + k - 1] = ws[k]
  <2> TAKE k \in 1 .. Len(ws)
  <2>1. /\ first + k - 1 \in 0 .. (capacity \div 4 - 1)
        /\ first + k - 1 \in first .. (first + Len(ws) - 1)
        /\ (first + k - 1) - first + 1 = k
    <3>1. capacity \div 4 \in Int
      OBVIOUS
    <3> HIDE DEF first
    <3> QED
      BY <1>6, <3>1
  <2> HIDE DEF first
  <2> QED
    BY <2>1
<1>10. \A i \in 0 .. (capacity \div 4 - 1) :
         data[i] = s.data[i] \/ \E k \in 1 .. Len(ws) : data[i] = ws[k]
  <2> TAKE i \in 0 .. (capacity \div 4 - 1)
  <2>1. CASE i \in first .. (first + Len(ws) - 1)
    <3>1. i - first + 1 \in 1 .. Len(ws) /\ data[i] = ws[i - first + 1]
      BY <1>6, <2>1
    <3> QED
      BY <3>1
  <2>2. CASE i \notin first .. (first + Len(ws) - 1)
    BY <2>2
  <2> QED
    BY <2>1, <2>2
<1> HIDE DEF data
<1> QED
  BY <1>5, <1>7, <1>8, <1>9, <1>10 DEF SameBelow, Wrote

LEMMA PutFails ==
  ASSUME capacity \in Nat, NEW s, IsStream(s), NEW W, NEW ws \in Seq(W),
         s.ok = FALSE \/ s.pos + 4 * Len(ws) > capacity
  PROVE  /\ IsStream(Put(s, ws))
         /\ Put(s, ws).ok = FALSE
         /\ Put(s, ws).pos = s.pos
         /\ Put(s, ws).data = s.data
<1>1. ~Fits(s, 4 * Len(ws))
  BY DEF Fits, IsStream
<1>2. Put(s, ws) = [s EXCEPT !.ok = FALSE]
  BY <1>1 DEF Put
<1>3. Put(s, ws) = [data |-> s.data, pos |-> s.pos, ok |-> FALSE]
  BY <1>2 DEF IsStream
<1> QED
  BY <1>3 DEF IsStream

LEMMA SkipFits ==
  ASSUME capacity \in Nat, NEW s, IsStream(s), s.ok = TRUE, s.pos + 4 <= capacity
  PROVE  /\ IsStream(Skip(s))
         /\ Skip(s).ok = TRUE
         /\ Skip(s).pos = s.pos + 4
         /\ Skip(s).data = s.data
<1>1. Fits(s, 4)
  BY DEF Fits, IsStream
<1>2. Skip(s) = [s EXCEPT !.pos = s.pos + 4]
  BY <1>1 DEF Skip
<1>3. Skip(s) = [data |-> s.data, pos |-> s.pos + 4, ok |-> TRUE]
  BY <1>2 DEF IsStream
<1>4. s.pos + 4 \in 0 .. capacity /\ (s.pos + 4) % 4 = 0
  BY DEF IsStream
<1> QED
  BY <1>3, <1>4 DEF IsStream

LEMMA SkipFails ==
  ASSUME capacity \in Nat, NEW s, IsStream(s), s.ok = FALSE \/ s.pos + 4 > capacity
  PROVE  /\ IsStream(Skip(s))
         /\ Skip(s).ok = FALSE
         /\ Skip(s).pos = s.pos
         /\ Skip(s).data = s.data
<1>1. ~Fits(s, 4)
  BY DEF Fits, IsStream
<1>2. Skip(s) = [s EXCEPT !.ok = FALSE]
  BY <1>1 DEF Skip
<1>3. Skip(s) = [data |-> s.data, pos |-> s.pos, ok |-> FALSE]
  BY <1>2 DEF IsStream
<1> QED
  BY <1>3 DEF IsStream

LEMMA ThrowKeeps ==
  ASSUME NEW s, IsStream(s)
  PROVE  /\ IsStream(Throw(s))
         /\ Throw(s).ok = FALSE
         /\ Throw(s).pos = s.pos
         /\ Throw(s).data = s.data
<1>1. Throw(s) = [s EXCEPT !.ok = FALSE]
  BY DEF Throw
<1>2. Throw(s) = [data |-> s.data, pos |-> s.pos, ok |-> FALSE]
  BY <1>1 DEF IsStream
<1> QED
  BY <1>2 DEF IsStream

(* The size of an element goes into its slot and nowhere else.             *)
WroteSize(s, slot, t) ==
  /\ IsStream(t)
  /\ t.ok = TRUE
  /\ t.pos = s.pos
  /\ t.data[slot \div 4] = Size(s.pos - slot - 4)
  /\ \A i \in 0 .. (capacity \div 4 - 1) : i # slot \div 4 => t.data[i] = s.data[i]

RefusedSize(s, slot, t) ==
  /\ IsStream(t)
  /\ t.ok = FALSE
  /\ t.pos = slot
  /\ t.data = s.data

LEMMA PutSizeFits ==
  ASSUME capacity \in Nat, NEW s, IsStream(s), s.ok = TRUE, aligned = TRUE,
         NEW slot \in Nat, slot % 4 = 0, slot + 4 <= s.pos
  PROVE  WroteSize(s, slot, PutSize(s, slot))
<1> DEFINE size == Size(s.pos - slot - 4)
           data == [i \in 0 .. (capacity \div 4 - 1) |->
                      IF i = slot \div 4 THEN size ELSE s.data[i]]
<1>1. WordsAt(s.data, slot, << size >>) = data
  <2>1. DOMAIN s.data = 0 .. (capacity \div 4 - 1)
    BY DEF IsStream
  <2>2. slot \div 4 \in Nat
    OBVIOUS
  <2>3. Len(<< size >>) = 1 /\ << size >>[1] = size
    OBVIOUS
  <2> HIDE DEF size
  <2>4. WordsAt(s.data, slot, << size >>)
          = [i \in 0 .. (capacity \div 4 - 1) |->
               IF i \in slot \div 4 .. (slot \div 4 + 1 - 1)
               THEN << size >>[i - slot \div 4 + 1] ELSE s.data[i]]
    BY <2>1, <2>3 DEF WordsAt
  <2>5. \A i \in 0 .. (capacity \div 4 - 1) :
          (IF i \in slot \div 4 .. (slot \div 4 + 1 - 1)
           THEN << size >>[i - slot \div 4 + 1] ELSE s.data[i])
            = IF i = slot \div 4 THEN size ELSE s.data[i]
    BY <2>2, <2>3
  <2> QED
    BY <2>4, <2>5
<1> HIDE DEF data
<1>2. PutSize(s, slot) = [s EXCEPT !.data = data]
  BY <1>1 DEF PutSize
<1>3. PutSize(s, slot) = [data |-> data, pos |-> s.pos, ok |-> TRUE]
  BY <1>2 DEF IsStream
<1>4. data = [i \in 0 .. (capacity \div 4 - 1) |-> data[i]]
  BY DEF data
<1>5. slot \div 4 \in 0 .. (capacity \div 4 - 1)
  BY DEF IsStream
<1>6. /\ data[slot \div 4] = size
      /\ \A i \in 0 .. (capacity \div 4 - 1) : i # slot \div 4 => data[i] = s.data[i]
  BY <1>5 DEF data
<1> QED
  BY <1>3, <1>4, <1>6 DEF IsStream, WroteSize

LEMMA PutSizeFails ==
  ASSUME capacity \in Nat, NEW s, IsStream(s), aligned = FALSE,
         NEW slot \in Nat, slot % 4 = 0, slot + 4 <= s.pos
  PROVE  RefusedSize(s, slot, PutSize(s, slot))
<1>1. PutSize(s, slot) = [s EXCEPT !.pos = slot, !.ok = FALSE]
  BY DEF PutSize
<1>2. PutSize(s, slot) = [data |-> s.data, pos |-> slot, ok |-> FALSE]
  BY <1>1 DEF IsStream
<1>3. slot \in 0 .. capacity
  BY DEF IsStream
<1> QED
  BY <1>2, <1>3 DEF IsStream, RefusedSize

(* A word of four characters.                                              *)
TagWord(w) == w = [k \in 1 .. 5 |-> w[k]] /\ w[1] = "chars"

WroteChar(s, at, c, t) ==
  /\ IsStream(t)
  /\ t.ok = s.ok
  /\ t.pos = s.pos
  /\ TagWord(t.data[at \div 4])
  /\ \A k \in 1 .. 5 : t.data[at \div 4][k]
                        = IF k = 2 + (at % 4) THEN c ELSE s.data[at \div 4][k]
  /\ \A i \in 0 .. (capacity \div 4 - 1) : i # at \div 4 => t.data[i] = s.data[i]

(* A tag changes one character of one word.                                *)
LEMMA PutCharFits ==
  ASSUME capacity \in Nat, NEW s, IsStream(s), NEW at \in Nat, at < capacity,
         NEW c, TagWord(s.data[at \div 4]), at \div 4 < capacity \div 4
  PROVE  WroteChar(s, at, c, PutChar(s, at, c))
<1> DEFINE old == s.data[at \div 4]
           word == [k \in 1 .. 5 |-> IF k = 2 + (at % 4) THEN c ELSE old[k]]
           data == [i \in 0 .. (capacity \div 4 - 1) |->
                      IF i = at \div 4 THEN word ELSE s.data[i]]
<1>1. at \div 4 \in 0 .. (capacity \div 4 - 1) /\ 2 + (at % 4) \in 2 .. 5
  OBVIOUS
<1>2. TagWord(word)
  BY <1>1 DEF TagWord
<1>3. [old EXCEPT ![2 + (at % 4)] = c] = word
  BY <1>1 DEF TagWord
<1> HIDE DEF word
<1>4. PutChar(s, at, c) = [s EXCEPT !.data = [s.data EXCEPT ![at \div 4] = word]]
  BY <1>3, Zenon DEF PutChar
<1>5. [s.data EXCEPT ![at \div 4] = word] = data
  BY <1>1 DEF IsStream
<1>6. PutChar(s, at, c) = [data |-> data, pos |-> s.pos, ok |-> s.ok]
  <2> HIDE DEF data
  <2> QED
    BY <1>4, <1>5 DEF IsStream
<1>7. data = [i \in 0 .. (capacity \div 4 - 1) |-> data[i]]
  OBVIOUS
<1>8. /\ data[at \div 4] = word
      /\ \A i \in 0 .. (capacity \div 4 - 1) : i # at \div 4 => data[i] = s.data[i]
  BY <1>1
<1>9. \A k \in 1 .. 5 : word[k] = IF k = 2 + (at % 4) THEN c ELSE old[k]
  BY DEF word
<1> HIDE DEF data
<1> QED
  BY <1>2, <1>6, <1>7, <1>8, <1>9 DEF IsStream, WroteChar

-----------------------------------------------------------------------------
(* The rows that are written.                                              *)
LEMMA FixedRows ==
  /\ BundleWords \in Seq({"#bundle"} \X Int) /\ Len(BundleWords) = 2
  /\ TimeWords \in Seq({"time"} \X Int) /\ Len(TimeWords) = 2
BY DEF BundleWords, TimeWords

LEMMA OffsetRow ==
  ASSUME NEW n \in Int
  PROVE  << Offset(n) >> \in Seq({"offset"} \X Int) /\ Len(<< Offset(n) >>) = 1
         /\ << Offset(n) >>[1] = Offset(n)
BY DEF Offset

LEMMA StringRow ==
  ASSUME NEW x \in Strings
  PROVE  /\ SizeString(x) \in Nat /\ SizeString(x) % 4 = 0 /\ SizeString(x) >= 4
         /\ StringWords(x) \in Seq(TextWords)
         /\ 4 * Len(StringWords(x)) = SizeString(x)
<1> DEFINE n == SizeString(x) \div 4
<1>1. Strlen[x] \in Nat
  BY StringsAssumption
<1>2. SizeString(x) \in Nat /\ SizeString(x) % 4 = 0 /\ SizeString(x) >= 4
  <2>1. Strlen[x] + 1 \in Nat
    BY <1>1
  <2>2. /\ SizeString(x) \in Nat
        /\ SizeString(x) % 4 = 0
        /\ Strlen[x] + 1 <= SizeString(x)
    BY <2>1, AlignProperties DEF SizeString
  <2> QED
    BY <1>1, <2>2
<1>3. n \in Nat /\ 4 * n = SizeString(x)
  BY <1>2
<1>4. StringWords(x) = [i \in 1 .. n |-> <<"string", x, i>>]
  BY DEF StringWords
<1> HIDE DEF n
<1>5. \A i \in 1 .. n : <<"string", x, i>> \in TextWords
  BY DEF TextWords
<1>6. StringWords(x) \in Seq(TextWords) /\ Len(StringWords(x)) = n
  BY <1>3, <1>4, <1>5
<1> QED
  BY <1>2, <1>3, <1>6

LEMMA ZeroTagWord == TagWord(ZeroWord)
BY DEF TagWord, ZeroWord, NUL

LEMMA ZeroRow ==
  ASSUME NEW n \in Nat, n % 4 = 0
  PROVE  /\ ZeroWords(n) \in Seq({ZeroWord})
         /\ 4 * Len(ZeroWords(n)) = n
         /\ \A k \in 1 .. Len(ZeroWords(n)) : ZeroWords(n)[k] = ZeroWord
<1> DEFINE m == n \div 4
<1>1. m \in Nat /\ 4 * m = n
  OBVIOUS
<1>2. ZeroWords(n) = [i \in 1 .. m |-> ZeroWord]
  BY DEF ZeroWords
<1> HIDE DEF m
<1>3. ZeroWords(n) \in Seq({ZeroWord}) /\ Len(ZeroWords(n)) = m
  BY <1>1, <1>2
<1> QED
  BY <1>1, <1>2, <1>3

-----------------------------------------------------------------------------
(* What any number of writes does to a stream: it stays one, what is below *)
(* its position stays, and only words of W are new.                        *)
Extends(s, t, W) ==
  /\ IsStream(t)
  /\ SameBelow(s, t)
  /\ s.pos <= t.pos
  /\ \A i \in 0 .. (capacity \div 4 - 1) : t.data[i] = s.data[i] \/ t.data[i] \in W

(* Writing `bytes` throws or not, and puts the stream that much further.   *)
Moves(s, t, bytes) ==
  /\ t.ok = TRUE <=> s.ok = TRUE /\ s.pos + bytes <= capacity
  /\ t.ok = TRUE => t.pos = s.pos + bytes

Holds(t, pos, ws) == \A k \in 1 .. Len(ws) : t.data[pos \div 4 + k - 1] = ws[k]

LEMMA PutExtends ==
  ASSUME capacity \in Nat, NEW s, IsStream(s), NEW W, NEW ws \in Seq(W)
  PROVE  /\ Extends(s, Put(s, ws), W)
         /\ Moves(s, Put(s, ws), 4 * Len(ws))
         /\ Put(s, ws).ok = TRUE => Holds(Put(s, ws), s.pos, ws)
<1>1. Len(ws) \in Nat /\ \A k \in 1 .. Len(ws) : ws[k] \in W
  OBVIOUS
<1>2. s.pos \in Nat /\ s.ok \in BOOLEAN
  BY DEF IsStream
<1>3. CASE s.ok = TRUE /\ s.pos + 4 * Len(ws) <= capacity
  <2>1. Wrote(s, ws, Put(s, ws))
    BY <1>3, PutFits
  <2>2. s.pos <= Put(s, ws).pos
    BY <1>1, <1>2, <2>1 DEF Wrote
  <2> QED
    BY <1>1, <1>3, <2>1, <2>2 DEF Extends, Wrote, Moves, Holds
<1>4. CASE ~(s.ok = TRUE /\ s.pos + 4 * Len(ws) <= capacity)
  <2>1. /\ IsStream(Put(s, ws))
        /\ Put(s, ws).ok = FALSE
        /\ Put(s, ws).pos = s.pos
        /\ Put(s, ws).data = s.data
    <3>1. s.ok = FALSE \/ s.pos + 4 * Len(ws) > capacity
      BY <1>1, <1>2, <1>4
    <3> QED
      BY <3>1, PutFails
  <2> QED
    BY <1>2, <1>4, <2>1 DEF Extends, SameBelow, Moves
<1> QED
  BY <1>3, <1>4

LEMMA SkipExtends ==
  ASSUME capacity \in Nat, NEW s, IsStream(s)
  PROVE  Extends(s, Skip(s), {}) /\ Moves(s, Skip(s), 4)
<1>1. s.pos \in Nat /\ s.ok \in BOOLEAN
  BY DEF IsStream
<1>2. CASE s.ok = TRUE /\ s.pos + 4 <= capacity
  <2>1. /\ IsStream(Skip(s))
        /\ Skip(s).ok = TRUE
        /\ Skip(s).pos = s.pos + 4
        /\ Skip(s).data = s.data
    <3>1. s.ok = TRUE
      BY <1>2
    <3>2. s.pos + 4 <= capacity
      BY <1>2
    <3> QED
      BY <3>1, <3>2, SkipFits, Zenon
  <2> QED
    BY <1>1, <1>2, <2>1 DEF Extends, SameBelow, Moves
<1>3. CASE ~(s.ok = TRUE /\ s.pos + 4 <= capacity)
  <2>1. s.ok = FALSE \/ s.pos + 4 > capacity
    BY <1>1, <1>3
  <2>2. /\ IsStream(Skip(s))
        /\ Skip(s).ok = FALSE
        /\ Skip(s).pos = s.pos
        /\ Skip(s).data = s.data
    BY <2>1, SkipFails
  <2> QED
    BY <1>1, <1>3, <2>2 DEF Extends, SameBelow, Moves
<1> QED
  BY <1>2, <1>3

LEMMA ExtendsSelf ==
  ASSUME NEW s, IsStream(s), NEW W
  PROVE  Extends(s, s, W)
BY DEF Extends, SameBelow, IsStream

LEMMA MovesChain ==
  ASSUME NEW s, NEW t, NEW u, IsStream(s), IsStream(t), IsStream(u), capacity \in Nat,
         NEW a \in Nat, NEW b \in Nat, Moves(s, t, a), Moves(t, u, b)
  PROVE  Moves(s, u, a + b)
<1>1. s.pos \in Nat /\ t.pos \in Nat
  BY DEF IsStream
<1> QED
  BY <1>1 DEF Moves

(* What was put stays when the stream goes on.                             *)
LEMMA StillHolds ==
  ASSUME NEW s, NEW t, NEW W, NEW V, NEW ws \in Seq(V), NEW pos \in Nat, pos % 4 = 0,
         IsStream(s), Extends(s, t, W), Holds(s, pos, ws), pos + 4 * Len(ws) <= s.pos,
         capacity \in Nat
  PROVE  Holds(t, pos, ws)
<1> SUFFICES ASSUME NEW k \in 1 .. Len(ws)
             PROVE  t.data[pos \div 4 + k - 1] = ws[k]
  BY DEF Holds
<1>1. s.pos \in Nat /\ s.pos % 4 = 0 /\ Len(ws) \in Nat
  BY DEF IsStream
<1>2. pos \div 4 + k - 1 \in 0 .. (s.pos \div 4 - 1)
  BY <1>1
<1> QED
  BY <1>2 DEF Holds, Extends, SameBelow

LEMMA ExtendsChain ==
  ASSUME capacity \in Nat, NEW s, IsStream(s), NEW t, NEW u, NEW V, NEW W,
         Extends(s, t, V), Extends(t, u, W)
  PROVE  Extends(s, u, V \cup W)
<1>1. s.pos \in Nat /\ t.pos \in Nat /\ u.pos \in Nat
  BY DEF IsStream, Extends
<1>2. s.pos \div 4 <= t.pos \div 4 /\ s.pos <= u.pos
  BY <1>1 DEF Extends
<1>3. SameBelow(s, u)
  BY <1>1, <1>2 DEF Extends, SameBelow
<1> QED
  BY <1>2, <1>3 DEF Extends

-----------------------------------------------------------------------------
(***************************************************************************)
(* The inductive invariant.  After an exception the packet is given up, so *)
(* it says what is open and where things lie only while there was none.    *)
(***************************************************************************)
Element ==
  [kind : {"bundle", "message"}, addr : Addresses \cup {Null}, numTags : Nat,
   put : Seq(Args), slot : Nat \cup {Null}, first : Nat, last : Nat \cup {Null}]

(* The elements that are open: bundles, and perhaps a message in the last; *)
(* each begins behind the header of those around it, with its slot.        *)
OpenNest ==
  /\ open \in Seq(Element)
  /\ Len(open) \in {inBundle, inBundle + 1}
  /\ \A i \in 1 .. Len(open) :
       /\ open[i].kind = IF i <= inBundle THEN "bundle" ELSE "message"
       /\ open[i].first % 4 = 0
       /\ i = 1 => open[i].slot = Null /\ open[i].first = 0
       /\ i > 1 => open[i].slot \in Nat /\ open[i].first = open[i].slot + 4
       /\ open[i].first + (IF i <= inBundle THEN SizeBundle ELSE 8) <= args.pos
  /\ \A i, j \in 1 .. Len(open) : i < j => open[i].first + SizeBundle <= open[j].slot

(* The tag stream of the open message lies behind its address and before   *)
(* its arguments, and has room for one tag more than was announced.        *)
TagArea ==
  messageOpen =>
    /\ tags.begin % 4 = 0
    /\ Innermost.first + 4 <= tags.begin
    /\ tags.end = tags.begin + Innermost.numTags + 2
    /\ tags.pos = tags.begin + 1 + Len(Innermost.put)
    /\ tags.begin + Align(Innermost.numTags + 2) <= args.pos
    /\ \A i \in 0 .. (capacity \div 4 - 1) :
         tags.begin <= 4 * i /\ 4 * i < tags.begin + Align(Innermost.numTags + 2)
           => TagWord(args.data[i])

SlotList ==
  /\ inBundle > 1 => sizePosB = open[inBundle].slot
  /\ inBundle <= 1 => sizePosB \in {Null, 0}
  /\ messageOpen /\ inBundle > 0 => sizePosM = Innermost.slot
  /\ \A i \in 2 .. inBundle : args.data[open[i].slot \div 4] = Offset(SlotOf(i - 1))

(* A closed element lies before an open one or in its content.             *)
Beside(e, i) == i > 1 /\ e.last <= open[i].slot
Within(e, i) == i <= inBundle /\ e.slot >= open[i].first + SizeBundle

ClosedPlaces ==
  \A e \in closed :
    /\ e \in Element
    /\ e.last \in Nat
    /\ e.first % 4 = 0
    /\ e.slot # Null => e.first = e.slot + 4
    /\ e.slot = Null => open = << >> /\ e.first = 0
    /\ e.first + 8 <= e.last
    /\ e.last <= args.pos
    /\ \A i \in 1 .. Len(open) : Beside(e, i) \/ Within(e, i)

Types ==
  /\ TypeOK
  /\ IsStream(args)
  /\ tags \in [begin : Nat, end : Nat, pos : Nat]

Places == OpenNest /\ TagArea /\ SlotList /\ ClosedPlaces

PacketInv ==
  /\ Types
  /\ SizesMatch
  /\ SizesPredicted
  /\ NumbersAligned
  /\ args.ok = TRUE => Places

LEMMA Sizes ==
  ASSUME PacketInv
  PROVE  /\ capacity \in Nat /\ IsStream(args)
         /\ args.pos \in Nat /\ args.pos <= capacity /\ args.pos % 4 = 0
         /\ args.ok \in BOOLEAN
         /\ inBundle \in Nat
         /\ MaxDepth \in Nat
         /\ sizePosM \in (0 .. capacity) \cup {Null}
         /\ sizePosB \in (0 .. capacity) \cup {Null}
         /\ OuterSlot \in Nat
<1>1. capacity \in Nat /\ MaxDepth \in Nat
  BY CallerAssumption DEF PacketInv, Types, TypeOK
<1>2. IsStream(args)
  BY DEF PacketInv, Types
<1>3. args.pos \in Nat /\ args.pos <= capacity /\ args.pos % 4 = 0 /\ args.ok \in BOOLEAN
  BY <1>1, <1>2 DEF IsStream
<1>4. /\ inBundle \in 0 .. MaxDepth
      /\ sizePosM \in (0 .. capacity) \cup {Null}
      /\ sizePosB \in (0 .. capacity) \cup {Null}
  BY DEF PacketInv, Types, TypeOK
<1>5. OuterSlot \in Nat
  BY <1>1, <1>4 DEF OuterSlot
<1> QED
  BY <1>1, <1>2, <1>3, <1>4, <1>5

(* No message is open, so the open elements are the bundles.               *)
LEMMA OnlyBundlesOpen ==
  ASSUME PacketInv, args.ok = TRUE, ~messageOpen
  PROVE  /\ open \in Seq(Element)
         /\ Len(open) = inBundle
<1>1. OpenNest
  BY DEF PacketInv, Places
<1>2. CASE Len(open) = inBundle + 1
  <2>1. Len(open) > 0 /\ open # << >>
    BY <1>1, <1>2, Sizes DEF OpenNest
  <2>2. Innermost.kind = "message"
    BY <1>1, <1>2, <2>1, Sizes DEF OpenNest, Innermost
  <2> QED
    BY <2>1, <2>2 DEF messageOpen
<1>3. CASE Len(open) = inBundle
  BY <1>1, <1>3 DEF OpenNest
<1> QED
  BY <1>1, <1>2, <1>3 DEF OpenNest

-----------------------------------------------------------------------------
(* openBundle.                                                             *)
HeaderWords == ({"offset"} \X Int) \cup (({"#bundle"} \X Int) \cup ({"time"} \X Int))
SlotBytes == IF inBundle > 0 THEN 4 ELSE 0

LEMMA OpenBundleWrites ==
  ASSUME PacketInv, OpenBundle
  PROVE  /\ Extends(args, args', HeaderWords)
         /\ Moves(args, args', SlotBytes + SizeBundle)
         /\ args'.ok = TRUE =>
              /\ inBundle > 0 => args'.data[args.pos \div 4] = Offset(OuterSlot)
              /\ Holds(args', args.pos + SlotBytes, BundleWords)
              /\ Holds(args', args.pos + SlotBytes + 8, TimeWords)
              /\ sizePosB' = IF inBundle > 0 THEN args.pos ELSE sizePosB
              /\ inBundle' = inBundle + 1
         /\ inBundle' \in 0 .. MaxDepth
         /\ sizePosB' \in (0 .. capacity) \cup {Null}
<1> DEFINE row == IF inBundle > 0 THEN << Offset(OuterSlot) >> ELSE << >>
           slotted == IF inBundle > 0 THEN Put(args, << Offset(OuterSlot) >>) ELSE args
           headed == Put(slotted, BundleWords)
           timed == Put(headed, TimeWords)
<1>1. /\ args' = timed
      /\ sizePosB' = IF inBundle > 0 /\ slotted.ok THEN args.pos ELSE sizePosB
      /\ inBundle' = IF slotted.ok THEN inBundle + 1 ELSE inBundle
      /\ inBundle < MaxDepth
      /\ args.ok = TRUE
  BY Sizes DEF OpenBundle, mayOpen
<1>2. /\ capacity \in Nat /\ IsStream(args)
      /\ args.pos \in Nat /\ args.pos <= capacity /\ args.pos % 4 = 0
  BY Sizes
<1>3. row \in Seq({"offset"} \X Int) /\ 4 * Len(row) = SlotBytes
  <2>1. CASE inBundle > 0
    <3> DEFINE word == << Offset(OuterSlot) >>
    <3>1. word \in Seq({"offset"} \X Int) /\ Len(word) = 1
      BY Sizes, OffsetRow
    <3>2. row = word
      BY <2>1
    <3> HIDE DEF row, word
    <3>3. SlotBytes = 4
      BY <2>1 DEF SlotBytes
    <3>4. Len(row) = 1 /\ 4 * 1 = 4
      BY ONLY <3>1, <3>2
    <3> QED
      BY ONLY <3>1, <3>2, <3>3, <3>4
  <2>2. CASE ~(inBundle > 0)
    <3>1. row = << >>
      BY <2>2
    <3> HIDE DEF row
    <3> QED
      BY <2>2, <3>1 DEF SlotBytes
  <2> QED
    BY <2>1, <2>2
<1>4. /\ Extends(args, slotted, {"offset"} \X Int)
      /\ Moves(args, slotted, SlotBytes)
      /\ slotted.ok = TRUE => Holds(slotted, args.pos, row)
  <2>1. CASE inBundle > 0
    <3>1. slotted = Put(args, row)
      BY <2>1
    <3> HIDE DEF row, slotted
    <3> QED
      BY <1>2, <1>3, <3>1, PutExtends
  <2>2. CASE ~(inBundle > 0)
    <3>1. slotted = args /\ SlotBytes = 0
      BY <2>2 DEF SlotBytes
    <3>2. Len(row) = 0
      BY <2>2
    <3> HIDE DEF slotted, row
    <3> QED
      BY <1>1, <1>2, <3>1, <3>2, ExtendsSelf DEF Moves, Holds
  <2> QED
    BY <2>1, <2>2
<1> HIDE DEF slotted, row
<1>5. IsStream(slotted)
  BY <1>4 DEF Extends
<1>6. /\ Extends(slotted, headed, {"#bundle"} \X Int)
      /\ Moves(slotted, headed, 4 * Len(BundleWords))
      /\ headed.ok = TRUE => Holds(headed, slotted.pos, BundleWords)
  BY <1>2, <1>5, FixedRows, PutExtends
<1> HIDE DEF headed
<1>7. IsStream(headed)
  BY <1>6 DEF Extends
<1>8. /\ Extends(headed, timed, {"time"} \X Int)
      /\ Moves(headed, timed, 4 * Len(TimeWords))
      /\ timed.ok = TRUE => Holds(timed, headed.pos, TimeWords)
  BY <1>2, <1>7, FixedRows, PutExtends
<1> HIDE DEF timed
<1>9. IsStream(timed)
  BY <1>8 DEF Extends
<1>10. Extends(slotted, timed, ({"#bundle"} \X Int) \cup ({"time"} \X Int))
  BY <1>2, <1>5, <1>6, <1>8, ExtendsChain
<1>11. Extends(args, timed, HeaderWords)
  BY <1>2, <1>4, <1>10, ExtendsChain DEF HeaderWords
<1>12. Moves(args, timed, SlotBytes + SizeBundle)
  <2>1. Moves(slotted, timed, 16)
    BY <1>2, <1>5, <1>6, <1>7, <1>8, <1>9, FixedRows, MovesChain
  <2>2. SlotBytes \in Nat /\ SizeBundle = 16
    BY DEF SlotBytes, SizeBundle
  <2> QED
    BY <1>2, <1>4, <1>5, <1>9, <2>1, <2>2, MovesChain
<1>13. timed.ok = TRUE => headed.ok = TRUE /\ slotted.ok = TRUE
  BY <1>6, <1>8 DEF Moves
<1>14. ASSUME timed.ok = TRUE
       PROVE  /\ inBundle > 0 => timed.data[args.pos \div 4] = Offset(OuterSlot)
              /\ Holds(timed, args.pos + SlotBytes, BundleWords)
              /\ Holds(timed, args.pos + SlotBytes + 8, TimeWords)
  <2>1. slotted.pos = args.pos + SlotBytes /\ headed.pos = slotted.pos + 8
    BY <1>4, <1>6, <1>13, <1>14, FixedRows DEF Moves
  <2>2. slotted.pos \in Nat /\ slotted.pos % 4 = 0
    BY <1>2, <1>5 DEF IsStream
  <2>3. Holds(headed, slotted.pos, BundleWords)
    BY <1>6, <1>13, <1>14
  <2>4. Holds(timed, slotted.pos, BundleWords)
    <3>1. slotted.pos + 4 * Len(BundleWords) <= headed.pos
      BY <2>1, <2>2, FixedRows
    <3>2. BundleWords \in Seq({"#bundle"} \X Int)
      BY FixedRows
    <3>3. Extends(headed, timed, {"time"} \X Int)
      BY <1>8
    <3> QED
      BY <1>2, <1>7, <2>2, <2>3, <3>1, <3>2, <3>3, StillHolds
  <2>5. Holds(slotted, args.pos, row)
    BY <1>4, <1>13, <1>14
  <2>6. Holds(timed, args.pos, row)
    BY <1>2, <1>3, <1>5, <1>10, <2>1, <2>5, StillHolds
  <2>7. ASSUME inBundle > 0
        PROVE  timed.data[args.pos \div 4] = Offset(OuterSlot)
    <3>1. row = << Offset(OuterSlot) >>
      BY <2>7 DEF row
    <3>2. Len(row) = 1 /\ row[1] = Offset(OuterSlot)
      BY <3>1
    <3>3. 1 \in 1 .. Len(row)
      BY <3>2
    <3>4. timed.data[args.pos \div 4 + 1 - 1] = row[1]
      BY <2>6, <3>3 DEF Holds
    <3> QED
      BY <1>2, <3>2, <3>4
  <2>8. Holds(timed, args.pos + SlotBytes + 8, TimeWords)
    BY <1>8, <1>14, <2>1
  <2> QED
    BY <2>1, <2>4, <2>7, <2>8
<1>15. /\ inBundle' \in 0 .. MaxDepth
       /\ sizePosB' \in (0 .. capacity) \cup {Null}
  BY <1>1, Sizes
<1>16. timed.ok = TRUE =>
         /\ sizePosB' = IF inBundle > 0 THEN args.pos ELSE sizePosB
         /\ inBundle' = inBundle + 1
  BY <1>1, <1>13
<1> QED
  BY <1>1, <1>11, <1>12, <1>14, <1>15, <1>16

-----------------------------------------------------------------------------
(* openMessage.                                                            *)
CommaWord == <<"chars", ",", NUL, NUL, NUL>>

(* The address of a message opened now, and its tags.                      *)
AddressAt == args.pos + SlotBytes
TagsAt(addr) == AddressAt + SizeString(addr)

(* The tags of a message that has no arguments yet.                        *)
HoldsNoTags(t, pos, bytes) ==
  \A k \in 1 .. (bytes \div 4) :
    t.data[pos \div 4 + k - 1] = IF k = 1 THEN CommaWord ELSE ZeroWord

(* Nothing but text and tags is new.                                       *)
NoNumbers(s, t) ==
  \A i \in 0 .. (capacity \div 4 - 1) :
    t.data[i] = s.data[i] \/ t.data[i] \in TextWords \/ TagWord(t.data[i])

LEMMA CommaTagWord ==
  /\ TagWord(CommaWord)
  /\ \A w : TagWord(w) /\ (\A k \in 1 .. 5 : w[k] = IF k = 2 THEN "," ELSE ZeroWord[k])
       => w = CommaWord
<1>1. TagWord(CommaWord)
  BY DEF TagWord, CommaWord, NUL
<1>2. \A k \in 1 .. 5 : CommaWord[k] = IF k = 2 THEN "," ELSE ZeroWord[k]
  <2>1. /\ CommaWord[1] = "chars" /\ CommaWord[2] = ","
        /\ CommaWord[3] = NUL /\ CommaWord[4] = NUL /\ CommaWord[5] = NUL
    BY DEF CommaWord
  <2>2. /\ ZeroWord[1] = "chars"
        /\ ZeroWord[3] = NUL /\ ZeroWord[4] = NUL /\ ZeroWord[5] = NUL
    BY DEF ZeroWord
  <2>3. \A k \in 1 .. 5 : k = 1 \/ k = 2 \/ k = 3 \/ k = 4 \/ k = 5
    OBVIOUS
  <2> QED
    BY <2>1, <2>2, <2>3
<1>3. ASSUME NEW w, TagWord(w), \A k \in 1 .. 5 : w[k] = IF k = 2 THEN "," ELSE ZeroWord[k]
      PROVE  w = CommaWord
  <2>1. \A k \in 1 .. 5 : w[k] = CommaWord[k]
    BY <1>2, <1>3
  <2>2. /\ w = [k \in 1 .. 5 |-> w[k]]
        /\ CommaWord = [k \in 1 .. 5 |-> CommaWord[k]]
    BY <1>1, <1>3 DEF TagWord
  <2> HIDE DEF CommaWord
  <2> QED
    BY <2>1, <2>2
<1> QED
  BY <1>1, <1>3

LEMMA OpenMessageWrites ==
  ASSUME PacketInv, NEW addr \in Addresses, NEW numTags \in TagCounts,
         OpenMessage(addr, numTags)
  PROVE  /\ IsStream(args') /\ SameBelow(args, args') /\ args.pos <= args'.pos
         /\ NoNumbers(args, args')
         /\ Moves(args, args', SlotBytes + SizeMessage(addr, numTags))
         /\ args'.ok = TRUE =>
              /\ Holds(args', AddressAt, StringWords(addr))
              /\ HoldsNoTags(args', TagsAt(addr), Align(numTags + 2))
              /\ tags' = [begin |-> TagsAt(addr), end |-> TagsAt(addr) + numTags + 2,
                          pos |-> TagsAt(addr) + 1]
         /\ tags' \in [begin : Nat, end : Nat, pos : Nat]
         /\ tags'.begin <= tags'.pos /\ tags'.pos <= tags'.end
<1> DEFINE slotted == IF inBundle > 0 THEN Skip(args) ELSE args
           named == Put(slotted, StringWords(addr))
           sigLen == numTags + 2
           signed == IF Fits(named, sigLen) THEN named ELSE Throw(named)
           zeroed == Put(signed, ZeroWords(Align(sigLen)))
<1>1. /\ args' = IF zeroed.ok THEN PutChar(zeroed, named.pos, ",") ELSE zeroed
      /\ tags' = IF ~signed.ok THEN tags
                 ELSE [begin |-> named.pos, end |-> named.pos + sigLen,
                       pos |-> IF zeroed.ok THEN named.pos + 1 ELSE named.pos]
      /\ args.ok = TRUE
  BY Sizes DEF OpenMessage, mayOpen
<1>2. /\ capacity \in Nat /\ IsStream(args)
      /\ args.pos \in Nat /\ args.pos <= capacity /\ args.pos % 4 = 0
  BY Sizes
<1>3. addr \in Strings /\ numTags \in Nat
  BY CallerAssumption
<1>4. /\ SizeString(addr) \in Nat /\ SizeString(addr) % 4 = 0 /\ SizeString(addr) >= 4
      /\ StringWords(addr) \in Seq(TextWords)
      /\ 4 * Len(StringWords(addr)) = SizeString(addr)
  BY <1>3, StringRow
<1>5. sigLen \in Nat /\ Align(sigLen) \in Nat /\ Align(sigLen) % 4 = 0 /\ sigLen <= Align(sigLen)
  <2>1. sigLen \in Nat
    BY <1>3
  <2> HIDE DEF sigLen
  <2> QED
    BY <2>1, AlignProperties
<1>6. /\ ZeroWords(Align(sigLen)) \in Seq({ZeroWord})
      /\ 4 * Len(ZeroWords(Align(sigLen))) = Align(sigLen)
      /\ \A k \in 1 .. Len(ZeroWords(Align(sigLen))) :
           ZeroWords(Align(sigLen))[k] = ZeroWord
  BY <1>5, ZeroRow
<1>7. SlotBytes \in {0, 4}
  BY DEF SlotBytes
<1>8. Extends(args, slotted, {}) /\ Moves(args, slotted, SlotBytes)
  <2>1. CASE inBundle > 0
    <3>1. slotted = Skip(args) /\ SlotBytes = 4
      BY <2>1 DEF SlotBytes
    <3> HIDE DEF slotted
    <3> QED
      BY <1>2, <3>1, SkipExtends
  <2>2. CASE ~(inBundle > 0)
    <3>1. slotted = args /\ SlotBytes = 0
      BY <2>2 DEF SlotBytes
    <3> HIDE DEF slotted
    <3>2. Extends(args, args, {})
      BY <1>2, ExtendsSelf
    <3>3. Moves(args, args, 0)
      <4>1. args.pos + 0 = args.pos /\ args.pos <= capacity
        BY <1>2
      <4>2. args.ok = TRUE
        BY <1>1, Zenon
      <4> QED
        BY <4>1, <4>2 DEF Moves
    <3> QED
      BY <3>1, <3>2, <3>3
  <2> QED
    BY <2>1, <2>2
<1> HIDE DEF slotted, sigLen
<1>9. IsStream(slotted)
  BY <1>8 DEF Extends
<1>10. /\ Extends(slotted, named, TextWords)
       /\ Moves(slotted, named, 4 * Len(StringWords(addr)))
       /\ named.ok = TRUE => Holds(named, slotted.pos, StringWords(addr))
  BY <1>2, <1>4, <1>9, PutExtends
<1> HIDE DEF named
<1>11. IsStream(named) /\ named.pos \in Nat /\ named.pos % 4 = 0 /\ named.ok \in BOOLEAN
  BY <1>10 DEF Extends, IsStream
<1>12. /\ IsStream(signed)
       /\ signed.pos = named.pos
       /\ signed.data = named.data
       /\ signed.ok = TRUE <=> named.ok = TRUE /\ named.pos + sigLen <= capacity
  <2>1. CASE Fits(named, sigLen)
    <3>1. named.ok = TRUE /\ named.pos + sigLen <= capacity
      BY <1>2, <1>5, <1>11, <2>1 DEF Fits
    <3>2. signed = named
      BY <2>1
    <3> HIDE DEF signed
    <3> QED
      BY <1>11, <3>1, <3>2
  <2>2. CASE ~Fits(named, sigLen)
    <3>1. ~(named.ok = TRUE /\ named.pos + sigLen <= capacity)
      BY <1>2, <1>5, <1>11, <2>2 DEF Fits
    <3>2. signed = Throw(named)
      BY <2>2
    <3> HIDE DEF signed
    <3> QED
      BY <1>11, <3>1, <3>2, ThrowKeeps
  <2> QED
    BY <2>1, <2>2
<1> HIDE DEF signed
<1>13. /\ Extends(signed, zeroed, {ZeroWord})
       /\ Moves(signed, zeroed, 4 * Len(ZeroWords(Align(sigLen))))
       /\ zeroed.ok = TRUE => Holds(zeroed, signed.pos, ZeroWords(Align(sigLen)))
  BY <1>2, <1>6, <1>12, PutExtends
<1> HIDE DEF zeroed
<1>14. IsStream(zeroed) /\ zeroed.ok \in BOOLEAN /\ zeroed.pos \in Nat
  BY <1>13 DEF Extends, IsStream
<1>15. Extends(named, zeroed, {ZeroWord}) /\ Moves(named, zeroed, Align(sigLen))
  BY <1>2, <1>5, <1>6, <1>11, <1>12, <1>13 DEF Extends, SameBelow, Moves
<1>16. Extends(args, zeroed, {} \cup (TextWords \cup {ZeroWord}))
  <2>1. Extends(slotted, zeroed, TextWords \cup {ZeroWord})
    BY <1>2, <1>9, <1>10, <1>15, ExtendsChain
  <2> QED
    BY <1>2, <1>8, <2>1, ExtendsChain
<1>17. Moves(args, zeroed, SlotBytes + SizeMessage(addr, numTags))
  <2>1. Moves(slotted, zeroed, SizeString(addr) + Align(sigLen))
    BY <1>2, <1>4, <1>5, <1>9, <1>10, <1>11, <1>14, <1>15, MovesChain
  <2>2. SizeString(addr) + Align(sigLen) \in Nat /\ SlotBytes \in Nat
    BY <1>4, <1>5, <1>7
  <2>3. Moves(args, zeroed, SlotBytes + (SizeString(addr) + Align(sigLen)))
    BY <1>2, <1>8, <1>9, <1>14, <2>1, <2>2, MovesChain
  <2> QED
    BY <2>3 DEF SizeMessage, sigLen
<1>18. tags \in [begin : Nat, end : Nat, pos : Nat]
       /\ tags.begin <= tags.pos /\ tags.pos <= tags.end
  BY DEF PacketInv, Types, TypeOK
<1>19. /\ tags' \in [begin : Nat, end : Nat, pos : Nat]
       /\ tags'.begin <= tags'.pos /\ tags'.pos <= tags'.end
  <2>1. CASE signed.ok
    <3> DEFINE p == IF zeroed.ok THEN named.pos + 1 ELSE named.pos
    <3>1. p \in Nat /\ named.pos <= p /\ p <= named.pos + sigLen
      BY <1>3, <1>11 DEF sigLen
    <3>2. tags' = [begin |-> named.pos, end |-> named.pos + sigLen, pos |-> p]
      BY <1>1, <2>1
    <3> HIDE DEF p
    <3> QED
      BY <1>5, <1>11, <3>1, <3>2
  <2>2. CASE ~signed.ok
    <3>1. tags' = tags
      BY <1>1, <2>2
    <3> QED
      BY <1>18, <3>1
  <2> QED
    BY <2>1, <2>2
<1>20. CASE zeroed.ok = FALSE
  <2>1. args' = zeroed
    BY <1>1, <1>20
  <2>2. TagWord(ZeroWord)
    BY ZeroTagWord
  <2>3. NoNumbers(args, zeroed)
    BY <1>16, <2>2 DEF Extends, NoNumbers
  <2>4. args.pos <= zeroed.pos /\ SameBelow(args, zeroed)
    BY <1>16 DEF Extends
  <2>5. args'.ok # TRUE
    BY <1>20, <2>1
  <2> QED
    BY <1>14, <1>17, <1>19, <2>1, <2>3, <2>4, <2>5
<1>21. CASE zeroed.ok = TRUE
  <2>1. signed.ok = TRUE /\ named.ok = TRUE /\ slotted.ok = TRUE
    BY <1>10, <1>12, <1>13, <1>21 DEF Moves
  <2>2. /\ slotted.pos = AddressAt
        /\ named.pos = TagsAt(addr)
        /\ zeroed.pos = TagsAt(addr) + Align(sigLen)
        /\ args.pos <= AddressAt /\ AddressAt % 4 = 0 /\ AddressAt \in Nat
        /\ zeroed.pos <= capacity
    BY <1>2, <1>4, <1>7, <1>8, <1>9, <1>10, <1>14, <1>15, <1>21, <2>1
       DEF Moves, AddressAt, TagsAt, IsStream
  <2>3. tags' = [begin |-> TagsAt(addr), end |-> TagsAt(addr) + numTags + 2,
                 pos |-> TagsAt(addr) + 1]
    <3>1. tags' = [begin |-> named.pos, end |-> named.pos + sigLen, pos |-> named.pos + 1]
      BY <1>1, <1>21, <2>1
    <3>2. TagsAt(addr) + sigLen = TagsAt(addr) + numTags + 2
      BY <1>3, <1>11, <2>2 DEF sigLen
    <3> QED
      BY <2>2, <3>1, <3>2
  <2> DEFINE at == TagsAt(addr)
             row == ZeroWords(Align(sigLen))
  <2>4. at \in Nat /\ at % 4 = 0 /\ at + 4 <= zeroed.pos /\ sigLen >= 2
    BY <1>3, <1>5, <1>11, <2>2 DEF sigLen
  <2>5. Holds(zeroed, at, row)
    BY <1>12, <1>13, <1>21, <2>2
  <2>6. Len(row) \in Nat /\ Len(row) = Align(sigLen) \div 4 /\ Len(row) >= 1
    BY <1>5, <1>6, <2>2, <2>4
  <2>7. \A k \in 1 .. Len(row) : zeroed.data[at \div 4 + k - 1] = ZeroWord
    BY <1>6, <2>5 DEF Holds
  <2> HIDE DEF row, at
  <2>8. zeroed.data[at \div 4] = ZeroWord
    <3>1. 1 \in 1 .. Len(row) /\ at \div 4 + 1 - 1 = at \div 4
      BY <2>4, <2>6
    <3> QED
      BY <2>7, <3>1
  <2>9. at < capacity /\ at \div 4 < capacity \div 4 /\ at % 4 = 0
    BY <1>2, <1>14, <2>2, <2>4
  <2>10. TagWord(zeroed.data[at \div 4])
    BY <2>8, ZeroTagWord
  <2> DEFINE t == PutChar(zeroed, at, ",")
  <2>11. WroteChar(zeroed, at, ",", t)
    BY <1>2, <1>14, <2>4, <2>9, <2>10, PutCharFits
  <2>12. args' = t
    BY <1>1, <1>21, <2>2 DEF at
  <2> HIDE DEF t
  <2>13. t.data[at \div 4] = CommaWord
    <3>1. TagWord(t.data[at \div 4])
      BY <2>11 DEF WroteChar
    <3>2. 2 + (at % 4) = 2
      BY <2>9
    <3>3. \A k \in 1 .. 5 : t.data[at \div 4][k]
                            = IF k = 2 + (at % 4) THEN "," ELSE zeroed.data[at \div 4][k]
      BY <2>11 DEF WroteChar
    <3>4. \A k \in 1 .. 5 : t.data[at \div 4][k] = IF k = 2 THEN "," ELSE ZeroWord[k]
      BY <2>8, <3>2, <3>3, Zenon
    <3> QED
      BY <3>1, <3>4, CommaTagWord
  <2>14. \A i \in 0 .. (at \div 4 - 1) : t.data[i] = zeroed.data[i]
    <3> TAKE i \in 0 .. (at \div 4 - 1)
    <3>1. i \in 0 .. (capacity \div 4 - 1) /\ i # at \div 4
      BY <1>2, <2>4, <2>9
    <3> QED
      BY <2>11, <3>1 DEF WroteChar
  <2>15. SameBelow(args, t)
    <3>1. SameBelow(args, zeroed)
      BY <1>16 DEF Extends
    <3>2. args.pos <= at
      BY <1>2, <1>4, <2>2 DEF at, TagsAt
    <3>3. args.pos \div 4 <= at \div 4
      BY <1>2, <2>4, <3>2
    <3> QED
      BY <1>2, <2>4, <2>14, <3>1, <3>3 DEF SameBelow
  <2>16. Holds(t, AddressAt, StringWords(addr))
    <3>1. Holds(named, AddressAt, StringWords(addr))
      BY <1>10, <2>1, <2>2
    <3>2. AddressAt + 4 * Len(StringWords(addr)) <= named.pos
      BY <1>4, <2>2 DEF TagsAt
    <3>3. Holds(zeroed, AddressAt, StringWords(addr))
      BY <1>2, <1>4, <1>11, <1>15, <2>2, <3>1, <3>2, StillHolds
    <3>4. \A k \in 1 .. Len(StringWords(addr)) :
            AddressAt \div 4 + k - 1 \in 0 .. (at \div 4 - 1)
      <4>1. AddressAt + 4 * Len(StringWords(addr)) <= at /\ Len(StringWords(addr)) \in Nat
        BY <1>4, <2>2, <3>2, <2>4 DEF at
      <4>2. AddressAt \in Nat /\ AddressAt % 4 = 0 /\ at \in Nat /\ at % 4 = 0
        BY <2>2, <2>4
      <4> HIDE DEF at
      <4> QED
        BY <4>1, <4>2, RowInside
    <3> QED
      BY <2>14, <3>3, <3>4 DEF Holds
  <2>17. HoldsNoTags(t, at, Align(sigLen))
    <3> SUFFICES ASSUME NEW k \in 1 .. Len(row)
                 PROVE  t.data[at \div 4 + k - 1] = IF k = 1 THEN CommaWord ELSE ZeroWord
      BY <2>6 DEF HoldsNoTags
    <3>1. CASE k = 1
      <4>1. at \div 4 + k - 1 = at \div 4
        BY <2>4, <3>1
      <4> QED
        BY <2>13, <3>1, <4>1
    <3>2. CASE k # 1
      <4>1. at + 4 * Len(row) <= capacity
        BY <1>6, <2>2 DEF at, row
      <4>2. at \div 4 + k - 1 \in 0 .. (capacity \div 4 - 1) /\ at \div 4 + k - 1 # at \div 4
        BY <1>2, <2>4, <2>6, <3>2, <4>1
      <4> QED
        BY <2>7, <2>11, <3>2, <4>2 DEF WroteChar
    <3> QED
      BY <3>1, <3>2
  <2>18. NoNumbers(args, t)
    <3> SUFFICES ASSUME NEW i \in 0 .. (capacity \div 4 - 1)
                 PROVE  t.data[i] = args.data[i] \/ t.data[i] \in TextWords \/ TagWord(t.data[i])
      BY DEF NoNumbers
    <3>1. CASE i = at \div 4
      BY <2>11, <3>1 DEF WroteChar
    <3>2. CASE i # at \div 4
      <4>1. t.data[i] = zeroed.data[i]
        BY <2>11, <3>2 DEF WroteChar
      <4> QED
        BY <1>16, <4>1, ZeroTagWord DEF Extends
    <3> QED
      BY <3>1, <3>2
  <2>19. Moves(args, t, SlotBytes + SizeMessage(addr, numTags))
    BY <1>17, <2>11 DEF Moves, WroteChar
  <2>20. args.pos <= t.pos
    BY <1>16, <2>11 DEF Extends, WroteChar
  <2> QED
    BY <1>19, <2>3, <2>11, <2>12, <2>15, <2>16, <2>17, <2>18, <2>19, <2>20 DEF at, sigLen, WroteChar
<1> QED
  BY <1>14, <1>20, <1>21

-----------------------------------------------------------------------------
(* An argument.                                                            *)
Room == tags.pos < tags.end
ArgBytes(arg) == 4 * (Len(arg.head) + Len(arg.data))
NewNumbers == IF aligned = TRUE THEN NumberWords ELSE {}

LEMMA ArgParts ==
  ASSUME NEW arg \in Args
  PROVE  /\ arg.head \in Seq(NumberWords) /\ arg.data \in Seq(TextWords)
         /\ Len(arg.head) \in Nat /\ Len(arg.data) \in Nat
         /\ ArgBytes(arg) \in Nat
         /\ aligned = TRUE \/ arg.head = << >> => arg.head \in Seq(NewNumbers)
<1>1. arg.head \in Seq(NumberWords) /\ arg.data \in Seq(TextWords)
  BY CallerAssumption
<1>2. Len(arg.head) \in Nat /\ Len(arg.data) \in Nat
  BY <1>1
<1>3. aligned = TRUE => arg.head \in Seq(NewNumbers)
  BY <1>1 DEF NewNumbers
<1>4. arg.head = << >> => arg.head \in Seq(NewNumbers)
  OBVIOUS
<1>5. ArgBytes(arg) \in Nat
  <2>1. \A h, d \in Nat : 4 * (h + d) \in Nat
    OBVIOUS
  <2> QED
    BY <1>2, <2>1 DEF ArgBytes
<1> QED
  BY <1>1, <1>2, <1>3, <1>4, <1>5

(* Where the next tag goes: into a word of the tag area.                   *)
LEMMA TagPlace ==
  ASSUME PacketInv, args.ok = TRUE, messageOpen
  PROVE  /\ tags.begin \in Nat /\ tags.end \in Nat /\ tags.pos \in Nat
         /\ tags.begin % 4 = 0 /\ tags.begin < tags.pos
         /\ tags.pos < tags.begin + Align(Innermost.numTags + 2) \/ ~Room
         /\ Room => /\ tags.pos < args.pos
                    /\ tags.pos < capacity
                    /\ tags.pos \div 4 < capacity \div 4
                    /\ tags.begin <= 4 * (tags.pos \div 4)
                    /\ TagWord(args.data[tags.pos \div 4])
<1>1. TagArea /\ OpenNest
  BY DEF PacketInv, Places
<1>2. tags.begin \in Nat /\ tags.end \in Nat /\ tags.pos \in Nat
  BY DEF PacketInv, Types
<1>3. Innermost \in Element /\ Len(Innermost.put) \in Nat /\ Innermost.numTags \in Nat
  <2>1. open # << >> /\ open \in Seq(Element)
    BY <1>1 DEF messageOpen, OpenNest
  <2>2. Len(open) \in 1 .. Len(open)
    BY <2>1
  <2>3. Innermost \in Element
    BY <2>1, <2>2 DEF Innermost
  <2> QED
    BY <2>3 DEF Element
<1>4. /\ tags.begin % 4 = 0
      /\ tags.end = tags.begin + Innermost.numTags + 2
      /\ tags.pos = tags.begin + 1 + Len(Innermost.put)
      /\ tags.begin + Align(Innermost.numTags + 2) <= args.pos
  BY <1>1 DEF TagArea
<1>5. Innermost.numTags + 2 <= Align(Innermost.numTags + 2)
      /\ Align(Innermost.numTags + 2) \in Nat
  BY <1>3, TagBytes
<1>6. tags.begin < tags.pos
  BY <1>2, <1>3, <1>4
<1>7. ASSUME Room
      PROVE  /\ tags.pos < tags.begin + Align(Innermost.numTags + 2)
             /\ tags.pos < args.pos
             /\ tags.pos < capacity
             /\ tags.pos \div 4 < capacity \div 4
             /\ tags.begin <= 4 * (tags.pos \div 4)
             /\ TagWord(args.data[tags.pos \div 4])
  <2>1. tags.pos < tags.begin + Align(Innermost.numTags + 2)
    <3>1. tags.begin + Innermost.numTags + 2 <= tags.begin + Align(Innermost.numTags + 2)
      <4>1. \A b, m, a \in Nat : m + 2 <= a => b + m + 2 <= b + a
        OBVIOUS
      <4> QED
        BY <1>2, <1>3, <1>5, <4>1
    <3>2. tags.pos < tags.begin + Innermost.numTags + 2
      BY <1>4, <1>7 DEF Room
    <3>3. tags.begin + Innermost.numTags + 2 \in Nat
          /\ tags.begin + Align(Innermost.numTags + 2) \in Nat
      BY <1>2, <1>3, <1>5
    <3>4. \A x, y, z \in Nat : x < y /\ y <= z => x < z
      OBVIOUS
    <3> QED
      BY <1>2, <3>1, <3>2, <3>3, <3>4
  <2>2. tags.pos < args.pos /\ args.pos \in Nat /\ args.pos <= capacity /\ args.pos % 4 = 0
        /\ capacity \in Nat
    <3>1. /\ args.pos \in Nat /\ args.pos <= capacity /\ args.pos % 4 = 0
          /\ capacity \in Nat
      BY Sizes
    <3>2. \A x, y, p \in Nat : x < y /\ y <= p => x < p
      OBVIOUS
    <3>3. /\ tags.pos \in Nat /\ tags.begin + Align(Innermost.numTags + 2) \in Nat
          /\ tags.begin + Align(Innermost.numTags + 2) <= args.pos
      BY <1>2, <1>4, <1>5
    <3> QED
      BY ONLY <2>1, <3>1, <3>2, <3>3
  <2>3. tags.pos < capacity
    BY <1>2, <2>2
  <2>4. tags.pos \div 4 < capacity \div 4
    BY <1>2, <2>2
  <2>5. tags.begin <= 4 * (tags.pos \div 4)
    <3>1. tags.begin % 4 = 0
      BY <1>4
    <3> QED
      BY <1>2, <1>6, <3>1, WordBelow
  <2>6. 4 * (tags.pos \div 4) <= tags.pos /\ tags.pos \div 4 \in Nat
    BY <1>2
  <2>7. TagWord(args.data[tags.pos \div 4])
    <3>1. tags.pos \div 4 \in 0 .. (capacity \div 4 - 1)
      BY <2>2, <2>4, <2>6
    <3>2. 4 * (tags.pos \div 4) < tags.begin + Align(Innermost.numTags + 2)
      BY <1>2, <1>5, <2>1, <2>6
    <3> QED
      BY <1>1, <2>5, <3>1, <3>2 DEF TagArea
  <2> QED
    BY <2>1, <2>2, <2>3, <2>4, <2>5, <2>7
<1> QED
  BY <1>2, <1>4, <1>6, <1>7

(* Below the position a single word has changed, that of the tag.          *)
KeptButTag(s, t) ==
  \A i \in 0 .. (s.pos \div 4 - 1) :
    i # tags.pos \div 4 => t.data[i] = s.data[i]

NewWords(s, t) ==
  \A i \in 0 .. (capacity \div 4 - 1) :
    \/ t.data[i] = s.data[i]
    \/ TagWord(t.data[i])
    \/ t.data[i] \in TextWords
    \/ t.data[i] \in NewNumbers

LEMMA TaggedWrites ==
  ASSUME PacketInv, args.ok = TRUE, messageOpen, NEW c
  PROVE  /\ IsStream(Tagged(c))
         /\ Tagged(c).pos = args.pos
         /\ Tagged(c).ok = TRUE <=> Room
         /\ Room => WroteChar(args, tags.pos, c, Tagged(c))
         /\ ~Room => Tagged(c).data = args.data
<1>1. capacity \in Nat /\ IsStream(args)
  BY Sizes
<1>2. CASE Room
  <2>1. Tagged(c) = PutChar(args, tags.pos, c)
    BY <1>2 DEF Tagged, Room
  <2>2. /\ tags.pos \in Nat /\ tags.pos < capacity
        /\ tags.pos \div 4 < capacity \div 4 /\ TagWord(args.data[tags.pos \div 4])
    BY <1>2, TagPlace
  <2>3. WroteChar(args, tags.pos, c, Tagged(c))
    BY <1>1, <2>1, <2>2, PutCharFits
  <2> QED
    BY <1>2, <2>3 DEF WroteChar
<1>3. CASE ~Room
  <2>1. Tagged(c) = Throw(args)
    BY <1>3 DEF Tagged, Room
  <2> QED
    BY <1>1, <1>3, <2>1, ThrowKeeps
<1> QED
  BY <1>2, <1>3

LEMMA NumberWrites ==
  ASSUME capacity \in Nat, NEW s, IsStream(s), NEW arg \in Args, aligned \in BOOLEAN
  PROVE  /\ Extends(s, PutNumber(s, arg.head), NewNumbers)
         /\ PutNumber(s, arg.head).ok = TRUE
              <=> /\ s.ok = TRUE
                  /\ aligned = TRUE \/ arg.head = << >>
                  /\ s.pos + 4 * Len(arg.head) <= capacity
         /\ PutNumber(s, arg.head).ok = TRUE
              => /\ PutNumber(s, arg.head).pos = s.pos + 4 * Len(arg.head)
                 /\ Holds(PutNumber(s, arg.head), s.pos, arg.head)
<1>1. CASE aligned = TRUE \/ arg.head = << >>
  <2>1. PutNumber(s, arg.head) = Put(s, arg.head)
    BY <1>1 DEF PutNumber
  <2>2. arg.head \in Seq(NewNumbers)
    BY <1>1, ArgParts
  <2>3. /\ Extends(s, Put(s, arg.head), NewNumbers)
        /\ Moves(s, Put(s, arg.head), 4 * Len(arg.head))
        /\ Put(s, arg.head).ok = TRUE => Holds(Put(s, arg.head), s.pos, arg.head)
    BY <2>2, PutExtends
  <2> QED
    BY <1>1, <2>1, <2>3 DEF Moves
<1>2. CASE ~(aligned = TRUE \/ arg.head = << >>)
  <2>1. PutNumber(s, arg.head) = Throw(s)
    BY <1>2 DEF PutNumber
  <2>2. /\ IsStream(Throw(s))
        /\ Throw(s).ok = FALSE
        /\ Throw(s).pos = s.pos
        /\ Throw(s).data = s.data
    BY ThrowKeeps
  <2>3. Extends(s, Throw(s), NewNumbers)
    BY <2>2 DEF Extends, SameBelow, IsStream
  <2> QED
    BY <1>2, <2>1, <2>2, <2>3
<1> QED
  BY <1>1, <1>2

LEMMA PutArgWrites ==
  ASSUME PacketInv, NEW arg \in Args, PutArg(arg)
  PROVE  /\ IsStream(args') /\ args.pos <= args'.pos
         /\ KeptButTag(args, args') /\ NewWords(args, args')
         /\ args'.ok = TRUE
              <=> /\ Room
                  /\ aligned = TRUE \/ arg.head = << >>
                  /\ args.pos + ArgBytes(arg) <= capacity
         /\ args'.ok = TRUE =>
              /\ args'.pos = args.pos + ArgBytes(arg)
              /\ WroteChar(args, tags.pos, arg.tag, Tagged(arg.tag))
              /\ \A i \in 0 .. (args.pos \div 4 - 1) : args'.data[i] = Tagged(arg.tag).data[i]
              /\ Holds(args', args.pos, arg.head)
              /\ Holds(args', args.pos + 4 * Len(arg.head), arg.data)
         /\ \A i \in 0 .. (args.pos \div 4 - 1) :
              TagWord(args.data[i]) => TagWord(args'.data[i])
<1> DEFINE tagged == Tagged(arg.tag)
           numbered == PutNumber(tagged, arg.head)
           t == Put(numbered, arg.data)
<1>1. args' = t /\ args.ok = TRUE /\ messageOpen
  <2>1. args' = t
    BY DEF PutArg
  <2>2. args.ok = TRUE
    BY Sizes DEF PutArg
  <2>3. messageOpen
    BY DEF PutArg
  <2> QED
    BY <2>1, <2>2, <2>3, Zenon
<1>2. /\ capacity \in Nat /\ IsStream(args)
      /\ args.pos \in Nat /\ args.pos <= capacity /\ args.pos % 4 = 0
  BY Sizes
<1>3. /\ IsStream(tagged)
      /\ tagged.pos = args.pos
      /\ tagged.ok = TRUE <=> Room
      /\ Room => WroteChar(args, tags.pos, arg.tag, tagged)
      /\ ~Room => tagged.data = args.data
  BY <1>1, TaggedWrites
<1>4. aligned \in BOOLEAN
  BY CallerAssumption DEF PacketInv, Types, TypeOK
<1> HIDE DEF tagged
<1>5. /\ Extends(tagged, numbered, NewNumbers)
      /\ numbered.ok = TRUE
           <=> /\ tagged.ok = TRUE
               /\ aligned = TRUE \/ arg.head = << >>
               /\ tagged.pos + 4 * Len(arg.head) <= capacity
      /\ numbered.ok = TRUE
           => /\ numbered.pos = tagged.pos + 4 * Len(arg.head)
              /\ Holds(numbered, tagged.pos, arg.head)
  BY <1>2, <1>3, <1>4, NumberWrites
<1> HIDE DEF numbered
<1>6. IsStream(numbered)
  BY <1>5 DEF Extends
<1>7. /\ arg.head \in Seq(NumberWords) /\ arg.data \in Seq(TextWords)
      /\ Len(arg.head) \in Nat /\ Len(arg.data) \in Nat
  BY ArgParts
<1>8. /\ Extends(numbered, t, TextWords)
      /\ Moves(numbered, t, 4 * Len(arg.data))
      /\ t.ok = TRUE => Holds(t, numbered.pos, arg.data)
  BY <1>2, <1>6, <1>7, PutExtends
<1> HIDE DEF t
<1>9. Extends(tagged, t, NewNumbers \cup TextWords)
  BY <1>2, <1>3, <1>5, <1>8, ExtendsChain
<1>10. IsStream(t) /\ args.pos <= t.pos
  BY <1>3, <1>9 DEF Extends
<1>11. \A i \in 0 .. (args.pos \div 4 - 1) : t.data[i] = tagged.data[i]
  BY <1>3, <1>9 DEF Extends, SameBelow
<1>12. \A i \in 0 .. (args.pos \div 4 - 1) : i \in 0 .. (capacity \div 4 - 1)
  BY <1>2
<1>13. \A i \in 0 .. (capacity \div 4 - 1) :
         i # tags.pos \div 4 => tagged.data[i] = args.data[i]
  BY <1>3 DEF WroteChar
<1>14. \A i \in 0 .. (capacity \div 4 - 1) :
         tagged.data[i] = args.data[i] \/ TagWord(tagged.data[i])
  <2> TAKE i \in 0 .. (capacity \div 4 - 1)
  <2>1. CASE ~Room
    BY <1>3, <2>1
  <2>2. CASE Room /\ i = tags.pos \div 4
    BY <1>3, <2>2 DEF WroteChar
  <2>3. CASE i # tags.pos \div 4
    BY <1>13, <2>3
  <2> QED
    BY <2>1, <2>2, <2>3
<1>15. KeptButTag(args, t)
  BY <1>11, <1>12, <1>13 DEF KeptButTag
<1>16. NewWords(args, t)
  <2> SUFFICES ASSUME NEW i \in 0 .. (capacity \div 4 - 1)
               PROVE  \/ t.data[i] = args.data[i]
                      \/ TagWord(t.data[i])
                      \/ t.data[i] \in TextWords
                      \/ t.data[i] \in NewNumbers
    BY DEF NewWords
  <2>1. t.data[i] = tagged.data[i] \/ t.data[i] \in NewNumbers \cup TextWords
    BY <1>9 DEF Extends
  <2> QED
    BY <1>14, <2>1
<1>17. \A i \in 0 .. (args.pos \div 4 - 1) :
         TagWord(args.data[i]) => TagWord(t.data[i])
  <2> TAKE i \in 0 .. (args.pos \div 4 - 1)
  <2>1. t.data[i] = tagged.data[i] /\ i \in 0 .. (capacity \div 4 - 1)
    BY <1>11, <1>12
  <2> QED
    BY <1>14, <2>1
<1>18. args.pos + ArgBytes(arg) = (args.pos + 4 * Len(arg.head)) + 4 * Len(arg.data)
  <2> DEFINE h == Len(arg.head)
             d == Len(arg.data)
  <2>1. h \in Nat /\ d \in Nat /\ args.pos \in Nat
    BY <1>2, <1>7
  <2>2. ArgBytes(arg) = 4 * (h + d)
    BY DEF ArgBytes
  <2> HIDE DEF h, d
  <2>3. args.pos + 4 * (h + d) = (args.pos + 4 * h) + 4 * d
    BY <2>1
  <2> QED
    BY <2>2, <2>3 DEF h, d
<1>19. t.ok = TRUE
         <=> /\ Room
             /\ aligned = TRUE \/ arg.head = << >>
             /\ args.pos + ArgBytes(arg) <= capacity
  <2>1. ASSUME t.ok = TRUE
        PROVE  /\ Room
               /\ aligned = TRUE \/ arg.head = << >>
               /\ args.pos + ArgBytes(arg) <= capacity
    <3>1. numbered.ok = TRUE /\ numbered.pos + 4 * Len(arg.data) <= capacity
      BY <1>8, <2>1 DEF Moves
    <3> QED
      BY <1>3, <1>5, <1>18, <3>1
  <2>2. ASSUME Room, aligned = TRUE \/ arg.head = << >>, args.pos + ArgBytes(arg) <= capacity
        PROVE  t.ok = TRUE
    <3>1. args.pos + 4 * Len(arg.head) <= capacity
      BY ONLY <1>2, <1>7, <1>18, <2>2
    <3>2. numbered.ok = TRUE /\ numbered.pos = args.pos + 4 * Len(arg.head)
      BY <1>3, <1>5, <2>2, <3>1
    <3> QED
      BY <1>8, <1>18, <2>2, <3>2 DEF Moves
  <2> QED
    BY <2>1, <2>2
<1>20. ASSUME t.ok = TRUE
       PROVE  /\ t.pos = args.pos + ArgBytes(arg)
              /\ WroteChar(args, tags.pos, arg.tag, tagged)
              /\ Holds(t, args.pos, arg.head)
              /\ Holds(t, args.pos + 4 * Len(arg.head), arg.data)
  <2>1. numbered.ok = TRUE /\ t.pos = numbered.pos + 4 * Len(arg.data)
    BY <1>8, <1>20 DEF Moves
  <2>2. numbered.pos = args.pos + 4 * Len(arg.head) /\ Holds(numbered, args.pos, arg.head)
    BY <1>3, <1>5, <2>1
  <2>3. Holds(t, args.pos, arg.head)
    <3>1. args.pos + 4 * Len(arg.head) <= numbered.pos
      BY <1>2, <1>7, <2>2
    <3> QED
      BY <1>2, <1>6, <1>7, <1>8, <2>2, <3>1, StillHolds
  <2>4. WroteChar(args, tags.pos, arg.tag, tagged)
    BY <1>3, <1>19, <1>20
  <2> QED
    BY <1>8, <1>18, <1>20, <2>1, <2>2, <2>3, <2>4
<1> QED
  BY <1>1, <1>10, <1>11, <1>15, <1>16, <1>17, <1>19, <1>20 DEF tagged

-----------------------------------------------------------------------------
(* What is closed lies below the position, its slot with it.               *)
LEMMA ClosedSlots ==
  ASSUME PacketInv, args.ok = TRUE, NEW e \in closed
  PROVE  /\ e \in Element
         /\ e.first \in Nat /\ e.last \in Nat
         /\ e.first + 8 <= e.last /\ e.last <= args.pos
         /\ e.slot # Null => /\ e.slot \in Nat /\ e.slot % 4 = 0
                             /\ e.first = e.slot + 4
                             /\ e.slot \div 4 \in 0 .. (args.pos \div 4 - 1)
         /\ e.slot = Null => open = << >>
<1>1. /\ e \in Element
      /\ e.last \in Nat
      /\ e.first % 4 = 0
      /\ e.slot # Null => e.first = e.slot + 4
      /\ e.slot = Null => open = << >>
      /\ e.first + 8 <= e.last
      /\ e.last <= args.pos
  BY DEF PacketInv, Places, ClosedPlaces
<1>2. e.first \in Nat /\ e.slot \in Nat \cup {Null}
  BY <1>1 DEF Element
<1>3. args.pos \in Nat
  BY Sizes
<1>4. ASSUME e.slot # Null
      PROVE  e.slot \in Nat /\ e.slot % 4 = 0 /\ e.slot \div 4 \in 0 .. (args.pos \div 4 - 1)
  <2>1. e.slot \in Nat /\ args.pos \in Nat
    BY <1>2, <1>3, <1>4
  <2>2. (e.slot + 4) % 4 = 0 /\ e.slot + 12 <= args.pos
    <3>1. e.first = e.slot + 4 /\ e.last \in Nat /\ e.first + 8 <= e.last /\ e.last <= args.pos
          /\ e.first % 4 = 0
      BY <1>1, <1>4
    <3> QED
      BY ONLY <2>1, <3>1
  <2>3. \A x, p \in Nat : (x + 4) % 4 = 0 /\ x + 12 <= p =>
                            x % 4 = 0 /\ x \div 4 \in 0 .. (p \div 4 - 1)
    OBVIOUS
  <2> QED
    BY ONLY <2>1, <2>2, <2>3
<1> QED
  BY <1>1, <1>2, <1>4

LEMMA AppendIndex ==
  ASSUME NEW S, NEW s \in Seq(S), NEW x \in S, NEW n \in Nat, Len(s) = n
  PROVE  /\ Append(s, x) \in Seq(S)
         /\ Len(Append(s, x)) = n + 1
         /\ \A i \in 1 .. n : Append(s, x)[i] = s[i]
         /\ Append(s, x)[n + 1] = x
OBVIOUS

(* The header of an element: time, or at least an address and tags.        *)
HeaderBytes(kind) == IF kind = "bundle" THEN SizeBundle ELSE 8

OpenedAs(o, kind, addr, numTags) ==
  /\ o \in Element
  /\ o.kind = kind /\ o.numTags = numTags /\ o.put = << >> /\ o.addr = addr
  /\ o.first = args.pos + SlotBytes /\ o.first % 4 = 0
  /\ inBundle = 0 => o.slot = Null /\ o.first = 0 /\ closed = {} /\ args.pos = 0
  /\ inBundle > 0 => o.slot = args.pos /\ o.first = args.pos + 4

LEMMA OpenedPlace ==
  ASSUME PacketInv, mayOpen, NEW kind \in {"bundle", "message"},
         NEW addr \in Addresses \cup {Null}, NEW numTags \in Nat,
         NEW o, o = Opened(kind, addr, numTags)
  PROVE  OpenedAs(o, kind, addr, numTags)
<1>1. /\ args.pos \in Nat /\ args.pos % 4 = 0 /\ inBundle \in Nat
  BY Sizes
<1>2. args.ok = TRUE /\ (inBundle > 0 \/ args.pos = 0)
  BY Sizes DEF mayOpen
<1>3. SlotBytes = IF inBundle > 0 THEN 4 ELSE 0
  BY DEF SlotBytes
<1>4. o = [kind |-> kind, addr |-> addr, numTags |-> numTags, put |-> << >>,
           slot |-> IF inBundle > 0 THEN args.pos ELSE Null,
           first |-> IF inBundle > 0 THEN args.pos + 4 ELSE args.pos,
           last |-> Null]
  BY DEF Opened
<1>5. << >> \in Seq(Args)
  OBVIOUS
<1>6. o \in Element
  BY <1>1, <1>4, <1>5 DEF Element
<1>7. o.first = args.pos + SlotBytes /\ o.first % 4 = 0
  BY <1>1, <1>3, <1>4
<1>8. ASSUME inBundle = 0
      PROVE  closed = {}
  <2>1. args.pos = 0
    BY <1>2, <1>8
  <2>2. \A e \in closed : e.first \in Nat /\ e.last \in Nat
                            /\ e.first + 8 <= e.last /\ e.last <= args.pos
    BY <1>2, ClosedSlots
  <2>3. \A e \in closed : FALSE
    BY <2>1, <2>2
  <2> QED
    BY <2>3
<1>9. inBundle = 0 => o.slot = Null /\ o.first = 0 /\ args.pos = 0
  BY <1>1, <1>2, <1>4
<1>10. inBundle > 0 => o.slot = args.pos /\ o.first = args.pos + 4
  BY <1>4
<1>11. o.kind = kind /\ o.numTags = numTags /\ o.put = << >> /\ o.addr = addr
  BY <1>4
<1> QED
  BY <1>6, <1>7, <1>8, <1>9, <1>10, <1>11 DEF OpenedAs

(* Opening an element keeps the nest, and what is closed is beside it.     *)
LEMMA OpenedKeeps ==
  ASSUME PacketInv, mayOpen, NEW kind \in {"bundle", "message"},
         NEW addr \in Addresses \cup {Null}, NEW numTags \in Nat, NEW o,
         o = Opened(kind, addr, numTags), open' = Append(open, o),
         inBundle' = IF kind = "bundle" THEN inBundle + 1 ELSE inBundle,
         closed' = closed, args'.pos \in Nat,
         o.first + HeaderBytes(kind) <= args'.pos
  PROVE  /\ OpenNest' /\ ClosedPlaces'
         /\ Len(open) = inBundle /\ Len(open') = inBundle + 1
         /\ \A i \in 1 .. inBundle : open'[i] = open[i]
         /\ open'[inBundle + 1] = o
         /\ Innermost' = o
         /\ messageOpen' <=> kind = "message"
<1> DEFINE n == inBundle
<1>1. /\ o \in Element
      /\ o.kind = kind
      /\ o.first = args.pos + SlotBytes /\ o.first % 4 = 0
      /\ inBundle = 0 => o.slot = Null /\ o.first = 0 /\ closed = {}
      /\ inBundle > 0 => o.slot = args.pos /\ o.first = args.pos + 4
  <2>1. OpenedAs(o, kind, addr, numTags)
    BY OpenedPlace
  <2> QED
    BY <2>1 DEF OpenedAs
<1>2. /\ args.pos \in Nat /\ n \in Nat
  BY Sizes
<1>3. args.ok = TRUE /\ ~messageOpen
  BY Sizes DEF mayOpen
<1>4. open \in Seq(Element) /\ Len(open) = n
  BY <1>3, OnlyBundlesOpen
<1>5. /\ open' \in Seq(Element)
      /\ Len(open') = n + 1
      /\ \A i \in 1 .. n : open'[i] = open[i]
      /\ open'[n + 1] = o
  <2> HIDE DEF n
  <2> QED
    BY <1>1, <1>2, <1>4, AppendIndex
<1>6. SlotBytes \in {0, 4}
  BY DEF SlotBytes
<1>7. args.pos <= args'.pos
  <2>1. HeaderBytes(kind) \in Nat
    BY DEF HeaderBytes, SizeBundle
  <2>2. o.first = args.pos + SlotBytes
    BY <1>1
  <2>3. o.first \in Nat /\ args.pos <= o.first
    BY <1>2, <1>6, <2>2
  <2> QED
    BY <1>2, <2>1, <2>3
<1>8. OpenNest /\ ClosedPlaces
  BY <1>3 DEF PacketInv, Places
<1>9. \A i \in 1 .. n :
        /\ open[i] \in Element
        /\ open[i].kind = "bundle"
        /\ open[i].first % 4 = 0
        /\ i = 1 => open[i].slot = Null /\ open[i].first = 0
        /\ i > 1 => open[i].slot \in Nat /\ open[i].first = open[i].slot + 4
        /\ open[i].first + SizeBundle <= args.pos
        /\ open[i].first \in Nat
  <2> TAKE i \in 1 .. n
  <2>1. /\ open[i].kind = IF i <= inBundle THEN "bundle" ELSE "message"
        /\ open[i].first % 4 = 0
        /\ i = 1 => open[i].slot = Null /\ open[i].first = 0
        /\ i > 1 => open[i].slot \in Nat /\ open[i].first = open[i].slot + 4
        /\ open[i].first + (IF i <= inBundle THEN SizeBundle ELSE 8) <= args.pos
    BY <1>4, <1>8 DEF OpenNest
  <2>2. i <= inBundle
    BY <1>2
  <2>3. open[i] \in Element
    BY <1>2, <1>4
  <2>4. open[i].first \in Nat
    BY <2>3 DEF Element
  <2> QED
    BY <2>1, <2>2, <2>3, <2>4
<1>10. OpenNest'
  <2>1. open' \in Seq(Element)
    BY <1>5
  <2>2. Len(open') \in {inBundle', inBundle' + 1}
    BY <1>2, <1>5
  <2>3. ASSUME NEW i \in 1 .. Len(open')
        PROVE  /\ open'[i].kind = IF i <= inBundle' THEN "bundle" ELSE "message"
               /\ open'[i].first % 4 = 0
               /\ i = 1 => open'[i].slot = Null /\ open'[i].first = 0
               /\ i > 1 => open'[i].slot \in Nat /\ open'[i].first = open'[i].slot + 4
               /\ open'[i].first + (IF i <= inBundle' THEN SizeBundle ELSE 8) <= args'.pos
    <3>1. CASE i \in 1 .. n
      <4>1. open'[i] = open[i] /\ i <= inBundle'
        BY <1>2, <1>5, <3>1
      <4>2. SizeBundle \in Nat
        BY DEF SizeBundle
      <4>3. open[i].first + SizeBundle <= args'.pos
        BY <1>2, <1>7, <1>9, <3>1, <4>2
      <4> QED
        BY <1>9, <3>1, <4>1, <4>3
    <3>2. CASE i = n + 1
      <4>1. open'[i] = o
        BY <1>5, <3>2
      <4>2. o.kind = IF i <= inBundle' THEN "bundle" ELSE "message"
        BY <1>1, <1>2, <3>2
      <4>3. o.first + (IF i <= inBundle' THEN SizeBundle ELSE 8) <= args'.pos
        BY <1>2, <3>2 DEF HeaderBytes
      <4>4. /\ i = 1 => o.slot = Null /\ o.first = 0
            /\ i > 1 => o.slot \in Nat /\ o.first = o.slot + 4
        BY <1>1, <1>2, <3>2
      <4> QED
        BY <1>1, <4>1, <4>2, <4>3, <4>4
    <3> QED
      BY <1>2, <1>5, <3>1, <3>2
  <2>4. ASSUME NEW i \in 1 .. Len(open'), NEW j \in 1 .. Len(open'), i < j
        PROVE  open'[i].first + SizeBundle <= open'[j].slot
    <3>1. i \in 1 .. n /\ open'[i] = open[i]
      BY <1>2, <1>5, <2>4
    <3>2. CASE j \in 1 .. n
      BY <1>4, <1>5, <1>8, <2>4, <3>1, <3>2 DEF OpenNest
    <3>3. CASE j = n + 1
      <4>1. open'[j] = o /\ o.slot = args.pos
        BY <1>1, <1>2, <1>5, <3>1, <3>3
      <4> QED
        BY <1>9, <3>1, <4>1
    <3> QED
      BY <1>2, <1>5, <3>2, <3>3
  <2> QED
    BY <2>1, <2>2, <2>3, <2>4 DEF OpenNest
<1>11. ClosedPlaces'
  <2> SUFFICES ASSUME NEW e \in closed
               PROVE  (/\ e \in Element
                       /\ e.last \in Nat
                       /\ e.first % 4 = 0
                       /\ e.slot # Null => e.first = e.slot + 4
                       /\ e.slot = Null => open = << >> /\ e.first = 0
                       /\ e.first + 8 <= e.last
                       /\ e.last <= args.pos
                       /\ \A i \in 1 .. Len(open) : Beside(e, i) \/ Within(e, i))'
    BY DEF ClosedPlaces
  <2>1. /\ e \in Element
        /\ e.last \in Nat
        /\ e.first % 4 = 0
        /\ e.slot # Null => e.first = e.slot + 4
        /\ e.slot = Null => open = << >>
        /\ e.first + 8 <= e.last
        /\ e.last <= args.pos
        /\ \A i \in 1 .. Len(open) : Beside(e, i) \/ Within(e, i)
    BY <1>8 DEF ClosedPlaces
  <2>2. inBundle > 0
    BY <1>1, <1>2
  <2>3. e.slot # Null
    BY <1>2, <1>4, <2>1, <2>2
  <2>4. e.last <= args'.pos
    BY <1>2, <1>7, <2>1
  <2>5. ASSUME NEW i \in 1 .. Len(open')
        PROVE  (Beside(e, i) \/ Within(e, i))'
    <3>1. CASE i \in 1 .. n
      <4>1. open'[i] = open[i] /\ i <= inBundle' /\ i <= inBundle
        BY <1>2, <1>5, <3>1
      <4>2. Beside(e, i) \/ Within(e, i)
        BY <1>4, <2>1, <3>1
      <4> QED
        BY <4>1, <4>2 DEF Beside, Within
    <3>2. CASE i = n + 1
      <4>1. open'[i].slot = args.pos /\ i > 1
        BY <1>1, <1>2, <1>5, <2>2, <3>2
      <4> QED
        BY <2>1, <4>1 DEF Beside
    <3> QED
      BY <1>2, <1>5, <3>1, <3>2
  <2> QED
    BY <2>1, <2>3, <2>4, <2>5
<1>12. Innermost' = o
  BY <1>5 DEF Innermost
<1>13. open' # << >>
  BY <1>2, <1>5
<1>14. messageOpen' <=> kind = "message"
  BY <1>1, <1>12, <1>13 DEF messageOpen
<1> QED
  BY <1>4, <1>5, <1>10, <1>11, <1>12, <1>14

-----------------------------------------------------------------------------
(* What openBundle, openMessage and an argument that is no number write.   *)
Numberless(w) == w[1] \notin {"size", "int32", "float32"}

LEMMA NumberlessWords ==
  /\ \A w \in HeaderWords : Numberless(w)
  /\ \A w \in TextWords : Numberless(w)
  /\ \A w : TagWord(w) => Numberless(w)
<1>1. \A w \in HeaderWords : Numberless(w)
  BY DEF HeaderWords, Numberless
<1>2. \A w \in TextWords : Numberless(w)
  BY DEF TextWords, Numberless
<1>3. \A w : TagWord(w) => Numberless(w)
  BY DEF TagWord, Numberless
<1> QED
  BY <1>1, <1>2, <1>3

LEMMA StaysNumberless ==
  ASSUME PacketInv, IsStream(args)', capacity' = capacity, aligned' = aligned,
         closed' = closed,
         ~aligned => \A i \in 0 .. (capacity \div 4 - 1) :
                       args'.data[i] = args.data[i] \/ Numberless(args'.data[i])
  PROVE  NumbersAligned'
<1> SUFFICES ASSUME ~aligned
             PROVE  /\ \A i \in DOMAIN args'.data : Numberless(args'.data[i])
                    /\ \A e \in closed : e.slot = Null
  BY DEF NumbersAligned, Numberless
<1>1. /\ \A i \in DOMAIN args.data : Numberless(args.data[i])
      /\ \A e \in closed : e.slot = Null
  BY DEF PacketInv, NumbersAligned, Numberless
<1>2. DOMAIN args.data = 0 .. (capacity \div 4 - 1)
  BY Sizes DEF IsStream
<1>3. DOMAIN args'.data = 0 .. (capacity \div 4 - 1)
  BY DEF IsStream
<1> QED
  BY <1>1, <1>2, <1>3

(* The sizes of closed elements stay where nothing below is written.       *)
LEMMA SizesStay ==
  ASSUME PacketInv, args.ok = TRUE, closed' = closed,
         \A e \in closed : e.slot # Null =>
           args'.data[e.slot \div 4] = args.data[e.slot \div 4]
  PROVE  SizesMatch'
BY DEF PacketInv, SizesMatch

LEMMA TypesFollow ==
  ASSUME PacketInv, IsStream(args)', capacity' = capacity, aligned' = aligned,
         tags' \in [begin : Nat, end : Nat, pos : Nat],
         tags'.begin <= tags'.pos, tags'.pos <= tags'.end,
         args'.ok = TRUE /\ messageOpen' => tags'.end <= capacity,
         sizePosM' \in (0 .. capacity) \cup {Null},
         sizePosB' \in (0 .. capacity) \cup {Null},
         inBundle' \in 0 .. MaxDepth,
         needed' \in Nat
  PROVE  Types'
<1>1. capacity \in Capacities /\ aligned \in Alignments
  BY DEF PacketInv, Types, TypeOK
<1>2. /\ DOMAIN args'.data = 0 .. (capacity \div 4 - 1)
      /\ args'.pos \in {p \in 0 .. capacity : p % 4 = 0}
      /\ args'.ok \in BOOLEAN
  BY DEF IsStream
<1>3. 0 <= tags'.begin /\ {sizePosM', sizePosB'} \subseteq (0 .. capacity) \cup {Null}
  OBVIOUS
<1>4. (args.ok /\ messageOpen => tags.end <= capacity)'
  BY <1>2
<1>5. TypeOK'
  BY <1>1, <1>2, <1>3, <1>4 DEF TypeOK
<1> QED
  BY <1>5 DEF Types

LEMMA Needed ==
  ASSUME PacketInv
  PROVE  /\ needed \in Nat
         /\ args.ok = TRUE => args.pos = needed
         /\ aligned \in BOOLEAN
BY CallerAssumption DEF PacketInv, SizesPredicted, Types, TypeOK

(* The slots of the bundles stay linked when an element is opened.         *)
LEMMA OpenBundleKeeps ==
  ASSUME PacketInv, OpenBundle
  PROVE  PacketInv'
<1> DEFINE o == Opened("bundle", Null, 0)
<1>1. /\ Extends(args, args', HeaderWords)
      /\ Moves(args, args', SlotBytes + SizeBundle)
      /\ args'.ok = TRUE =>
           /\ inBundle > 0 => args'.data[args.pos \div 4] = Offset(OuterSlot)
           /\ sizePosB' = IF inBundle > 0 THEN args.pos ELSE sizePosB
           /\ inBundle' = inBundle + 1
      /\ inBundle' \in 0 .. MaxDepth
      /\ sizePosB' \in (0 .. capacity) \cup {Null}
  BY OpenBundleWrites
<1>2. /\ mayOpen /\ args.ok = TRUE /\ ~messageOpen
      /\ open' = Append(open, o)
      /\ needed' = needed + SlotBytes + SizeBundle
      /\ capacity' = capacity /\ aligned' = aligned /\ tags' = tags
      /\ sizePosM' = sizePosM /\ closed' = closed
  BY Sizes DEF OpenBundle, mayOpen, SlotBytes
<1>3. /\ capacity \in Nat /\ IsStream(args)
      /\ args.pos \in Nat /\ args.pos <= capacity /\ args.pos % 4 = 0
      /\ inBundle \in Nat
  BY Sizes
<1>4. IsStream(args') /\ args'.ok \in BOOLEAN /\ args'.pos \in Nat
      /\ args.pos <= args'.pos
  BY <1>1, <1>3 DEF Extends, IsStream
<1>5. IsStream(args)'
  BY <1>2, <1>4 DEF IsStream
<1>6. SlotBytes \in {0, 4} /\ SizeBundle = 16
  BY DEF SlotBytes, SizeBundle
<1>7. /\ o \in Element
      /\ o.kind = "bundle"
      /\ o.first = args.pos + SlotBytes
      /\ inBundle = 0 => o.slot = Null /\ o.first = 0 /\ closed = {} /\ args.pos = 0
      /\ inBundle > 0 => o.slot = args.pos /\ o.first = args.pos + 4
  <2>1. 0 \in Nat /\ Null \in Addresses \cup {Null} /\ "bundle" \in {"bundle", "message"}
    OBVIOUS
  <2>2. mayOpen
    BY <1>2
  <2>3. OpenedAs(Opened("bundle", Null, 0), "bundle", Null, 0)
    BY <2>1, <2>2, OpenedPlace
  <2> QED
    BY <2>3 DEF OpenedAs
<1>8. Innermost' = o /\ ~messageOpen'
  <2>1. open \in Seq(Element) /\ Len(open) = inBundle
    BY <1>2, OnlyBundlesOpen
  <2> HIDE DEF o
  <2>2. Len(open') = inBundle + 1 /\ open'[inBundle + 1] = o
    BY <1>2, <1>3, <1>7, <2>1, AppendIndex
  <2> QED
    BY <1>7, <2>2 DEF Innermost, messageOpen
<1> HIDE DEF o
<1>9. Types'
  <2>1. /\ tags \in [begin : Nat, end : Nat, pos : Nat]
        /\ tags.begin <= tags.pos /\ tags.pos <= tags.end
    BY DEF PacketInv, Types, TypeOK
  <2>2. needed' \in Nat
    BY <1>2, <1>6, Needed
  <2>3. sizePosM \in (0 .. capacity) \cup {Null}
    BY Sizes
  <2> QED
    BY <1>1, <1>2, <1>5, <1>8, <2>1, <2>2, <2>3, TypesFollow
<1>10. SizesMatch'
  <2>1. \A e \in closed : e.slot # Null =>
          args'.data[e.slot \div 4] = args.data[e.slot \div 4]
    BY <1>1, <1>2, ClosedSlots DEF Extends, SameBelow
  <2> QED
    BY <1>2, <2>1, SizesStay
<1>11. SizesPredicted'
  <2>1. needed' = args.pos + (SlotBytes + SizeBundle)
    <3>1. needed' = needed + SlotBytes + SizeBundle
      BY <1>2
    <3>2. args.pos = needed /\ needed \in Nat
      BY <1>2, Needed
    <3> QED
      BY <1>6, <3>1, <3>2
  <2>2. args'.ok = TRUE => args'.pos = needed'
    BY <1>1, <2>1 DEF Moves
  <2>3. needed' <= capacity => args'.ok = TRUE
    BY <1>1, <1>2, <2>1 DEF Moves
  <2> QED
    BY <1>2, <1>4, <2>2, <2>3 DEF SizesPredicted
<1>12. NumbersAligned'
  <2>1. \A i \in 0 .. (capacity \div 4 - 1) :
          args'.data[i] = args.data[i] \/ Numberless(args'.data[i])
    BY <1>1, NumberlessWords DEF Extends
  <2> QED
    BY <1>2, <1>5, <2>1, StaysNumberless
<1>13. ASSUME args'.ok = TRUE
       PROVE  Places'
  <2>1. /\ inBundle' = inBundle + 1
        /\ args'.pos = args.pos + (SlotBytes + SizeBundle)
    BY <1>1, <1>13 DEF Moves
  <2>2. /\ OpenNest' /\ ClosedPlaces'
        /\ Len(open) = inBundle /\ Len(open') = inBundle + 1
        /\ \A i \in 1 .. inBundle : open'[i] = open[i]
        /\ open'[inBundle + 1] = o
    <3>1. o.first + HeaderBytes("bundle") <= args'.pos
      BY <1>3, <1>6, <1>7, <2>1 DEF HeaderBytes
    <3>2. inBundle' = IF "bundle" = "bundle" THEN inBundle + 1 ELSE inBundle
      BY <2>1
    <3>3. 0 \in Nat /\ Null \in Addresses \cup {Null} /\ "bundle" \in {"bundle", "message"}
      OBVIOUS
    <3> QED
      BY <1>2, <1>4, <3>1, <3>2, <3>3, OpenedKeeps DEF o
  <2>3. TagArea'
    BY <1>8 DEF TagArea
  <2>4. SlotList /\ OpenNest
    BY <1>2 DEF PacketInv, Places
  <2>5. SlotList'
    <3>1. inBundle' > 1 => sizePosB' = open'[inBundle'].slot
      BY <1>1, <1>3, <1>7, <1>13, <2>1, <2>2
    <3>2. inBundle' <= 1 => sizePosB' \in {Null, 0}
      BY <1>1, <1>3, <1>13, <2>1, <2>4 DEF SlotList
    <3>3. ASSUME NEW i \in 2 .. inBundle'
          PROVE  args'.data[open'[i].slot \div 4] = Offset(SlotOf(i - 1)')
      <4>1. i - 1 \in 1 .. inBundle /\ inBundle > 0
        BY <1>3, <2>1
      <4>2. open'[i - 1] = open[i - 1]
        BY <2>2, <4>1
      <4>3. SlotOf(i - 1)' = SlotOf(i - 1)
        BY <4>2 DEF SlotOf
      <4>4. CASE i \in 2 .. inBundle
        <5>1. open'[i] = open[i]
          BY <2>2, <4>4
        <5>2. args.data[open[i].slot \div 4] = Offset(SlotOf(i - 1))
          BY <2>4, <4>4 DEF SlotList
        <5>3. /\ open[i].slot \in Nat
              /\ open[i].first = open[i].slot + 4
              /\ open[i].first % 4 = 0
              /\ open[i].first + SizeBundle <= args.pos
          BY <1>3, <2>2, <2>4, <4>4 DEF OpenNest
        <5>4. open[i].slot \div 4 \in 0 .. (args.pos \div 4 - 1)
          BY <1>3, <1>6, <5>3
        <5> QED
          BY <1>1, <4>3, <5>1, <5>2, <5>4 DEF Extends, SameBelow
      <4>5. CASE i = inBundle + 1
        <5>1. args'.data[open'[i].slot \div 4] = Offset(OuterSlot)
          BY <1>1, <1>7, <1>13, <2>2, <4>1, <4>5
        <5>2. OuterSlot = SlotOf(i - 1)
          <6>1. CASE inBundle = 1
            <7>1. sizePosB \in {Null, 0} /\ open[1].slot = Null
              BY <2>2, <2>4, <6>1 DEF SlotList, OpenNest
            <7>2. i - 1 = 1
              BY <4>5, <6>1
            <7> QED
              BY <7>1, <7>2 DEF OuterSlot, SlotOf
          <6>2. CASE inBundle > 1
            <7>1. sizePosB = open[inBundle].slot /\ i - 1 = inBundle
              BY <1>3, <2>4, <4>5, <6>2 DEF SlotList
            <7> QED
              BY <7>1 DEF OuterSlot, SlotOf
          <6> QED
            BY <1>3, <4>1, <6>1, <6>2
        <5> QED
          BY <4>3, <5>1, <5>2
      <4> QED
        BY <1>3, <2>1, <4>4, <4>5
    <3> QED
      BY <1>8, <3>1, <3>2, <3>3 DEF SlotList
  <2> QED
    BY <2>2, <2>3, <2>5 DEF Places
<1> QED
  BY <1>9, <1>10, <1>11, <1>12, <1>13 DEF PacketInv

LEMMA OpenMessageKeeps ==
  ASSUME PacketInv, NEW addr \in Addresses, NEW numTags \in TagCounts,
         OpenMessage(addr, numTags)
  PROVE  PacketInv'
<1> DEFINE o == Opened("message", addr, numTags)
           at == TagsAt(addr)
           area == Align(numTags + 2)
<1>1. /\ IsStream(args') /\ SameBelow(args, args') /\ args.pos <= args'.pos
      /\ NoNumbers(args, args')
      /\ Moves(args, args', SlotBytes + SizeMessage(addr, numTags))
      /\ args'.ok = TRUE =>
           /\ HoldsNoTags(args', TagsAt(addr), Align(numTags + 2))
           /\ tags' = [begin |-> TagsAt(addr), end |-> TagsAt(addr) + numTags + 2,
                       pos |-> TagsAt(addr) + 1]
      /\ tags' \in [begin : Nat, end : Nat, pos : Nat]
      /\ tags'.begin <= tags'.pos /\ tags'.pos <= tags'.end
  BY OpenMessageWrites
<1>2. /\ mayOpen /\ args.ok = TRUE /\ ~messageOpen
      /\ open' = Append(open, o)
      /\ needed' = needed + SlotBytes + SizeMessage(addr, numTags)
      /\ capacity' = capacity /\ aligned' = aligned
      /\ sizePosM' = IF inBundle > 0 THEN args.pos ELSE sizePosM
      /\ sizePosB' = sizePosB /\ inBundle' = inBundle /\ closed' = closed
  BY Sizes DEF OpenMessage, mayOpen, SlotBytes
<1>3. /\ capacity \in Nat /\ IsStream(args)
      /\ args.pos \in Nat /\ args.pos <= capacity /\ args.pos % 4 = 0
      /\ inBundle \in Nat
  BY Sizes
<1>4. IsStream(args)' /\ args'.ok \in BOOLEAN /\ args'.pos \in Nat /\ args'.pos <= capacity
  BY <1>1, <1>2, <1>3 DEF IsStream
<1>5. addr \in Strings /\ numTags \in Nat /\ addr \in Addresses \cup {Null}
  BY CallerAssumption
<1>6. /\ SizeString(addr) \in Nat /\ SizeString(addr) % 4 = 0 /\ SizeString(addr) >= 4
  BY <1>5, StringRow
<1>7. area \in Nat /\ area % 4 = 0 /\ numTags + 2 <= area
  BY <1>5, TagBytes
<1>8. SlotBytes \in {0, 4}
  BY DEF SlotBytes
<1>9. SizeMessage(addr, numTags) = SizeString(addr) + area
  BY DEF SizeMessage
<1>10. /\ o \in Element
       /\ o.kind = "message"
       /\ o.numTags = numTags
       /\ o.put = << >>
       /\ o.first = args.pos + SlotBytes
       /\ inBundle = 0 => o.slot = Null
       /\ inBundle > 0 => o.slot = args.pos
  <2>1. mayOpen /\ "message" \in {"bundle", "message"}
    BY <1>2
  <2>2. OpenedAs(Opened("message", addr, numTags), "message", addr, numTags)
    BY <1>5, <2>1, OpenedPlace
  <2> QED
    BY <2>2 DEF OpenedAs
<1>11. at = o.first + SizeString(addr)
  BY <1>10 DEF TagsAt, AddressAt
<1> HIDE DEF o, at, area
<1>12. at \in Nat /\ at % 4 = 0
  <2>1. at = args.pos + SlotBytes + SizeString(addr)
    BY <1>10, <1>11
  <2> QED
    BY <1>3, <1>6, <1>8, <2>1, WordSum
<1>13. ASSUME args'.ok = TRUE
       PROVE  at + area = args'.pos /\ at + numTags + 2 <= args'.pos
  <2>1. args'.pos = args.pos + (SlotBytes + (SizeString(addr) + area))
    BY <1>1, <1>9, <1>13 DEF Moves
  <2>2. at = args.pos + SlotBytes + SizeString(addr)
    BY <1>10, <1>11
  <2>3. args.pos \in Nat /\ SizeString(addr) \in Nat
    BY <1>3, <1>6
  <2>4. area \in Nat /\ numTags \in Nat /\ numTags + 2 <= area
    BY <1>5, <1>7
  <2>5. at + area = args'.pos
    BY <1>8, <2>1, <2>2, <2>3, <2>4
  <2> QED
    BY <1>12, <2>4, <2>5
<1>14. Types'
  <2>1. args'.ok = TRUE /\ messageOpen' => tags'.end <= capacity
    <3>1. args'.ok = TRUE => tags'.end = at + numTags + 2
      BY <1>1 DEF at
    <3>2. args'.pos <= capacity /\ args'.pos \in Nat /\ capacity \in Nat
      BY <1>3, <1>4
    <3>3. at + numTags + 2 \in Nat
      BY <1>5, <1>12
    <3>4. args'.ok = TRUE => at + numTags + 2 <= args'.pos
      BY <1>13
    <3>5. at + numTags + 2 <= args'.pos => at + numTags + 2 <= capacity
      BY <3>2, <3>3
    <3> QED
      BY <3>1, <3>4, <3>5
  <2>2. needed' \in Nat
    <3>1. SizeMessage(addr, numTags) \in Nat
      BY <1>6, <1>7, <1>9
    <3> QED
      BY <1>2, <1>8, <3>1, Needed
  <2>3. /\ sizePosM' \in (0 .. capacity) \cup {Null}
        /\ sizePosB' \in (0 .. capacity) \cup {Null}
    BY <1>2, <1>3, Sizes
  <2>4. inBundle' \in 0 .. MaxDepth
    BY <1>2 DEF PacketInv, Types, TypeOK
  <2> QED
    BY <1>1, <1>2, <1>4, <2>1, <2>2, <2>3, <2>4, TypesFollow
<1>15. SizesMatch'
  <2>1. \A e \in closed : e.slot # Null =>
          args'.data[e.slot \div 4] = args.data[e.slot \div 4]
    BY <1>1, <1>2, ClosedSlots DEF SameBelow
  <2> QED
    BY <1>2, <2>1, SizesStay
<1>16. SizesPredicted'
  <2> DEFINE size == SizeMessage(addr, numTags)
  <2>1. size \in Nat
    BY <1>6, <1>7, <1>9
  <2>2. Moves(args, args', SlotBytes + size)
    BY <1>1
  <2>3. needed' = needed + SlotBytes + size
    BY <1>2
  <2> HIDE DEF size
  <2>4. needed' = args.pos + (SlotBytes + size)
    <3>1. args.pos = needed /\ needed \in Nat
      BY <1>2, Needed
    <3> QED
      BY <1>8, <2>1, <2>3, <3>1
  <2>5. args'.ok = TRUE => args'.pos = needed'
    BY <2>2, <2>4 DEF Moves
  <2>6. needed' <= capacity => args'.ok = TRUE
    BY <1>2, <2>2, <2>4 DEF Moves
  <2> QED
    BY <1>2, <1>4, <2>5, <2>6 DEF SizesPredicted
<1>17. NumbersAligned'
  <2>1. \A i \in 0 .. (capacity \div 4 - 1) :
          args'.data[i] = args.data[i] \/ Numberless(args'.data[i])
    BY <1>1, NumberlessWords DEF NoNumbers
  <2> QED
    BY <1>2, <1>4, <2>1, StaysNumberless
<1>18. ASSUME args'.ok = TRUE
       PROVE  Places'
  <2>1. /\ OpenNest' /\ ClosedPlaces'
        /\ Len(open) = inBundle /\ Len(open') = inBundle + 1
        /\ \A i \in 1 .. inBundle : open'[i] = open[i]
        /\ open'[inBundle + 1] = o
        /\ Innermost' = o
        /\ messageOpen' <=> "message" = "message"
    <3>1. o.first + HeaderBytes("message") <= args'.pos
      <4>1. o.first + 8 <= args'.pos
        <5>1. at + area = args'.pos /\ at = o.first + SizeString(addr)
          BY <1>11, <1>13, <1>18
        <5>2. o.first \in Nat
          <6>1. o.first = args.pos + SlotBytes /\ args.pos \in Nat
            BY <1>3, <1>10
          <6> QED
            BY <1>8, <6>1
        <5>3. SizeString(addr) >= 4 /\ SizeString(addr) \in Nat
          BY <1>6
        <5>4. area >= 4
          <6>1. area \in Nat /\ area % 4 = 0 /\ area >= 2
            BY <1>5, <1>7
          <6> QED
            BY <6>1
        <5>5. area \in Nat
          BY <1>7
        <5> QED
          BY <5>1, <5>2, <5>3, <5>4, <5>5
      <4> QED
        BY <4>1 DEF HeaderBytes
    <3>2. inBundle' = IF "message" = "bundle" THEN inBundle + 1 ELSE inBundle
      BY <1>2
    <3>3. "message" \in {"bundle", "message"}
      OBVIOUS
    <3> QED
      BY <1>2, <1>4, <1>5, <3>1, <3>2, <3>3, OpenedKeeps DEF o
  <2>2. TagArea'
    <3>1. tags' = [begin |-> at, end |-> at + numTags + 2, pos |-> at + 1]
      BY <1>1, <1>18 DEF at
    <3>2. o.first + 4 <= at
      BY <1>3, <1>6, <1>8, <1>10, <1>11
    <3>3. Len(o.put) = 0
      BY <1>10
    <3>4. ASSUME NEW i \in 0 .. (capacity' \div 4 - 1), at <= 4 * i, 4 * i < at + area
          PROVE  TagWord(args'.data[i])
      <4>1. PICK k \in 1 .. (area \div 4) : i = at \div 4 + k - 1
        <5>1. i - at \div 4 + 1 \in 1 .. (area \div 4)
          BY <1>2, <1>3, <1>7, <1>12, <3>4
        <5>2. i = at \div 4 + (i - at \div 4 + 1) - 1
          BY <1>12
        <5> QED
          BY <5>1, <5>2
      <4>2. args'.data[i] = IF k = 1 THEN CommaWord ELSE ZeroWord
        BY <1>1, <1>18, <4>1 DEF HoldsNoTags, at, area
      <4> QED
        BY <4>2, CommaTagWord, ZeroTagWord
    <3>5. at + area <= args'.pos
      <4>1. at + area = args'.pos
        BY <1>13, <1>18
      <4>2. args'.pos \in Nat
        BY <1>4
      <4> QED
        BY <4>1, <4>2
    <3>6. /\ tags'.begin = at
          /\ tags'.end = at + numTags + 2
          /\ tags'.pos = at + 1
      BY <3>1
    <3>7. at + 1 = at + 1 + Len(o.put)
      BY <1>12, <3>3
    <3> QED
      BY <1>10, <1>12, <2>1, <3>2, <3>4, <3>5, <3>6, <3>7 DEF TagArea, area
  <2>3. SlotList /\ OpenNest
    BY <1>2 DEF PacketInv, Places
  <2>4. SlotList'
    <3>1. inBundle' > 1 => sizePosB' = open'[inBundle'].slot
      BY <1>2, <1>3, <2>1, <2>3 DEF SlotList
    <3>2. inBundle' <= 1 => sizePosB' \in {Null, 0}
      BY <1>2, <2>3 DEF SlotList
    <3>3. inBundle' > 0 => sizePosM' = o.slot
      BY <1>2, <1>10
    <3>4. ASSUME NEW i \in 2 .. inBundle
          PROVE  args'.data[open'[i].slot \div 4] = Offset(SlotOf(i - 1)')
      <4>1. open'[i - 1] = open[i - 1] /\ open'[i] = open[i]
        BY <1>3, <2>1
      <4>2. SlotOf(i - 1)' = SlotOf(i - 1)
        BY <4>1 DEF SlotOf
      <4>3. args.data[open[i].slot \div 4] = Offset(SlotOf(i - 1))
        BY <2>3 DEF SlotList
      <4>4. /\ open[i].slot \in Nat
            /\ open[i].first = open[i].slot + 4
            /\ open[i].first % 4 = 0
            /\ open[i].first + SizeBundle <= args.pos
        BY <1>3, <2>1, <2>3 DEF OpenNest
      <4>5. open[i].slot \div 4 \in 0 .. (args.pos \div 4 - 1)
        BY <1>3, <4>4 DEF SizeBundle
      <4> QED
        BY <1>1, <4>1, <4>2, <4>3, <4>5 DEF SameBelow
    <3> QED
      BY <1>2, <2>1, <3>1, <3>2, <3>3, <3>4 DEF SlotList
  <2> QED
    BY <2>1, <2>2, <2>4 DEF Places
<1> QED
  BY <1>14, <1>15, <1>16, <1>17, <1>18 DEF PacketInv

-----------------------------------------------------------------------------
LEMMA InnermostIsElement ==
  ASSUME open \in Seq(Element), open # << >>
  PROVE  /\ Len(open) \in Nat /\ Len(open) >= 1
         /\ Innermost \in Element
         /\ Innermost.put \in Seq(Args) /\ Innermost.numTags \in Nat
         /\ Innermost.first \in Nat
<1>1. Len(open) \in Nat /\ Len(open) >= 1
  OBVIOUS
<1>2. Innermost \in Element
  BY <1>1 DEF Innermost
<1> QED
  BY <1>1, <1>2 DEF Element

(* An argument changes nothing of the open message but what was put.       *)
LEMMA PutAppends ==
  ASSUME open \in Seq(Element), open # << >>, NEW arg \in Args,
         open' = [open EXCEPT ![Len(open)].put = Append(@, arg)]
  PROVE  /\ open' \in Seq(Element)
         /\ Len(open') = Len(open)
         /\ \A i \in 1 .. Len(open) :
              /\ open'[i].kind = open[i].kind
              /\ open'[i].slot = open[i].slot
              /\ open'[i].first = open[i].first
         /\ Innermost' = [Innermost EXCEPT !.put = Append(Innermost.put, arg)]
         /\ Innermost'.put = Append(Innermost.put, arg)
         /\ Len(Innermost'.put) = Len(Innermost.put) + 1
         /\ Innermost'.numTags = Innermost.numTags
         /\ messageOpen' <=> messageOpen
<1> DEFINE n == Len(open)
           m == [Innermost EXCEPT !.put = Append(Innermost.put, arg)]
<1>1. /\ n \in Nat /\ n >= 1
      /\ Innermost \in Element
      /\ Innermost.put \in Seq(Args)
  BY InnermostIsElement
<1>2. Append(Innermost.put, arg) \in Seq(Args)
      /\ Len(Append(Innermost.put, arg)) = Len(Innermost.put) + 1
  BY <1>1
<1>3. m \in Element
  BY <1>1, <1>2 DEF Element
<1>4. /\ m.kind = Innermost.kind /\ m.slot = Innermost.slot /\ m.first = Innermost.first
      /\ m.numTags = Innermost.numTags /\ m.put = Append(Innermost.put, arg)
  BY <1>1 DEF Element
<1>5. open' = [open EXCEPT ![n] = m]
  BY DEF Innermost
<1> HIDE DEF m, n
<1>6. open' \in Seq(Element) /\ Len(open') = n
  <2>1. open \in Seq(Element) /\ n = Len(open) /\ n \in 1 .. Len(open)
    BY <1>1 DEF n
  <2> QED
    BY <1>3, <1>5, <2>1
<1>7. open'[n] = m /\ \A i \in 1 .. n : i # n => open'[i] = open[i]
  BY <1>1, <1>5 DEF n
<1>8. Innermost' = m
  BY <1>6, <1>7 DEF Innermost
<1>9. open' # << >>
  BY <1>1, <1>6
<1>10. messageOpen' <=> messageOpen
  BY <1>4, <1>8, <1>9 DEF messageOpen
<1>11. \A i \in 1 .. n :
         /\ open'[i].kind = open[i].kind
         /\ open'[i].slot = open[i].slot
         /\ open'[i].first = open[i].first
  BY <1>4, <1>7 DEF n, Innermost
<1> QED
  BY <1>2, <1>4, <1>6, <1>8, <1>10, <1>11 DEF n, m

(* Everything around the open message lies before its tags.                *)
LEMMA BeforeTheTags ==
  ASSUME PacketInv, args.ok = TRUE, messageOpen
  PROVE  /\ open \in Seq(Element) /\ open # << >> /\ Len(open) = inBundle + 1
         /\ tags.begin \in Nat
         /\ tags.begin <= 4 * (tags.pos \div 4)
         /\ Innermost.first < tags.begin /\ tags.begin < args.pos
         /\ inBundle > 0 => /\ Innermost.slot \in Nat
                            /\ Innermost.first = Innermost.slot + 4
         /\ \A e \in closed : inBundle > 0 /\ e.last <= Innermost.slot
<1>1. OpenNest /\ TagArea /\ ClosedPlaces
  BY DEF PacketInv, Places
<1>2. open \in Seq(Element) /\ open # << >>
  BY <1>1 DEF OpenNest, messageOpen
<1>3. inBundle \in Nat
  BY Sizes
<1>4. /\ Len(open) \in Nat /\ Len(open) >= 1
      /\ Innermost.first \in Nat /\ Innermost.numTags \in Nat
  BY <1>2, InnermostIsElement
<1>5. Len(open) = inBundle + 1
  <2>1. Innermost.kind = "message"
    BY DEF messageOpen
  <2>2. ~(Len(open) <= inBundle)
    BY <1>1, <1>4, <2>1 DEF OpenNest, Innermost
  <2> QED
    BY <1>1, <1>3, <2>2 DEF OpenNest
<1>6. /\ tags.begin \in Nat /\ tags.pos \in Nat
      /\ tags.begin % 4 = 0 /\ tags.begin < tags.pos
  BY TagPlace
<1>7. tags.begin <= 4 * (tags.pos \div 4)
  BY <1>6
<1>8. Innermost.first + 4 <= tags.begin
  BY <1>1 DEF TagArea
<1>9. tags.begin < args.pos
  <2>1. tags.begin + Align(Innermost.numTags + 2) <= args.pos
    BY <1>1 DEF TagArea
  <2>2. Innermost.numTags + 2 <= Align(Innermost.numTags + 2)
        /\ Align(Innermost.numTags + 2) \in Nat
    BY <1>4, TagBytes
  <2>3. \A b, m, a, p \in Nat : m + 2 <= a /\ b + a <= p => b < p
    OBVIOUS
  <2>4. args.pos \in Nat
    BY Sizes
  <2> QED
    BY <1>4, <1>6, <2>1, <2>2, <2>3, <2>4
<1>10. inBundle > 0 => /\ Innermost.slot \in Nat
                       /\ Innermost.first = Innermost.slot + 4
  BY <1>1, <1>3, <1>4, <1>5 DEF OpenNest, Innermost
<1>11. ASSUME NEW e \in closed
       PROVE  inBundle > 0 /\ e.last <= Innermost.slot
  <2>1. Len(open) \in 1 .. Len(open)
    BY <1>4
  <2>2. Beside(e, Len(open)) \/ Within(e, Len(open))
    BY <1>1, <2>1 DEF ClosedPlaces
  <2>3. ~(Len(open) <= inBundle)
    BY <1>3, <1>5
  <2>4. Len(open) > 1 /\ e.last <= open[Len(open)].slot
    BY <2>2, <2>3 DEF Beside, Within
  <2> QED
    BY <1>3, <1>5, <2>4 DEF Innermost
<1> QED
  BY <1>2, <1>4, <1>5, <1>6, <1>7, <1>8, <1>9, <1>10, <1>11

LEMMA PutArgKeeps ==
  ASSUME PacketInv, NEW arg \in Args, PutArg(arg)
  PROVE  PacketInv'
<1>1. /\ IsStream(args') /\ args.pos <= args'.pos
      /\ KeptButTag(args, args') /\ NewWords(args, args')
      /\ args'.ok = TRUE
           <=> /\ Room
               /\ aligned = TRUE \/ arg.head = << >>
               /\ args.pos + ArgBytes(arg) <= capacity
      /\ args'.ok = TRUE => args'.pos = args.pos + ArgBytes(arg)
      /\ \A i \in 0 .. (args.pos \div 4 - 1) :
           TagWord(args.data[i]) => TagWord(args'.data[i])
  BY PutArgWrites
<1>2. /\ args.ok = TRUE
      /\ open' = [open EXCEPT ![Len(open)].put = Append(@, arg)]
      /\ needed' = needed + ArgBytes(arg)
      /\ tags' = IF tags.pos < tags.end THEN [tags EXCEPT !.pos = @ + 1] ELSE tags
      /\ capacity' = capacity /\ aligned' = aligned
      /\ sizePosM' = sizePosM /\ sizePosB' = sizePosB
      /\ inBundle' = inBundle /\ closed' = closed
  BY Sizes DEF PutArg, ArgBytes
<1>3. messageOpen
  BY DEF PutArg
<1>4. /\ capacity \in Nat /\ IsStream(args)
      /\ args.pos \in Nat /\ args.pos <= capacity /\ args.pos % 4 = 0
      /\ inBundle \in Nat
  BY Sizes
<1>5. IsStream(args)' /\ args'.ok \in BOOLEAN /\ args'.pos \in Nat /\ args'.pos <= capacity
  BY <1>1, <1>2, <1>4 DEF IsStream
<1>6. /\ open \in Seq(Element) /\ open # << >> /\ Len(open) = inBundle + 1
      /\ tags.begin \in Nat
      /\ tags.begin <= 4 * (tags.pos \div 4)
      /\ Innermost.first < tags.begin /\ tags.begin < args.pos
      /\ inBundle > 0 => /\ Innermost.slot \in Nat
                         /\ Innermost.first = Innermost.slot + 4
      /\ \A e \in closed : inBundle > 0 /\ e.last <= Innermost.slot
  BY <1>2, <1>3, BeforeTheTags
<1>7. /\ open' \in Seq(Element)
      /\ Len(open') = Len(open)
      /\ \A i \in 1 .. Len(open) :
           /\ open'[i].kind = open[i].kind
           /\ open'[i].slot = open[i].slot
           /\ open'[i].first = open[i].first
      /\ Len(Innermost'.put) = Len(Innermost.put) + 1
      /\ Innermost'.numTags = Innermost.numTags
      /\ messageOpen' <=> messageOpen
  BY <1>2, <1>6, PutAppends
<1>8. /\ Innermost.put \in Seq(Args) /\ Innermost.numTags \in Nat /\ Innermost.first \in Nat
  BY <1>6, InnermostIsElement
<1>9. ArgBytes(arg) \in Nat
  BY ArgParts
<1>10. TagArea /\ OpenNest /\ SlotList /\ ClosedPlaces
  BY <1>2 DEF PacketInv, Places
<1>11. /\ tags \in [begin : Nat, end : Nat, pos : Nat]
       /\ tags.begin <= tags.pos /\ tags.pos <= tags.end
  BY DEF PacketInv, Types, TypeOK
<1>12. /\ tags' \in [begin : Nat, end : Nat, pos : Nat]
       /\ tags'.begin = tags.begin /\ tags'.end = tags.end
       /\ tags'.begin <= tags'.pos /\ tags'.pos <= tags'.end
       /\ Room => tags'.pos = tags.pos + 1
  BY <1>2, <1>11 DEF Room
<1>13. /\ tags.end = tags.begin + Innermost.numTags + 2
       /\ tags.pos = tags.begin + 1 + Len(Innermost.put)
       /\ tags.begin + Align(Innermost.numTags + 2) <= args.pos
       /\ tags.begin % 4 = 0
       /\ Innermost.first + 4 <= tags.begin
  BY <1>3, <1>10 DEF TagArea
<1>14. Innermost.numTags + 2 <= Align(Innermost.numTags + 2)
       /\ Align(Innermost.numTags + 2) \in Nat
  BY <1>8, TagBytes
<1>15. \A i \in 0 .. (args.pos \div 4 - 1) :
         4 * i < tags.begin => args'.data[i] = args.data[i]
  <2> TAKE i \in 0 .. (args.pos \div 4 - 1)
  <2>1. 4 * i < tags.begin => i # tags.pos \div 4
    BY <1>4, <1>6, <1>11
  <2> QED
    BY <1>1, <2>1 DEF KeptButTag
<1>16. Types'
  <2>1. args'.ok = TRUE /\ messageOpen' => tags'.end <= capacity
    <3>1. \A b, m, a, p, c \in Nat : m + 2 <= a /\ b + a <= p /\ p <= c => b + m + 2 <= c
      OBVIOUS
    <3>2. tags'.end = tags.begin + Innermost.numTags + 2
      BY <1>12, <1>13
    <3>3. tags.begin + Align(Innermost.numTags + 2) <= args.pos /\ args.pos <= capacity
      BY <1>4, <1>13
    <3>4. args.pos \in Nat /\ capacity \in Nat /\ tags.begin \in Nat
      BY <1>4, <1>11
    <3> QED
      BY <1>8, <1>14, <3>1, <3>2, <3>3, <3>4
  <2>2. needed' \in Nat
    BY <1>2, <1>9, Needed
  <2>3. /\ sizePosM' \in (0 .. capacity) \cup {Null}
        /\ sizePosB' \in (0 .. capacity) \cup {Null}
    BY <1>2, Sizes
  <2>4. inBundle' \in 0 .. MaxDepth
    BY <1>2 DEF PacketInv, Types, TypeOK
  <2> QED
    BY <1>2, <1>5, <1>12, <2>1, <2>2, <2>3, <2>4, TypesFollow
<1>17. SizesMatch'
  <2>1. ASSUME NEW e \in closed, e.slot # Null
        PROVE  args'.data[e.slot \div 4] = args.data[e.slot \div 4]
    <3>1. /\ e.slot \in Nat /\ e.slot % 4 = 0 /\ e.first = e.slot + 4
          /\ e.slot \div 4 \in 0 .. (args.pos \div 4 - 1)
          /\ e.first + 8 <= e.last
          /\ e.last \in Nat
      BY <1>2, <2>1, ClosedSlots
    <3>2. inBundle > 0 /\ e.last <= Innermost.slot
      BY <1>6
    <3>3. e.slot < tags.begin
      <4>1. \A x, l, y, b \in Nat : x + 4 + 8 <= l /\ l <= y /\ y + 4 < b => x < b
        OBVIOUS
      <4>2. e.slot + 4 + 8 <= e.last /\ e.slot \in Nat /\ e.last \in Nat
        BY <3>1
      <4>3. Innermost.slot + 4 < tags.begin /\ Innermost.slot \in Nat
        BY <1>6, <3>2
      <4> QED
        BY <1>6, <3>2, <4>1, <4>2, <4>3
    <3>4. 4 * (e.slot \div 4) < tags.begin
      BY <1>6, <3>1, <3>3, WordStart
    <3> QED
      BY <1>15, <3>1, <3>4
  <2> QED
    BY <1>2, <2>1, SizesStay
<1>18. SizesPredicted'
  <2>1. needed' = args.pos + ArgBytes(arg)
    BY <1>2, Needed
  <2>2. args'.ok = TRUE => args'.pos = needed'
    BY <1>1, <2>1
  <2>3. ASSUME aligned = TRUE, needed' <= capacity, args'.ok # TRUE
        PROVE  messageOpen' /\ Len(Innermost'.put) > Innermost'.numTags + 1
    <3>1. ~Room
      BY <1>1, <2>1, <2>3
    <3>2. tags.pos >= tags.end
      BY <1>11, <3>1 DEF Room
    <3>3. Len(Innermost.put) >= Innermost.numTags + 1
      BY <1>8, <1>11, <1>13, <3>2
    <3> QED
      BY <1>3, <1>7, <1>8, <3>3
  <2> QED
    BY <1>2, <1>5, <2>2, <2>3, Needed DEF SizesPredicted
<1>19. NumbersAligned'
  <2>1. ASSUME ~aligned, NEW i \in 0 .. (capacity \div 4 - 1)
        PROVE  args'.data[i] = args.data[i] \/ Numberless(args'.data[i])
    <3>1. NewNumbers = {}
      BY <2>1 DEF NewNumbers
    <3>2. \/ args'.data[i] = args.data[i]
          \/ TagWord(args'.data[i])
          \/ args'.data[i] \in TextWords
      BY <1>1, <3>1 DEF NewWords
    <3> QED
      BY <3>2, NumberlessWords
  <2> QED
    BY <1>2, <1>5, <2>1, StaysNumberless
<1>20. ASSUME args'.ok = TRUE
       PROVE  Places'
  <2>1. Room /\ args'.pos = args.pos + ArgBytes(arg)
    BY <1>1, <1>20
  <2>2. OpenNest'
    <3>1. \A i \in 1 .. Len(open) :
            /\ open'[i].kind = IF i <= inBundle THEN "bundle" ELSE "message"
            /\ open'[i].first % 4 = 0
            /\ i = 1 => open'[i].slot = Null /\ open'[i].first = 0
            /\ i > 1 => open'[i].slot \in Nat /\ open'[i].first = open'[i].slot + 4
            /\ open'[i].first + (IF i <= inBundle THEN SizeBundle ELSE 8) <= args'.pos
      <4> TAKE i \in 1 .. Len(open)
      <4>1. /\ open[i].kind = IF i <= inBundle THEN "bundle" ELSE "message"
            /\ open[i].first % 4 = 0
            /\ i = 1 => open[i].slot = Null /\ open[i].first = 0
            /\ i > 1 => open[i].slot \in Nat /\ open[i].first = open[i].slot + 4
            /\ open[i].first + (IF i <= inBundle THEN SizeBundle ELSE 8) <= args.pos
        BY <1>10 DEF OpenNest
      <4>2. open[i].first \in Nat
        <5>1. open[i] \in Element
          BY <1>6
        <5> QED
          BY <5>1 DEF Element
      <4>3. open[i].first + (IF i <= inBundle THEN SizeBundle ELSE 8) <= args'.pos
        <5>1. \A f, p, q \in Nat : \A h \in {8, 16} : f + h <= p /\ p <= q => f + h <= q
          OBVIOUS
        <5>2. (IF i <= inBundle THEN SizeBundle ELSE 8) \in {8, 16}
          BY DEF SizeBundle
        <5> QED
          BY <1>1, <1>4, <1>5, <4>1, <4>2, <5>1, <5>2
      <4> QED
        BY <1>7, <4>1, <4>3
    <3>2. \A i, j \in 1 .. Len(open) :
            i < j => open'[i].first + SizeBundle <= open'[j].slot
      BY <1>7, <1>10 DEF OpenNest
    <3> QED
      BY <1>2, <1>4, <1>6, <1>7, <3>1, <3>2 DEF OpenNest
  <2>3. Innermost'.first = Innermost.first /\ Innermost'.slot = Innermost.slot
    <3>1. Len(open) \in 1 .. Len(open)
      BY <1>4, <1>6
    <3> QED
      BY <1>7, <3>1 DEF Innermost
  <2>4. TagArea'
    <3>1. tags'.pos = tags'.begin + 1 + Len(Innermost'.put)
      BY <1>7, <1>8, <1>11, <1>12, <1>13, <2>1
    <3>2. tags.begin + Align(Innermost.numTags + 2) <= args'.pos
      BY <1>1, <1>4, <1>5, <1>11, <1>13, <1>14
    <3>3. ASSUME NEW i \in 0 .. (capacity \div 4 - 1),
                 tags.begin <= 4 * i, 4 * i < tags.begin + Align(Innermost.numTags + 2)
          PROVE  TagWord(args'.data[i])
      <4>1. TagWord(args.data[i])
        BY <1>3, <1>10, <3>3 DEF TagArea
      <4>2. i \in 0 .. (args.pos \div 4 - 1)
        <5>1. args.pos \in Nat /\ args.pos % 4 = 0 /\ i \in Nat
          BY <1>4
        <5>2. 4 * i < args.pos
          <6>1. /\ 4 * i < tags.begin + Align(Innermost.numTags + 2)
                /\ tags.begin + Align(Innermost.numTags + 2) <= args.pos
                /\ tags.begin \in Nat /\ Align(Innermost.numTags + 2) \in Nat
            BY <1>11, <1>13, <1>14, <3>3
          <6> QED
            BY ONLY <5>1, <6>1
        <5>3. \A x, p \in Nat : 4 * x < p /\ p % 4 = 0 => x \in 0 .. (p \div 4 - 1)
          OBVIOUS
        <5> QED
          BY ONLY <5>1, <5>2, <5>3
      <4> QED
        BY <1>1, <4>1, <4>2
    <3> QED
      BY <1>2, <1>7, <1>12, <1>13, <2>3, <3>1, <3>2, <3>3 DEF TagArea
  <2>5. SlotList'
    <3>1. \A i \in 1 .. Len(open) : SlotOf(i)' = SlotOf(i)
      BY <1>7 DEF SlotOf
    <3>2. ASSUME NEW i \in 2 .. inBundle
          PROVE  args'.data[open'[i].slot \div 4] = Offset(SlotOf(i - 1)')
      <4>1. i \in 1 .. Len(open) /\ i - 1 \in 1 .. Len(open) /\ i < Len(open) /\ i > 1
            /\ Len(open) \in 1 .. Len(open) /\ i <= inBundle
        BY <1>4, <1>6
      <4>2. /\ open[i].slot \in Nat
            /\ open[i].first = open[i].slot + 4
            /\ open[i].first % 4 = 0
            /\ open[i].first + SizeBundle <= args.pos
            /\ open[i].first + SizeBundle <= Innermost.slot
        BY <1>10, <4>1 DEF OpenNest, Innermost
      <4>3. open[i].slot \div 4 \in 0 .. (args.pos \div 4 - 1)
            /\ 4 * (open[i].slot \div 4) = open[i].slot
        BY <1>4, <4>2 DEF SizeBundle
      <4>4. open[i].slot < tags.begin
        <5>1. \A x, y, b \in Nat : x + 4 + 16 <= y /\ y + 4 < b => x < b
          OBVIOUS
        <5>2. open[i].slot + 4 + 16 <= Innermost.slot
          BY <4>2 DEF SizeBundle
        <5>3. inBundle > 0
          BY <1>4, <4>1
        <5>4. Innermost.slot \in Nat /\ Innermost.slot + 4 < tags.begin
          BY <1>6, <5>3
        <5> QED
          BY <1>6, <4>2, <5>1, <5>2, <5>4
      <4>5. args'.data[open[i].slot \div 4] = args.data[open[i].slot \div 4]
        BY <1>15, <4>3, <4>4
      <4>6. args.data[open[i].slot \div 4] = Offset(SlotOf(i - 1))
        BY <1>10 DEF SlotList
      <4> QED
        BY <1>7, <3>1, <4>1, <4>5, <4>6
    <3>3. inBundle > 1 => open'[inBundle].slot = open[inBundle].slot
      BY <1>4, <1>6, <1>7
    <3> QED
      BY <1>2, <1>7, <1>10, <2>3, <3>2, <3>3 DEF SlotList
  <2>6. ClosedPlaces'
    <3> SUFFICES ASSUME NEW e \in closed
                 PROVE  (/\ e \in Element
                         /\ e.last \in Nat
                         /\ e.first % 4 = 0
                         /\ e.slot # Null => e.first = e.slot + 4
                         /\ e.slot = Null => open = << >> /\ e.first = 0
                         /\ e.first + 8 <= e.last
                         /\ e.last <= args.pos
                         /\ \A i \in 1 .. Len(open) : Beside(e, i) \/ Within(e, i))'
      BY <1>2 DEF ClosedPlaces
    <3>1. /\ e \in Element
          /\ e.last \in Nat
          /\ e.first % 4 = 0
          /\ e.slot # Null => e.first = e.slot + 4
          /\ e.slot = Null => open = << >>
          /\ e.first + 8 <= e.last
          /\ e.last <= args.pos
          /\ \A i \in 1 .. Len(open) : Beside(e, i) \/ Within(e, i)
      BY <1>10 DEF ClosedPlaces
    <3>2. e.slot # Null
      BY <1>6, <3>1
    <3>3. e.last <= args'.pos
      BY <1>1, <1>4, <1>5, <3>1
    <3>4. ASSUME NEW i \in 1 .. Len(open')
          PROVE  (Beside(e, i) \/ Within(e, i))'
      BY <1>2, <1>7, <3>1 DEF Beside, Within
    <3> QED
      BY <3>1, <3>2, <3>3, <3>4
  <2> QED
    BY <2>2, <2>4, <2>5, <2>6 DEF Places
<1> QED
  BY <1>16, <1>17, <1>18, <1>19, <1>20 DEF PacketInv

-----------------------------------------------------------------------------
(* Closing an element: its size goes into its slot, if it has one.         *)
LEMMA ClosingWrites ==
  ASSUME PacketInv, args.ok = TRUE, open # << >>, NEW n, n = Len(open),
         NEW slot, slot = open[n].slot, capacity' = capacity, aligned' = aligned,
         args' = IF n > 1 THEN PutSize(args, slot) ELSE args
  PROVE  /\ n \in Nat /\ n >= 1
         /\ n > 1 => slot \in Nat /\ slot % 4 = 0 /\ slot + 12 <= args.pos
         /\ IsStream(args)'
         /\ args'.ok = TRUE <=> n = 1 \/ aligned = TRUE
         /\ args'.ok = TRUE => args'.pos = args.pos
         /\ args'.ok = TRUE /\ n > 1 => args'.data[slot \div 4] = Size(args.pos - slot - 4)
         /\ \A i \in 0 .. (capacity \div 4 - 1) :
              args'.data[i] = args.data[i]
                \/ (n > 1 /\ i = slot \div 4 /\ aligned = TRUE)
<1>1. /\ capacity \in Nat /\ IsStream(args)
      /\ args.pos \in Nat /\ args.pos <= capacity /\ args.pos % 4 = 0
  BY Sizes
<1>2. OpenNest
  BY DEF PacketInv, Places
<1>3. open \in Seq(Element)
  BY <1>2 DEF OpenNest
<1>4. n \in Nat /\ n >= 1
  BY <1>3
<1>5. aligned \in BOOLEAN
  BY Needed
<1>6. CASE n = 1
  <2>1. args' = args
    BY <1>6
  <2>2. IsStream(args)'
    BY <1>1, <2>1 DEF IsStream
  <2> QED
    BY <1>4, <1>6, <2>1, <2>2
<1>7. CASE n > 1
  <2>1. n \in 1 .. Len(open)
    BY <1>4
  <2>2. /\ slot \in Nat
        /\ open[n].first = slot + 4
        /\ open[n].first % 4 = 0
        /\ open[n].first + 8 <= args.pos
    <3>1. /\ open[n].first % 4 = 0
          /\ open[n].slot \in Nat /\ open[n].first = open[n].slot + 4
          /\ open[n].first + (IF n <= inBundle THEN SizeBundle ELSE 8) <= args.pos
      BY <1>2, <1>7, <2>1 DEF OpenNest
    <3> QED
      BY <1>1, <3>1 DEF SizeBundle
  <2>3. slot % 4 = 0 /\ slot + 12 <= args.pos /\ slot + 4 <= args.pos
    BY ONLY <1>1, <2>2
  <2>4. args' = PutSize(args, slot)
    BY <1>7
  <2>5. CASE aligned = TRUE
    <3>1. /\ IsStream(args')
          /\ args'.ok = TRUE
          /\ args'.pos = args.pos
          /\ args'.data[slot \div 4] = Size(args.pos - slot - 4)
          /\ \A i \in 0 .. (capacity \div 4 - 1) :
               i # slot \div 4 => args'.data[i] = args.data[i]
      <4>1. slot \in Nat
        BY <2>2
      <4>2. slot % 4 = 0 /\ slot + 4 <= args.pos
        BY <2>3
      <4>3. IsStream(args) /\ capacity \in Nat
        BY <1>1
      <4>4. WroteSize(args, slot, PutSize(args, slot))
        BY <2>5, <4>1, <4>2, <4>3, PutSizeFits
      <4> QED
        BY <2>4, <4>4 DEF WroteSize
    <3>2. IsStream(args)'
      BY <3>1 DEF IsStream
    <3> QED
      BY <1>4, <1>7, <2>2, <2>3, <2>5, <3>1, <3>2
  <2>6. CASE aligned = FALSE
    <3>1. /\ IsStream(args')
          /\ args'.ok = FALSE
          /\ args'.data = args.data
      <4>1. slot \in Nat
        BY <2>2
      <4>2. slot % 4 = 0 /\ slot + 4 <= args.pos
        BY <2>3
      <4>3. IsStream(args) /\ capacity \in Nat
        BY <1>1
      <4>4. RefusedSize(args, slot, PutSize(args, slot))
        BY <2>6, <4>1, <4>2, <4>3, PutSizeFails
      <4> QED
        BY <2>4, <4>4 DEF RefusedSize
    <3>2. IsStream(args)'
      BY <3>1 DEF IsStream
    <3> QED
      BY <1>4, <1>7, <2>2, <2>3, <2>6, <3>1, <3>2
  <2> QED
    BY <1>5, <2>5, <2>6
<1>8. n = 1 \/ n > 1
  BY <1>4
<1> QED
  BY <1>6, <1>7, <1>8

LEMMA Closes ==
  ASSUME PacketInv, args.ok = TRUE, open # << >>, NEW n, n = Len(open),
         NEW slot, slot = open[n].slot, capacity' = capacity, aligned' = aligned,
         args' = IF n > 1 THEN PutSize(args, slot) ELSE args,
         args'.ok = TRUE, Close, inBundle' = n - 1,
         inBundle' > 1 => sizePosB' = open[inBundle'].slot,
         inBundle' <= 1 => sizePosB' \in {Null, 0}
  PROVE  /\ SizesMatch' /\ NumbersAligned' /\ Places'
         /\ ~messageOpen'
<1> DEFINE c == [Innermost EXCEPT !.last = args.pos]
<1>1. /\ capacity \in Nat /\ IsStream(args)
      /\ args.pos \in Nat /\ args.pos <= capacity /\ args.pos % 4 = 0
      /\ inBundle \in Nat
  BY Sizes
<1>2. /\ n \in Nat /\ n >= 1
      /\ n > 1 => slot \in Nat /\ slot % 4 = 0 /\ slot + 12 <= args.pos
      /\ IsStream(args)'
      /\ n = 1 \/ aligned = TRUE
      /\ args'.pos = args.pos
      /\ n > 1 => args'.data[slot \div 4] = Size(args.pos - slot - 4)
      /\ \A i \in 0 .. (capacity \div 4 - 1) :
           args'.data[i] = args.data[i]
             \/ (n > 1 /\ i = slot \div 4 /\ aligned = TRUE)
  BY ClosingWrites
<1>3. OpenNest /\ SlotList /\ ClosedPlaces
  BY DEF PacketInv, Places
<1>4. /\ open \in Seq(Element)
      /\ n \in {inBundle, inBundle + 1}
      /\ Innermost \in Element /\ Innermost = open[n]
      /\ n \in 1 .. Len(open)
  BY <1>2, <1>3, InnermostIsElement DEF OpenNest, Innermost
<1>5. /\ open[n].first % 4 = 0 /\ open[n].first \in Nat
      /\ n = 1 => slot = Null /\ open[n].first = 0
      /\ n > 1 => open[n].first = slot + 4
      /\ open[n].first + 8 <= args.pos
  <2>1. /\ open[n].first % 4 = 0
        /\ n = 1 => open[n].slot = Null /\ open[n].first = 0
        /\ n > 1 => open[n].first = open[n].slot + 4
        /\ open[n].first + (IF n <= inBundle THEN SizeBundle ELSE 8) <= args.pos
    BY <1>3, <1>4 DEF OpenNest
  <2>2. open[n].first \in Nat
    BY <1>4 DEF Element
  <2>3. open[n].first + 8 <= args.pos
    <3>1. \A f, p \in Nat : \A h \in {8, 16} : f + h <= p => f + 8 <= p
      OBVIOUS
    <3>2. (IF n <= inBundle THEN SizeBundle ELSE 8) \in {8, 16}
      BY DEF SizeBundle
    <3> QED
      BY <1>1, <2>1, <2>2, <3>1, <3>2
  <2> QED
    BY <2>1, <2>2, <2>3
<1>6. /\ c \in Element
      /\ c.last = args.pos
      /\ c.slot = slot
      /\ c.first = open[n].first
  BY <1>1, <1>4 DEF Element
<1>7. /\ open' = SubSeq(open, 1, n - 1)
      /\ closed' = closed \cup {c}
  BY DEF Close
<1> HIDE DEF c
<1>8. /\ open' \in Seq(Element)
      /\ Len(open') = n - 1
      /\ \A i \in 1 .. n - 1 : open'[i] = open[i]
  BY <1>2, <1>4, <1>7
<1>9. \A i \in 1 .. n - 1 :
        /\ i \in 1 .. Len(open) /\ i <= inBundle /\ i < n
        /\ open[i].kind = "bundle"
  <2> TAKE i \in 1 .. n - 1
  <2>1. i \in 1 .. Len(open) /\ i <= inBundle /\ i < n
    BY <1>1, <1>2, <1>4
  <2> QED
    BY <1>3, <2>1 DEF OpenNest
<1>10. ~messageOpen'
  <2>1. CASE n = 1
    <3>1. open' = << >>
      BY <1>8, <2>1
    <3> QED
      BY <3>1 DEF messageOpen
  <2>2. CASE n > 1
    <3>1. n - 1 \in 1 .. n - 1
      BY <1>2, <2>2
    <3>2. Innermost' = open[n - 1]
      BY <1>8, <3>1 DEF Innermost
    <3> QED
      BY <1>9, <3>1, <3>2 DEF messageOpen
  <2> QED
    BY <1>2, <2>1, <2>2
(* An element closed before lies before the slot or behind the header.     *)
<1>11. ASSUME NEW e \in closed
       PROVE  /\ e.slot \in Nat
              /\ n > 1 => e.slot \div 4 # slot \div 4
              /\ args'.data[e.slot \div 4] = args.data[e.slot \div 4]
  <2>1. /\ e.first \in Nat /\ e.last \in Nat
        /\ e.first + 8 <= e.last /\ e.last <= args.pos
        /\ e.slot # Null => /\ e.slot \in Nat /\ e.slot % 4 = 0
                            /\ e.first = e.slot + 4
                            /\ e.slot \div 4 \in 0 .. (args.pos \div 4 - 1)
        /\ e.slot = Null => open = << >>
    BY ClosedSlots
  <2>2. e.slot # Null
    BY <2>1
  <2>3. Beside(e, n) \/ Within(e, n)
    BY <1>3, <1>4 DEF ClosedPlaces
  <2>4. n > 1 => e.slot # slot
    <3>1. SUFFICES ASSUME n > 1, e.slot = slot PROVE FALSE
      OBVIOUS
    <3>2. slot \in Nat /\ open[n].first = slot + 4
      BY <1>2, <1>5, <3>1
    <3>3. e.first = slot + 4 /\ e.first + 8 <= e.last /\ e.last \in Nat
      BY <2>1, <2>2, <3>1
    <3>4. ~Beside(e, n)
      BY <3>2, <3>3 DEF Beside
    <3>5. ~Within(e, n)
      BY <3>1, <3>2 DEF Within, SizeBundle
    <3> QED
      BY <2>3, <3>4, <3>5
  <2>5. n > 1 => e.slot \div 4 # slot \div 4
    <3>1. e.slot \in Nat /\ e.slot % 4 = 0
      BY <2>1, <2>2
    <3>2. n > 1 => slot \in Nat /\ slot % 4 = 0
      BY <1>2
    <3> QED
      BY <2>4, <3>1, <3>2, WordsDiffer
  <2>6. e.slot \div 4 \in 0 .. (capacity \div 4 - 1)
    <3>1. \A x, l, p, q \in Nat : x + 4 + 8 <= l /\ l <= p /\ p <= q => x + 4 <= q
      OBVIOUS
    <3>2. e.slot \in Nat /\ e.slot % 4 = 0 /\ e.slot + 4 + 8 <= e.last
          /\ e.last \in Nat /\ e.last <= args.pos
      BY <2>1, <2>2
    <3>3. e.slot + 4 <= capacity
      BY <1>1, <3>1, <3>2
    <3> QED
      BY <1>1, <3>2, <3>3, WordInside
  <2> QED
    BY <1>2, <2>1, <2>2, <2>5, <2>6
<1>12. SizesMatch'
  <2> SUFFICES ASSUME NEW e \in closed \cup {c}, e.slot # Null
               PROVE  /\ e.first = e.slot + 4
                      /\ args'.data[e.slot \div 4] = Size(e.last - e.first)
    BY <1>7 DEF SizesMatch
  <2>1. CASE e \in closed
    <3>1. /\ e.first = e.slot + 4
          /\ args.data[e.slot \div 4] = Size(e.last - e.first)
      BY <2>1 DEF PacketInv, SizesMatch
    <3> QED
      BY <1>11, <2>1, <3>1
  <2>2. CASE e = c
    <3>1. n > 1
      BY <1>2, <1>5, <1>6, <2>2
    <3>2. args.pos - slot - 4 = e.last - e.first /\ e.first = e.slot + 4
      <4>1. e.first = slot + 4 /\ e.slot = slot /\ e.last = args.pos
        BY <1>5, <1>6, <2>2, <3>1
      <4>2. slot \in Nat /\ args.pos \in Nat
        BY <1>1, <1>2, <3>1
      <4> QED
        BY <4>1, <4>2
    <3> QED
      BY <1>2, <1>6, <2>2, <3>1, <3>2
  <2> QED
    BY <2>1, <2>2
<1>13. NumbersAligned'
  <2> SUFFICES ASSUME ~aligned
               PROVE  /\ \A i \in DOMAIN args'.data : Numberless(args'.data[i])
                      /\ \A e \in closed \cup {c} : e.slot = Null
    BY <1>7 DEF NumbersAligned, Numberless
  <2>1. n = 1
    BY <1>2
  <2>2. /\ \A i \in DOMAIN args.data : Numberless(args.data[i])
        /\ \A e \in closed : e.slot = Null
    BY DEF PacketInv, NumbersAligned, Numberless
  <2>3. args' = args
    BY <2>1
  <2> QED
    BY <1>5, <1>6, <2>1, <2>2, <2>3
<1>14. OpenNest'
  <2>1. Len(open') \in {inBundle', inBundle' + 1}
    BY <1>8
  <2>2. \A i \in 1 .. Len(open') :
          /\ open'[i].kind = IF i <= inBundle' THEN "bundle" ELSE "message"
          /\ open'[i].first % 4 = 0
          /\ i = 1 => open'[i].slot = Null /\ open'[i].first = 0
          /\ i > 1 => open'[i].slot \in Nat /\ open'[i].first = open'[i].slot + 4
          /\ open'[i].first + (IF i <= inBundle' THEN SizeBundle ELSE 8) <= args'.pos
    <3> TAKE i \in 1 .. Len(open')
    <3>1. i \in 1 .. n - 1 /\ i <= inBundle'
      BY <1>2, <1>8
    <3>2. i \in 1 .. Len(open) /\ i <= inBundle /\ open'[i] = open[i]
      BY <1>8, <1>9, <3>1
    <3>3. /\ open[i].kind = "bundle"
          /\ open[i].first % 4 = 0
          /\ i = 1 => open[i].slot = Null /\ open[i].first = 0
          /\ i > 1 => open[i].slot \in Nat /\ open[i].first = open[i].slot + 4
          /\ open[i].first + SizeBundle <= args.pos
      BY <1>3, <3>2 DEF OpenNest
    <3> QED
      BY <1>2, <3>1, <3>2, <3>3
  <2>3. \A i, j \in 1 .. Len(open') :
          i < j => open'[i].first + SizeBundle <= open'[j].slot
    BY <1>3, <1>8, <1>9 DEF OpenNest
  <2> QED
    BY <1>8, <2>1, <2>2, <2>3 DEF OpenNest
<1>15. TagArea'
  BY <1>10 DEF TagArea
<1>16. SlotList'
  <2>1. inBundle' > 1 => sizePosB' = open'[inBundle'].slot
    BY <1>2, <1>8
  <2>2. ASSUME NEW i \in 2 .. inBundle'
        PROVE  args'.data[open'[i].slot \div 4] = Offset(SlotOf(i - 1)')
    <3>1. i \in 1 .. n - 1 /\ i - 1 \in 1 .. n - 1 /\ i \in 2 .. inBundle /\ n > 1 /\ i > 1
      BY <1>1, <1>2, <1>4, <2>2
    <3>2. open'[i] = open[i] /\ SlotOf(i - 1)' = SlotOf(i - 1)
      BY <1>8, <3>1 DEF SlotOf
    <3>3. args.data[open[i].slot \div 4] = Offset(SlotOf(i - 1))
      BY <1>3, <3>1 DEF SlotList
    <3>4. i \in 1 .. Len(open) /\ i < n
      BY <1>9, <3>1
    <3>5. /\ open[i].slot \in Nat /\ open[i].first = open[i].slot + 4
          /\ open[i].first % 4 = 0
          /\ open[i].first + SizeBundle <= slot
      BY <1>3, <1>4, <3>1, <3>4 DEF OpenNest
    <3>6. /\ open[i].slot \div 4 \in 0 .. (capacity \div 4 - 1)
          /\ open[i].slot \div 4 # slot \div 4
      <4>1. open[i].slot \in Nat /\ open[i].slot + 20 <= slot /\ open[i].slot % 4 = 0
        BY ONLY <3>5 DEF SizeBundle
      <4>2. slot \in Nat /\ slot % 4 = 0 /\ slot + 12 <= args.pos
        BY <1>2, <3>1
      <4>3. open[i].slot # slot /\ open[i].slot + 4 <= capacity
        <5>1. args.pos \in Nat /\ capacity \in Nat /\ args.pos <= capacity
          BY <1>1
        <5>2. \A x, y, p, q \in Nat :
                x + 20 <= y /\ y + 12 <= p /\ p <= q => x # y /\ x + 4 <= q
          OBVIOUS
        <5> QED
          BY ONLY <4>1, <4>2, <5>1, <5>2
      <4>4. open[i].slot \div 4 \in 0 .. (capacity \div 4 - 1)
        BY <1>1, <4>1, <4>3, WordInside
      <4> QED
        BY <4>1, <4>2, <4>3, <4>4, WordsDiffer
    <3>7. args'.data[open[i].slot \div 4] = args.data[open[i].slot \div 4]
      BY <1>2, <3>6
    <3> QED
      BY <3>2, <3>3, <3>7
  <2> QED
    BY <1>10, <2>1, <2>2 DEF SlotList
<1>17. ClosedPlaces'
  <2> SUFFICES ASSUME NEW e \in closed \cup {c}
               PROVE  (/\ e \in Element
                       /\ e.last \in Nat
                       /\ e.first % 4 = 0
                       /\ e.slot # Null => e.first = e.slot + 4
                       /\ e.slot = Null => open = << >> /\ e.first = 0
                       /\ e.first + 8 <= e.last
                       /\ e.last <= args.pos
                       /\ \A i \in 1 .. Len(open) : Beside(e, i) \/ Within(e, i))'
    BY <1>7 DEF ClosedPlaces
  <2>1. CASE e \in closed
    <3>1. /\ e \in Element
          /\ e.last \in Nat
          /\ e.first % 4 = 0
          /\ e.slot # Null => e.first = e.slot + 4
          /\ e.slot = Null => open = << >>
          /\ e.first + 8 <= e.last
          /\ e.last <= args.pos
          /\ \A i \in 1 .. Len(open) : Beside(e, i) \/ Within(e, i)
      BY <1>3, <2>1 DEF ClosedPlaces
    <3>2. ASSUME NEW i \in 1 .. Len(open')
          PROVE  (Beside(e, i) \/ Within(e, i))'
      <4>1. i \in 1 .. n - 1 /\ i <= inBundle'
        BY <1>2, <1>8
      <4>2. i \in 1 .. Len(open) /\ open'[i] = open[i]
        BY <1>8, <1>9, <4>1
      <4>3. Beside(e, i) \/ Within(e, i)
        BY <3>1, <4>2
      <4> QED
        BY <4>1, <4>2, <4>3 DEF Beside, Within
    <3> QED
      BY <1>2, <3>1, <3>2
  <2>2. CASE e = c
    <3>1. e.slot = Null => open' = << >> /\ e.first = 0
      <4>1. e.slot = Null => n = 1
        BY CallerAssumption, <1>2, <1>6, <2>2
      <4> QED
        BY <1>5, <1>6, <1>8, <2>2, <4>1
    <3>2. e.slot # Null => e.first = e.slot + 4
      BY <1>2, <1>5, <1>6, <2>2
    <3>3. ASSUME NEW i \in 1 .. Len(open')
          PROVE  Within(e, i)'
      <4>1. i \in 1 .. n - 1 /\ i <= inBundle'
        BY <1>2, <1>8
      <4>2. i \in 1 .. Len(open) /\ open'[i] = open[i] /\ i < n
        BY <1>8, <1>9, <4>1
      <4>3. open[i].first + SizeBundle <= slot
        BY <1>3, <1>4, <4>2 DEF OpenNest
      <4>4. open[i].first \in Nat /\ slot \in Nat
        <5>1. open[i] \in Element
          BY <1>4, <4>2
        <5>2. n > 1
          BY <1>2, <4>1
        <5> QED
          BY <1>2, <5>1, <5>2 DEF Element
      <4> QED
        BY <1>6, <2>2, <4>1, <4>2, <4>3, <4>4 DEF Within, SizeBundle
    <3>4. e \in Element /\ e.last \in Nat /\ e.first % 4 = 0
          /\ e.first + 8 <= e.last /\ e.last <= args'.pos
      BY <1>1, <1>2, <1>5, <1>6, <2>2
    <3> QED
      BY <3>1, <3>2, <3>3, <3>4
  <2> QED
    BY <2>1, <2>2
<1> QED
  BY <1>10, <1>12, <1>13, <1>14, <1>15, <1>16, <1>17 DEF Places

(* Closing in a buffer that is not aligned: nothing is written.            *)
LEMMA ClosingFails ==
  ASSUME PacketInv, args.ok = TRUE, open # << >>, NEW n, n = Len(open),
         NEW slot, slot = open[n].slot, capacity' = capacity, aligned' = aligned,
         args' = IF n > 1 THEN PutSize(args, slot) ELSE args,
         args'.ok # TRUE, tags' = tags, closed' = closed, sizePosM' = sizePosM,
         sizePosB' = sizePosB, inBundle' = inBundle, needed' = needed
  PROVE  PacketInv'
<1>1. /\ n > 1 => slot \in Nat
      /\ IsStream(args)'
      /\ ~(n = 1 \/ aligned = TRUE)
      /\ \A i \in 0 .. (capacity \div 4 - 1) : args'.data[i] = args.data[i]
  <2>1. /\ n > 1 => slot \in Nat /\ slot % 4 = 0 /\ slot + 12 <= args.pos
        /\ IsStream(args)'
        /\ args'.ok = TRUE <=> n = 1 \/ aligned = TRUE
        /\ \A i \in 0 .. (capacity \div 4 - 1) :
             args'.data[i] = args.data[i]
               \/ (n > 1 /\ i = slot \div 4 /\ aligned = TRUE)
    BY ClosingWrites
  <2> QED
    BY <2>1
<1>2. args'.ok = FALSE
  BY <1>1 DEF IsStream
<1>3. Types'
  <2>1. /\ tags' \in [begin : Nat, end : Nat, pos : Nat]
        /\ tags'.begin <= tags'.pos /\ tags'.pos <= tags'.end
    BY DEF PacketInv, Types, TypeOK
  <2>2. /\ sizePosM' \in (0 .. capacity) \cup {Null}
        /\ sizePosB' \in (0 .. capacity) \cup {Null}
    BY Sizes
  <2>3. inBundle' \in 0 .. MaxDepth /\ needed' \in Nat
    BY DEF PacketInv, Types, TypeOK
  <2> QED
    BY <1>1, <1>2, <2>1, <2>2, <2>3, TypesFollow
<1>4. SizesMatch'
  <2>1. \A e \in closed : e.slot # Null =>
          e.slot \div 4 \in 0 .. (capacity \div 4 - 1)
    <3> SUFFICES ASSUME NEW e \in closed, e.slot # Null
                 PROVE  e.slot \div 4 \in 0 .. (capacity \div 4 - 1)
      OBVIOUS
    <3>1. e.slot \div 4 \in 0 .. (args.pos \div 4 - 1)
      BY ClosedSlots
    <3>2. args.pos \in Nat /\ capacity \in Nat /\ args.pos <= capacity
      BY Sizes
    <3> QED
      BY <3>1, <3>2
  <2> QED
    BY <1>1, <2>1, SizesStay
<1>5. SizesPredicted'
  BY <1>1, <1>2 DEF SizesPredicted
<1>6. NumbersAligned'
  BY <1>1, StaysNumberless
<1> QED
  BY <1>2, <1>3, <1>4, <1>5, <1>6 DEF PacketInv

(* ... and closing one that succeeds.                                      *)
LEMMA ClosingKeeps ==
  ASSUME PacketInv, args.ok = TRUE, open # << >>, NEW n, n = Len(open),
         NEW slot, slot = open[n].slot, capacity' = capacity, aligned' = aligned,
         args' = IF n > 1 THEN PutSize(args, slot) ELSE args,
         args'.ok = TRUE, Close, inBundle' = n - 1,
         inBundle' > 1 => sizePosB' = open[inBundle'].slot,
         inBundle' <= 1 => sizePosB' \in {Null, 0},
         tags' \in [begin : Nat, end : Nat, pos : Nat],
         tags'.begin <= tags'.pos, tags'.pos <= tags'.end,
         sizePosM' = sizePosM, needed' = needed
  PROVE  PacketInv'
<1>1. SizesMatch' /\ NumbersAligned' /\ Places' /\ ~messageOpen'
  BY Closes
<1>2. /\ n \in Nat /\ n >= 1
      /\ IsStream(args)'
      /\ args'.pos = args.pos
  BY ClosingWrites
<1>3. OpenNest /\ open \in Seq(Element) /\ capacity \in Nat
      /\ args.pos <= capacity /\ args.pos \in Nat
  BY Sizes DEF PacketInv, Places, OpenNest
<1>4. inBundle' \in 0 .. MaxDepth
  <2>1. n \in {inBundle, inBundle + 1}
    BY <1>3 DEF OpenNest
  <2>2. inBundle \in 0 .. MaxDepth
    BY DEF PacketInv, Types, TypeOK
  <2> QED
    BY <1>2, <2>1, <2>2, Sizes
<1>5. sizePosB' \in (0 .. capacity) \cup {Null}
  <2>1. CASE inBundle' > 1
    <3>1. inBundle' \in 1 .. Len(open)
      BY <1>2, <2>1
    <3>2. /\ open[inBundle'].slot \in Nat
          /\ open[inBundle'].first = open[inBundle'].slot + 4
          /\ open[inBundle'].first + (IF inBundle' <= inBundle THEN SizeBundle ELSE 8)
               <= args.pos
      BY <1>3, <2>1, <3>1 DEF OpenNest
    <3>3. \A x, p, q \in Nat : \A h \in {8, 16} : x + 4 + h <= p /\ p <= q => x \in 0 .. q
      OBVIOUS
    <3>4. (IF inBundle' <= inBundle THEN SizeBundle ELSE 8) \in {8, 16}
      BY DEF SizeBundle
    <3>5. open[inBundle'].slot \in 0 .. capacity
      BY <1>3, <3>2, <3>3, <3>4
    <3> QED
      BY <2>1, <3>5
  <2>2. CASE ~(inBundle' > 1)
    BY <1>2, <1>3, <2>2
  <2> QED
    BY <2>1, <2>2
<1>6. Types'
  <2>1. sizePosM' \in (0 .. capacity) \cup {Null} /\ needed' \in Nat
    BY Sizes, Needed
  <2> QED
    BY <1>1, <1>2, <1>4, <1>5, <2>1, TypesFollow
<1>7. SizesPredicted'
  <2>1. args'.pos = needed'
    BY <1>2, Needed
  <2> QED
    BY <2>1 DEF SizesPredicted
<1> QED
  BY <1>1, <1>6, <1>7 DEF PacketInv

LEMMA CloseBundleKeeps ==
  ASSUME PacketInv, CloseBundle
  PROVE  PacketInv'
<1> DEFINE n == inBundle
           slot == open[inBundle].slot
<1>1. /\ args.ok = TRUE /\ ~messageOpen /\ n > 0
      /\ capacity' = capacity /\ aligned' = aligned /\ tags' = tags
      /\ sizePosM' = sizePosM /\ needed' = needed
      /\ args' = IF n > 1 THEN PutSize(args, sizePosB) ELSE args
  BY Sizes DEF CloseBundle
<1>2. open \in Seq(Element) /\ Len(open) = n /\ n \in Nat
  BY <1>1, OnlyBundlesOpen, Sizes
<1>3. open # << >>
  BY <1>1, <1>2
<1>4. SlotList /\ OpenNest
  BY <1>1 DEF PacketInv, Places
<1>5. args' = IF n > 1 THEN PutSize(args, slot) ELSE args
  BY <1>1, <1>4 DEF SlotList
<1>6. CASE args'.ok = TRUE
  <2>1. /\ sizePosB' = IF n > 1 THEN Enclosing ELSE sizePosB
        /\ inBundle' = n - 1
        /\ Close
    BY <1>6 DEF CloseBundle
  <2>2. ASSUME n > 1
        PROVE  sizePosB' = SlotOf(n - 1)
    <3>1. n \in 2 .. inBundle
      BY <1>2, <2>2
    <3>2. args.data[slot \div 4] = Offset(SlotOf(n - 1))
      BY <1>4, <3>1 DEF SlotList
    <3>3. sizePosB = slot
      BY <1>4, <2>2 DEF SlotList
    <3>4. Enclosing = SlotOf(n - 1)
      BY <3>2, <3>3 DEF Enclosing, Offset
    <3> QED
      BY <2>1, <2>2, <3>4
  <2>3. inBundle' > 1 => sizePosB' = open[inBundle'].slot
    <3>1. SUFFICES ASSUME n - 1 > 1
                   PROVE  sizePosB' = open[n - 1].slot
      BY <2>1
    <3>2. n - 1 \in 1 .. Len(open) /\ n > 1
      BY <1>2, <3>1
    <3>3. open[n - 1].slot \in Nat
      BY <1>4, <3>1, <3>2 DEF OpenNest
    <3> QED
      BY CallerAssumption, <2>2, <3>2, <3>3 DEF SlotOf
  <2>4. inBundle' <= 1 => sizePosB' \in {Null, 0}
    <3>1. CASE n = 1
      BY <1>4, <2>1, <3>1 DEF SlotList
    <3>2. CASE n = 2
      <4>1. open[1].slot = Null
        BY <1>2, <1>4, <3>2 DEF OpenNest
      <4>2. sizePosB' = SlotOf(1)
        BY <2>2, <3>2
      <4> QED
        BY <4>1, <4>2 DEF SlotOf
    <3>3. inBundle' <= 1 => n = 1 \/ n = 2
      BY <1>1, <1>2, <2>1
    <3> QED
      BY <3>1, <3>2, <3>3
  <2>5. /\ tags' \in [begin : Nat, end : Nat, pos : Nat]
        /\ tags'.begin <= tags'.pos /\ tags'.pos <= tags'.end
    BY <1>1 DEF PacketInv, Types, TypeOK
  <2> HIDE DEF slot
  <2>6. slot = open[n].slot /\ n = Len(open)
    BY <1>2 DEF slot
  <2> HIDE DEF n
  <2> QED
    BY <1>1, <1>3, <1>5, <1>6, <2>1, <2>3, <2>4, <2>5, <2>6, ClosingKeeps
<1>7. CASE args'.ok # TRUE
  <2>1. UNCHANGED <<sizePosB, inBundle, open, closed>>
    <3>1. args'.ok \in BOOLEAN
      <4>1. IsStream(args)'
        BY <1>1, <1>2, <1>3, <1>5, ClosingWrites
      <4> QED
        BY <4>1 DEF IsStream
    <3> QED
      BY <1>7, <3>1 DEF CloseBundle
  <2> HIDE DEF slot
  <2>2. slot = open[n].slot /\ n = Len(open)
    BY <1>2 DEF slot
  <2>3. closed' = closed /\ sizePosB' = sizePosB /\ inBundle' = inBundle
    BY <2>1
  <2> HIDE DEF n
  <2> QED
    BY <1>1, <1>3, <1>5, <1>7, <2>2, <2>3, ClosingFails
<1> QED
  BY <1>6, <1>7

LEMMA CloseMessageKeeps ==
  ASSUME PacketInv, CloseMessage
  PROVE  PacketInv'
<1> DEFINE n == inBundle + 1
           slot == Innermost.slot
<1>1. /\ args.ok = TRUE /\ messageOpen
      /\ capacity' = capacity /\ aligned' = aligned
      /\ sizePosM' = sizePosM /\ sizePosB' = sizePosB /\ inBundle' = inBundle
      /\ needed' = needed
      /\ args' = IF inBundle > 0 THEN PutSize(args, sizePosM) ELSE args
      /\ tags' = IF inBundle > 0 /\ args'.ok THEN NoTags ELSE tags
  <2>1. args.ok = TRUE
    BY Sizes DEF CloseMessage
  <2>2. messageOpen
    BY DEF CloseMessage
  <2>3. /\ capacity' = capacity /\ aligned' = aligned
        /\ sizePosM' = sizePosM /\ sizePosB' = sizePosB /\ inBundle' = inBundle
        /\ needed' = needed
        /\ args' = IF inBundle > 0 THEN PutSize(args, sizePosM) ELSE args
        /\ tags' = IF inBundle > 0 /\ args'.ok THEN NoTags ELSE tags
    BY DEF CloseMessage
  <2> QED
    BY <2>1, <2>2, <2>3
<1>2. open \in Seq(Element) /\ open # << >> /\ Len(open) = n /\ inBundle \in Nat
  BY <1>1, BeforeTheTags, Sizes
<1>3. SlotList /\ OpenNest
  BY <1>1 DEF PacketInv, Places
<1>4. args' = IF n > 1 THEN PutSize(args, slot) ELSE args
  <2>1. n > 1 <=> inBundle > 0
    BY <1>2
  <2>2. inBundle > 0 => sizePosM = slot
    BY <1>1, <1>3 DEF SlotList
  <2> QED
    BY <1>1, <2>1, <2>2
<1>5. slot = open[n].slot
  BY <1>2 DEF Innermost
<1>6. /\ tags \in [begin : Nat, end : Nat, pos : Nat]
      /\ tags.begin <= tags.pos /\ tags.pos <= tags.end
  BY DEF PacketInv, Types, TypeOK
<1>7. inBundle = n - 1
  BY <1>2
<1> HIDE DEF slot, n
<1>8. CASE args'.ok = TRUE
  <2>1. Close
    BY <1>8 DEF CloseMessage
  <2>2. /\ tags' \in [begin : Nat, end : Nat, pos : Nat]
        /\ tags'.begin <= tags'.pos /\ tags'.pos <= tags'.end
    BY <1>1, <1>6 DEF NoTags
  <2>3. /\ inBundle' > 1 => sizePosB' = open[inBundle'].slot
        /\ inBundle' <= 1 => sizePosB' \in {Null, 0}
    BY <1>1, <1>3 DEF SlotList
  <2>4. inBundle' = n - 1
    BY <1>1, <1>7
  <2> QED
    BY <1>1, <1>2, <1>4, <1>5, <1>8, <2>1, <2>2, <2>3, <2>4, ClosingKeeps
<1>9. CASE args'.ok # TRUE
  <2>1. args'.ok = FALSE
    <3>1. IsStream(args)'
      BY <1>1, <1>2, <1>4, <1>5, ClosingWrites
    <3> QED
      BY <1>9, <3>1 DEF IsStream
  <2>2. closed' = closed
    BY <2>1 DEF CloseMessage
  <2>3. tags' = tags
    BY <1>1, <2>1
  <2> QED
    BY <1>1, <1>2, <1>4, <1>5, <1>9, <2>2, <2>3, ClosingFails
<1> QED
  BY <1>8, <1>9

-----------------------------------------------------------------------------
(* A packet just begun.                                                    *)
LEMMA FreshPacket ==
  ASSUME capacity \in Capacities, aligned \in Alignments, args = Fresh(capacity),
         tags \in [begin : Nat, end : Nat, pos : Nat],
         tags.begin <= tags.pos, tags.pos <= tags.end,
         sizePosM = Null, sizePosB = Null, inBundle = 0,
         open = << >>, closed = {}, needed = 0
  PROVE  PacketInv
<1>1. capacity \in Nat /\ MaxDepth \in Nat
  BY CallerAssumption
<1>2. args = [data |-> [i \in 0 .. (capacity \div 4 - 1) |-> Stale], pos |-> 0, ok |-> TRUE]
  BY DEF Fresh
<1>3. IsStream(args)
  BY <1>1, <1>2 DEF IsStream
<1>4. ~messageOpen
  BY DEF messageOpen
<1>5. Types
  BY <1>1, <1>3, <1>4 DEF Types, TypeOK, IsStream
<1>6. SizesMatch /\ SizesPredicted
  BY <1>2 DEF SizesMatch, SizesPredicted
<1>7. NumbersAligned
  BY <1>2 DEF NumbersAligned, Stale
<1>8. OpenNest
  BY DEF OpenNest
<1>9. TagArea /\ SlotList /\ ClosedPlaces
  BY <1>4 DEF TagArea, SlotList, ClosedPlaces
<1> QED
  BY <1>5, <1>6, <1>7, <1>8, <1>9 DEF PacketInv, Places

LEMMA InitPacket == Init => PacketInv
<1> SUFFICES ASSUME Init PROVE PacketInv
  OBVIOUS
<1>1. /\ capacity \in Capacities /\ aligned \in Alignments /\ args = Fresh(capacity)
      /\ sizePosM = Null /\ sizePosB = Null /\ inBundle = 0
      /\ open = << >> /\ closed = {} /\ needed = 0
  BY DEF Init
<1>2. /\ tags \in [begin : Nat, end : Nat, pos : Nat]
      /\ tags.begin <= tags.pos /\ tags.pos <= tags.end
  BY DEF Init, NoTags
<1> QED
  BY <1>1, <1>2, FreshPacket

LEMMA ResetKeeps ==
  ASSUME PacketInv, NEW size \in Capacities, NEW atFour \in Alignments,
         Reset(size, atFour)
  PROVE  PacketInv'
<1>1. /\ capacity' = size /\ aligned' = atFour /\ args' = Fresh(size)
      /\ sizePosM' = Null /\ sizePosB' = Null /\ inBundle' = 0
      /\ open' = << >> /\ closed' = {} /\ needed' = 0 /\ tags' = tags
  BY DEF Reset
<1>2. /\ tags \in [begin : Nat, end : Nat, pos : Nat]
      /\ tags.begin <= tags.pos /\ tags.pos <= tags.end
  BY DEF PacketInv, Types, TypeOK
<1>3. size \in Nat /\ MaxDepth \in Nat
  BY CallerAssumption
<1>4. args' = [data |-> [i \in 0 .. (capacity' \div 4 - 1) |-> Stale], pos |-> 0, ok |-> TRUE]
  BY <1>1 DEF Fresh
<1>5. IsStream(args)'
  BY <1>1, <1>3, <1>4 DEF IsStream
<1>6. ~messageOpen'
  BY <1>1 DEF messageOpen
<1>7. Types'
  BY <1>1, <1>2, <1>3, <1>5, <1>6 DEF Types, TypeOK, IsStream
<1>8. SizesMatch' /\ SizesPredicted'
  BY <1>1, <1>4 DEF SizesMatch, SizesPredicted
<1>9. NumbersAligned'
  BY <1>1, <1>4 DEF NumbersAligned, Stale
<1>10. OpenNest'
  BY <1>1 DEF OpenNest
<1>11. TagArea' /\ SlotList' /\ ClosedPlaces'
  BY <1>1, <1>6 DEF TagArea, SlotList, ClosedPlaces
<1> QED
  BY <1>7, <1>8, <1>9, <1>10, <1>11 DEF PacketInv, Places

LEMMA StepPacket == PacketInv /\ [Next]_vars => PacketInv'
<1> SUFFICES ASSUME PacketInv, [Next]_vars PROVE PacketInv'
  OBVIOUS
<1>1. ASSUME NEW size \in Capacities, NEW atFour \in Alignments, Reset(size, atFour)
      PROVE  PacketInv'
  BY <1>1, ResetKeeps
<1>2. CASE OpenBundle
  BY <1>2, OpenBundleKeeps
<1>3. CASE CloseBundle
  BY <1>3, CloseBundleKeeps
<1>4. ASSUME NEW addr \in Addresses, NEW numTags \in TagCounts, OpenMessage(addr, numTags)
      PROVE  PacketInv'
  BY <1>4, OpenMessageKeeps
<1>5. ASSUME NEW arg \in Args, PutArg(arg)
      PROVE  PacketInv'
  BY <1>5, PutArgKeeps
<1>6. CASE CloseMessage
  BY <1>6, CloseMessageKeeps
<1>7. CASE UNCHANGED vars
  <2>1. Types'
    BY <1>7 DEF vars, PacketInv, Types, TypeOK, IsStream, messageOpen, Innermost
  <2>2. SizesMatch' /\ SizesPredicted' /\ NumbersAligned'
    BY <1>7 DEF vars, PacketInv, SizesMatch, SizesPredicted, NumbersAligned,
       messageOpen, Innermost
  <2>3. args.ok = TRUE => OpenNest' /\ TagArea'
    BY <1>7 DEF vars, PacketInv, Places, OpenNest, TagArea, messageOpen, Innermost
  <2>4. args.ok = TRUE => SlotList' /\ ClosedPlaces'
    BY <1>7 DEF vars, PacketInv, Places, SlotList, SlotOf, ClosedPlaces, Beside, Within,
       messageOpen, Innermost
  <2>5. (args.ok = TRUE)' => args.ok = TRUE
    BY <1>7 DEF vars
  <2> QED
    BY <2>1, <2>2, <2>3, <2>4, <2>5 DEF PacketInv, Places
<1> QED
  BY <1>1, <1>2, <1>3, <1>4, <1>5, <1>6, <1>7 DEF Next

LEMMA PacketAlways == Spec => []PacketInv
BY InitPacket, StepPacket, PTL DEF Spec

-----------------------------------------------------------------------------
(* Positions stay multiples of four within the buffer, the tag stream of   *)
(* an open message stays a part of it, slots are places in it, and bundles *)
(* nest no deeper than MaxDepth.                                           *)
THEOREM PacketTypeOK == Spec => []TypeOK
<1>1. PacketInv => TypeOK
  BY DEF PacketInv, Types
<1> QED
  BY <1>1, PacketAlways, PTL

(* The size in front of a closed element is the number of its bytes, for   *)
(* as long as the packet is there: no later call overwrites it, be it one  *)
(* that throws.                                                            *)
THEOREM ClosedSizesMatch == Spec => []SizesMatch
<1>1. PacketInv => SizesMatch
  BY DEF PacketInv
<1> QED
  BY <1>1, PacketAlways, PTL

(* What util.hpp computes beforehand is what the packet takes: in an       *)
(* aligned buffer that is large enough nothing is thrown, but for tags     *)
(* beyond those announced.                                                 *)
THEOREM PacketFitsAsComputed == Spec => []SizesPredicted
<1>1. PacketInv => SizesPredicted
  BY DEF PacketInv
<1> QED
  BY <1>1, PacketAlways, PTL

(* No number and no size is ever written to an address that is not a       *)
(* multiple of four, and no element of a bundle closes in such a buffer.   *)
THEOREM NumbersStayAligned == Spec => []NumbersAligned
<1>1. PacketInv => NumbersAligned
  BY DEF PacketInv
<1> QED
  BY <1>1, PacketAlways, PTL

(* closeBundle always finds the slot of the enclosing bundle: the slots of *)
(* the open bundles are linked whatever was written in between.            *)
THEOREM OpenSlotsLinked == Spec => []SlotsLinked
<1>1. ASSUME PacketInv, args.ok = TRUE
      PROVE  /\ inBundle > 1 => sizePosB = open[inBundle].slot
             /\ inBundle = 1 => sizePosB \in {Null, 0}
             /\ \A i \in 2 .. inBundle :
                  args.data[open[i].slot \div 4] = Offset(SlotOf(i - 1))
  BY <1>1 DEF PacketInv, Places, SlotList
<1>2. PacketInv => SlotsLinked
  BY <1>1, Sizes DEF SlotsLinked
<1> QED
  BY <1>2, PacketAlways, PTL

(* No assertion of the code fails in a sequence of calls that nests, and   *)
(* calcSize never throws.                                                  *)
THEOREM AssertionsAlwaysHold == Spec => []AssertionsHold
<1>1. ASSUME PacketInv, args.ok = TRUE
      PROVE  /\ inBundle > 0 => sizePosB # Null \/ inBundle = 1
             /\ inBundle > 1 => /\ sizePosB \in 0 .. capacity
                                /\ args.pos - sizePosB - 4 >= SizeBundle
             /\ messageOpen /\ inBundle > 0 => /\ sizePosM \in 0 .. capacity
                                              /\ args.pos - sizePosM - 4 >= 0
  <2>1. OpenNest /\ SlotList
    BY <1>1 DEF PacketInv, Places
  <2>2. capacity \in Nat /\ args.pos \in Nat /\ args.pos <= capacity /\ inBundle \in Nat
    BY <1>1, Sizes
  <2>3. open \in Seq(Element) /\ Len(open) \in {inBundle, inBundle + 1}
    BY <2>1 DEF OpenNest
  <2>4. ASSUME inBundle > 1
        PROVE  /\ sizePosB # Null
               /\ sizePosB \in 0 .. capacity
               /\ args.pos - sizePosB - 4 >= SizeBundle
    <3>1. inBundle \in 1 .. Len(open)
      BY <2>2, <2>3, <2>4
    <3>2. /\ open[inBundle].slot \in Nat
          /\ open[inBundle].first = open[inBundle].slot + 4
          /\ open[inBundle].first + SizeBundle <= args.pos
      BY <2>1, <2>2, <2>4, <3>1 DEF OpenNest
    <3>3. sizePosB = open[inBundle].slot
      BY <2>1, <2>4 DEF SlotList
    <3>4. sizePosB \in Nat /\ sizePosB + 4 + SizeBundle <= args.pos
      BY <3>2, <3>3
    <3> QED
      BY CallerAssumption, <2>2, <3>4 DEF SizeBundle
  <2>5. ASSUME messageOpen, inBundle > 0
        PROVE  sizePosM \in 0 .. capacity /\ args.pos - sizePosM - 4 >= 0
    <3>1. /\ Innermost.slot \in Nat
          /\ Innermost.first = Innermost.slot + 4
          /\ tags.begin \in Nat /\ Innermost.first < tags.begin /\ tags.begin < args.pos
      BY <1>1, <2>5, BeforeTheTags
    <3>2. sizePosM = Innermost.slot
      BY <2>1, <2>5 DEF SlotList
    <3> QED
      BY <2>2, <3>1, <3>2
  <2> QED
    BY <2>2, <2>4, <2>5
<1>2. PacketInv => AssertionsHold
  BY <1>1, Sizes DEF AssertionsHold
<1> QED
  BY <1>2, PacketAlways, PTL
=============================================================================
