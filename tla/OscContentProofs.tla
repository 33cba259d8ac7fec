--------------------------- MODULE OscContentProofs ---------------------------
(***************************************************************************)
(* Proofs about what a packet of OscPacket holds: closed messages stay     *)
(* what they were, and closed bundles are filled without a gap; and about  *)
(* the packet MakeOscPacket builds with it.                                *)
(***************************************************************************)
EXTENDS MakeOscPacket, OscPacketProofs, InductionProofs


-----------------------------------------------------------------------------
(* FlattenSeq is a function on the positions of a sequence.                *)
Flattens(f, ss) ==
  f = [i \in 1 .. Len(ss) |-> IF i = 1 THEN ss[i] ELSE f[i - 1] \o ss[i]]

LEMMA FlatteningExists ==
  ASSUME NEW W, NEW ss \in Seq(Seq(W))
  PROVE  \E f : Flattens(f, ss)
<1> DEFINE Upto(f, n) ==
             f = [i \in 1 .. n |-> IF i = 1 THEN ss[i] ELSE f[i - 1] \o ss[i]]
           S == {n \in Nat : \E f : Upto(f, n)}
<1>1. 0 \in S
  <2>1. Upto(<< >>, 0)
    OBVIOUS
  <2> QED
    BY <2>1
<1>2. ASSUME NEW n \in Nat, n \in S
      PROVE  n + 1 \in S
  <2>1. PICK f : Upto(f, n)
    BY <1>2
  <2> DEFINE last == IF n + 1 = 1 THEN ss[n + 1] ELSE f[n] \o ss[n + 1]
             g == [i \in 1 .. n + 1 |-> IF i = n + 1 THEN last ELSE f[i]]
  <2>2. \A i \in 1 .. n : f[i] = IF i = 1 THEN ss[i] ELSE f[i - 1] \o ss[i]
    BY <2>1
  <2>3. \A i \in 1 .. n + 1 : g[i] = IF i = 1 THEN ss[i] ELSE g[i - 1] \o ss[i]
    <3> TAKE i \in 1 .. n + 1
    <3>1. CASE i = n + 1
      <4>1. i > 1 => g[i - 1] = f[n]
        BY <3>1
      <4>2. g[i] = last
        BY <3>1
      <4> QED
        BY <3>1, <4>1, <4>2
    <3>2. CASE i # n + 1
      <4>1. i \in 1 .. n /\ g[i] = f[i]
        BY <3>2
      <4>2. i > 1 => g[i - 1] = f[i - 1]
        BY <4>1
      <4> QED
        BY <2>2, <4>1, <4>2
    <3> QED
      BY <3>1, <3>2
  <2>4. g = [i \in 1 .. n + 1 |-> g[i]]
    OBVIOUS
  <2> HIDE DEF g, last
  <2>5. Upto(g, n + 1)
    BY <2>3, <2>4
  <2>6. n + 1 \in Nat /\ \E h : Upto(h, n + 1)
    <3> HIDE DEF Upto
    <3> QED
      BY <2>5
  <2> QED
    BY <2>6
<1>3. Nat \subseteq S
  <2> HIDE DEF S
  <2> QED
    BY <1>1, <1>2, AllNumbers
<1>4. Len(ss) \in S
  <2>1. Len(ss) \in Nat
    OBVIOUS
  <2> HIDE DEF S
  <2> QED
    BY <1>3, <2>1
<1> QED
  BY <1>4 DEF Flattens

(* ... and its values are sequences, each the beginning of the next.       *)
LEMMA FlatteningOf ==
  ASSUME NEW W, NEW ss \in Seq(Seq(W)), NEW s \in Seq(W),
         NEW f, Flattens(f, ss), NEW g, Flattens(g, Append(ss, s))
  PROVE  \A i \in 1 .. Len(ss) : f[i] = g[i] /\ f[i] \in Seq(W)
<1> DEFINE S == {n \in Nat : n + 1 \in 1 .. Len(ss) =>
                               f[n + 1] = g[n + 1] /\ f[n + 1] \in Seq(W)}
<1>1. /\ Len(Append(ss, s)) = Len(ss) + 1
      /\ \A i \in 1 .. Len(ss) : Append(ss, s)[i] = ss[i] /\ ss[i] \in Seq(W)
      /\ Len(ss) \in Nat
  OBVIOUS
<1>2. \A i \in 1 .. Len(ss) : f[i] = IF i = 1 THEN ss[i] ELSE f[i - 1] \o ss[i]
  BY DEF Flattens
<1>3. \A i \in 1 .. Len(ss) : g[i] = IF i = 1 THEN ss[i] ELSE g[i - 1] \o ss[i]
  <2>1. \A i \in 1 .. Len(ss) + 1 :
          g[i] = IF i = 1 THEN Append(ss, s)[i] ELSE g[i - 1] \o Append(ss, s)[i]
    BY <1>1 DEF Flattens
  <2> QED
    BY <1>1, <2>1
<1>4. 0 \in S
  BY <1>1, <1>2, <1>3
<1>5. ASSUME NEW n \in Nat, n \in S
      PROVE  n + 1 \in S
  <2> SUFFICES ASSUME n + 2 \in 1 .. Len(ss)
               PROVE  f[n + 2] = g[n + 2] /\ f[n + 2] \in Seq(W)
    BY SMT
  <2>1. n + 1 \in 1 .. Len(ss) /\ (n + 2) - 1 = n + 1 /\ n + 2 # 1
    BY <1>1
  <2>2. f[n + 1] = g[n + 1] /\ f[n + 1] \in Seq(W)
    BY <1>5, <2>1
  <2>3. f[n + 2] = f[n + 1] \o ss[n + 2] /\ g[n + 2] = g[n + 1] \o ss[n + 2]
    BY <1>2, <1>3, <2>1
  <2> QED
    BY <1>1, <2>2, <2>3
<1>6. Nat \subseteq S
  <2> HIDE DEF S
  <2> QED
    BY <1>4, <1>5, AllNumbers
<1> SUFFICES ASSUME NEW i \in 1 .. Len(ss)
             PROVE  f[i] = g[i] /\ f[i] \in Seq(W)
  OBVIOUS
<1>7. i - 1 \in Nat /\ (i - 1) + 1 = i
  BY <1>1
<1>8. i - 1 \in S
  <2> HIDE DEF S
  <2> QED
    BY <1>6, <1>7
<1> QED
  BY <1>7, <1>8

LEMMA FlattenValue ==
  ASSUME NEW W, NEW ss \in Seq(Seq(W)), ss # << >>
  PROVE  \E f : Flattens(f, ss) /\ FlattenSeq(ss) = f[Len(ss)]
<1> DEFINE f == CHOOSE h : h = [i \in 1 .. Len(ss) |->
                                  IF i = 1 THEN ss[i] ELSE h[i - 1] \o ss[i]]
<1>1. Flattens(f, ss)
  BY FlatteningExists DEF Flattens
<1>2. FlattenSeq(ss) = f[Len(ss)]
  BY DEF FlattenSeq
<1> QED
  BY <1>1, <1>2

LEMMA FlattenEmpty == FlattenSeq(<< >>) = << >>
BY DEF FlattenSeq

LEMMA FlattenAppend ==
  ASSUME NEW W, NEW ss \in Seq(Seq(W)), NEW s \in Seq(W)
  PROVE  /\ FlattenSeq(ss) \in Seq(W)
         /\ FlattenSeq(Append(ss, s)) = FlattenSeq(ss) \o s
<1> DEFINE more == Append(ss, s)
<1>1. more \in Seq(Seq(W)) /\ more # << >> /\ Len(more) = Len(ss) + 1 /\ more[Len(ss) + 1] = s
      /\ Len(ss) \in Nat
  <2>1. Len(ss) \in Nat /\ more \in Seq(Seq(W)) /\ Len(more) = Len(ss) + 1
    OBVIOUS
  <2>2. more[Len(ss) + 1] = s
    BY SMTT(30)
  <2>3. more # << >>
    <3> HIDE DEF more
    <3> QED
      BY <2>1
  <2> QED
    BY <2>1, <2>2, <2>3
<1>2. PICK g : Flattens(g, more) /\ FlattenSeq(more) = g[Len(more)]
  <2> HIDE DEF more
  <2> QED
    BY <1>1, FlattenValue
<1>3. \A i \in 1 .. Len(ss) + 1 : g[i] = IF i = 1 THEN more[i] ELSE g[i - 1] \o more[i]
  <2> HIDE DEF more
  <2> QED
    BY <1>1, <1>2 DEF Flattens
<1>4. CASE ss = << >>
  <2>1. g[1] = more[1] /\ Len(ss) = 0 /\ more[1] = s /\ Len(more) = 1
    BY <1>1, <1>3, <1>4
  <2>2. FlattenSeq(more) = s
    BY <1>2, <2>1
  <2>3. FlattenSeq(ss) = << >>
    BY <1>4, FlattenEmpty
  <2> QED
    BY <2>2, <2>3
<1>5. CASE ss # << >>
  <2>1. PICK f : Flattens(f, ss) /\ FlattenSeq(ss) = f[Len(ss)]
    BY <1>5, FlattenValue
  <2>2. Len(ss) \in 1 .. Len(ss) /\ Len(ss) + 1 # 1 /\ (Len(ss) + 1) - 1 = Len(ss)
    BY <1>1, <1>5
  <2>3. f[Len(ss)] = g[Len(ss)] /\ f[Len(ss)] \in Seq(W)
    BY <1>2, <2>1, <2>2, FlatteningOf
  <2>4. g[Len(ss) + 1] = g[Len(ss)] \o s
    <3>1. Len(ss) + 1 \in 1 .. Len(ss) + 1
      BY <1>1
    <3>2. g[Len(ss) + 1] = g[(Len(ss) + 1) - 1] \o more[Len(ss) + 1]
      BY <1>3, <2>2, <3>1
    <3> QED
      BY <1>1, <2>2, <3>2
  <2> QED
    BY <1>1, <1>2, <2>1, <2>3, <2>4
<1> QED
  BY <1>4, <1>5

-----------------------------------------------------------------------------
(* The words of a message: tags, and arguments.                            *)
ArgWords(e) == FlattenSeq([i \in DOMAIN e.put |-> e.put[i].head \o e.put[i].data])
AnyArgWord == NumberWords \cup TextWords

IsMessage(m) ==
  /\ m.first \in Nat /\ m.first % 4 = 0
  /\ m.addr \in Addresses
  /\ m.numTags \in Nat
  /\ m.put \in Seq(Args)

LEMMA ArgWordsAppend ==
  ASSUME NEW m, NEW e, m.put \in Seq(Args), NEW arg \in Args, e.put = Append(m.put, arg)
  PROVE  /\ ArgWords(m) \in Seq(AnyArgWord)
         /\ ArgWords(e) = ArgWords(m) \o (arg.head \o arg.data)
<1> DEFINE Words(a) == a.head \o a.data
           ss == [i \in DOMAIN m.put |-> Words(m.put[i])]
<1>1. \A a \in Args : Words(a) \in Seq(AnyArgWord)
  <2> TAKE a \in Args
  <2>1. a.head \in Seq(NumberWords) /\ a.data \in Seq(TextWords)
    BY ArgParts
  <2>2. a.head \in Seq(AnyArgWord) /\ a.data \in Seq(AnyArgWord)
    BY <2>1 DEF AnyArgWord
  <2> QED
    BY <2>2
<1> HIDE DEF Words
<1>2. /\ DOMAIN m.put = 1 .. Len(m.put) /\ Len(m.put) \in Nat
      /\ DOMAIN e.put = 1 .. Len(m.put) + 1
      /\ \A i \in 1 .. Len(m.put) : e.put[i] = m.put[i] /\ m.put[i] \in Args
      /\ e.put[Len(m.put) + 1] = arg
  <2>1. DOMAIN m.put = 1 .. Len(m.put) /\ Len(m.put) \in Nat
    OBVIOUS
  <2>2. Len(Append(m.put, arg)) = Len(m.put) + 1 /\ Append(m.put, arg) \in Seq(Args)
    OBVIOUS
  <2>3. DOMAIN Append(m.put, arg) = 1 .. Len(m.put) + 1
    BY <2>2
  <2>4. \A i \in 1 .. Len(m.put) : Append(m.put, arg)[i] = m.put[i] /\ m.put[i] \in Args
    OBVIOUS
  <2>5. Append(m.put, arg)[Len(m.put) + 1] = arg
    BY SMTT(30)
  <2> QED
    BY <2>1, <2>3, <2>4, <2>5
<1>3. ss \in Seq(Seq(AnyArgWord)) /\ Len(ss) = Len(m.put)
  BY <1>1, <1>2
<1>4. [i \in DOMAIN e.put |-> Words(e.put[i])] = Append(ss, Words(arg))
  <2> DEFINE more == Append(ss, Words(arg))
             k == Len(m.put)
  <2>1. /\ \A i \in 1 .. k : ss[i] = Words(m.put[i])
        /\ k \in Nat /\ Len(ss) = k /\ ss \in Seq(Seq(AnyArgWord))
        /\ Words(arg) \in Seq(AnyArgWord)
    BY <1>1, <1>2, <1>3
  <2> HIDE DEF ss, k
  <2>2. /\ more \in Seq(Seq(AnyArgWord)) /\ Len(more) = k + 1
        /\ \A i \in 1 .. k : more[i] = ss[i]
        /\ more[k + 1] = Words(arg)
    BY <2>1, AppendIndex
  <2>3. more = [i \in 1 .. k + 1 |-> more[i]]
    <3>1. more \in Seq(Seq(AnyArgWord)) /\ Len(more) = k + 1
      BY <2>2
    <3> HIDE DEF more
    <3> QED
      BY <3>1
  <2>4. \A i \in 1 .. k + 1 : more[i] = Words(e.put[i])
    <3> TAKE i \in 1 .. k + 1
    <3>1. CASE i \in 1 .. k
      BY <1>2, <2>1, <2>2, <3>1 DEF k
    <3>2. CASE i = k + 1
      BY <1>2, <2>2, <3>2 DEF k
    <3>3. i \in 1 .. k \/ i = k + 1
      BY <2>1
    <3> HIDE DEF more
    <3> QED
      BY <3>1, <3>2, <3>3
  <2>5. DOMAIN e.put = 1 .. k + 1
    BY <1>2 DEF k
  <2> HIDE DEF more
  <2>6. [i \in DOMAIN e.put |-> Words(e.put[i])] = [i \in 1 .. k + 1 |-> more[i]]
    BY <2>4, <2>5
  <2> QED
    BY <2>3, <2>6 DEF more
<1>5. Words(arg) \in Seq(AnyArgWord)
  BY <1>1
<1>6. FlattenSeq(ss) \in Seq(AnyArgWord)
      /\ FlattenSeq(Append(ss, Words(arg))) = FlattenSeq(ss) \o Words(arg)
  <2> HIDE DEF ss
  <2> QED
    BY <1>3, <1>5, FlattenAppend
<1>7. ArgWords(m) = FlattenSeq(ss)
  BY DEF ArgWords, Words
<1>8. ArgWords(e) = FlattenSeq([i \in DOMAIN e.put |-> Words(e.put[i])])
  BY DEF ArgWords, Words
<1>9. ArgWords(e) = FlattenSeq(ss) \o Words(arg)
  BY <1>4, <1>6, <1>8
<1> QED
  BY <1>6, <1>7, <1>9 DEF Words

LEMMA ArgWordsTyped ==
  ASSUME NEW m, m.put \in Seq(Args)
  PROVE  ArgWords(m) \in Seq(AnyArgWord) /\ Len(ArgWords(m)) \in Nat
<1>1. ArgWords(m) \in Seq(AnyArgWord)
  <2> DEFINE Words(a) == a.head \o a.data
             ss == [i \in DOMAIN m.put |-> Words(m.put[i])]
  <2>1. \A a \in Args : Words(a) \in Seq(AnyArgWord)
    <3> TAKE a \in Args
    <3>1. a.head \in Seq(NumberWords) /\ a.data \in Seq(TextWords)
      BY ArgParts
    <3>2. a.head \in Seq(AnyArgWord) /\ a.data \in Seq(AnyArgWord)
      BY <3>1 DEF AnyArgWord
    <3> QED
      BY <3>2
  <2> HIDE DEF Words
  <2>2. ss \in Seq(Seq(AnyArgWord))
    <3>1. DOMAIN m.put = 1 .. Len(m.put) /\ Len(m.put) \in Nat
      OBVIOUS
    <3>2. \A i \in 1 .. Len(m.put) : m.put[i] \in Args
      OBVIOUS
    <3> QED
      BY <2>1, <3>1, <3>2
  <2>3. << >> \in Seq(AnyArgWord)
    OBVIOUS
  <2>4. FlattenSeq(ss) \in Seq(AnyArgWord)
    <3> HIDE DEF ss
    <3> QED
      BY <2>2, <2>3, FlattenAppend
  <2>5. ArgWords(m) = FlattenSeq(ss)
    BY DEF ArgWords, Words
  <2> QED
    BY <2>4, <2>5
<1> QED
  BY <1>1

LEMMA NoArgWords ==
  ASSUME NEW m, m.put = << >>
  PROVE  ArgWords(m) = << >>
<1>1. [i \in DOMAIN m.put |-> m.put[i].head \o m.put[i].data] = << >>
  OBVIOUS
<1> QED
  BY <1>1, FlattenEmpty DEF ArgWords

LEMMA OneBefore ==
  ASSUME NEW C, NEW x \in C, NEW s \in Seq(C), Len(s) = 4
  PROVE  /\ << x >> \o s \in Seq(C) /\ Len(<< x >> \o s) = 5
         /\ (<< x >> \o s)[1] = x
         /\ \A k \in 1 .. 4 : (<< x >> \o s)[k + 1] = s[k]
<1> DEFINE one == << x >>
<1>1. one \in Seq(C) /\ Len(one) = 1 /\ one[1] = x
  OBVIOUS
<1> HIDE DEF one
<1>2. /\ one \o s \in Seq(C)
      /\ Len(one \o s) = Len(one) + Len(s)
      /\ \A i \in 1 .. Len(one) + Len(s) :
           (one \o s)[i] = IF i <= Len(one) THEN one[i] ELSE s[i - Len(one)]
  BY <1>1, ConcatProperties
<1>3. ASSUME NEW k \in 1 .. 4
      PROVE  (one \o s)[k + 1] = s[k]
  <2>1. k + 1 \in 1 .. 5 /\ ~(k + 1 <= 1) /\ (k + 1) - 1 = k
    OBVIOUS
  <2> QED
    BY <1>1, <1>2, <2>1
<1>4. (one \o s)[1] = x
  BY <1>1, <1>2
<1> QED
  BY <1>1, <1>2, <1>3, <1>4 DEF one

(* A word of tags is four characters behind its kind.                      *)
LEMMA TagWordIs ==
  ASSUME NEW e, NEW w \in Nat, w >= 1, w <= Align(e.numTags + 2) \div 4
  PROVE  /\ TagWords(e)[w] = [k \in 1 .. 5 |-> TagWords(e)[w][k]]
         /\ TagWords(e)[w][1] = "chars"
         /\ \A k \in 1 .. 4 : TagWords(e)[w][k + 1] = TagAt(e, 4 * (w - 1) + k)
<1> DEFINE four == [k \in 1 .. 4 |-> TagAt(e, 4 * (w - 1) + k)]
           C == {four[k] : k \in 1 .. 4} \cup {"chars"}
           word == <<"chars">> \o four
<1>1. TagWords(e)[w] = word
  BY DEF TagWords
<1>2. /\ four \in Seq(C) /\ Len(four) = 4
      /\ \A k \in 1 .. 4 : four[k] = TagAt(e, 4 * (w - 1) + k)
  <2>1. \A k \in 1 .. 4 : four[k] = TagAt(e, 4 * (w - 1) + k) /\ four[k] \in C
    OBVIOUS
  <2>2. four = [k \in 1 .. 4 |-> four[k]]
    OBVIOUS
  <2> HIDE DEF four, C
  <2> QED
    BY <2>1, <2>2
<1>3. <<"chars">> \in Seq(C) /\ Len(<<"chars">>) = 1 /\ <<"chars">>[1] = "chars"
  OBVIOUS
<1> HIDE DEF four, C
<1>4. word \in Seq(C) /\ Len(word) = 5 /\ word[1] = "chars"
      /\ \A k \in 1 .. 4 : word[k + 1] = four[k]
  <2>1. "chars" \in C
    BY DEF C
  <2> QED
    BY <1>2, <2>1, OneBefore
<1> HIDE DEF word
<1>6. word = [k \in 1 .. 5 |-> word[k]]
  BY <1>4
<1> QED
  BY <1>1, <1>2, <1>4, <1>6

(* Two words of characters are equal when their characters are.            *)
LEMMA SameWord ==
  ASSUME NEW v, NEW w, v = [k \in 1 .. 5 |-> v[k]], w = [k \in 1 .. 5 |-> w[k]],
         v[1] = w[1], \A k \in 1 .. 4 : v[k + 1] = w[k + 1]
  PROVE  v = w
<1>1. \A k \in 1 .. 5 : v[k] = w[k]
  <2> TAKE k \in 1 .. 5
  <2>1. CASE k = 1
    BY <2>1
  <2>2. CASE k # 1
    <3>1. k - 1 \in 1 .. 4 /\ (k - 1) + 1 = k
      BY <2>2
    <3>2. v[(k - 1) + 1] = w[(k - 1) + 1]
      BY <3>1
    <3> QED
      BY <3>1, <3>2
  <2> QED
    BY <2>1, <2>2
<1>2. [k \in 1 .. 5 |-> v[k]] = [k \in 1 .. 5 |-> w[k]]
  BY <1>1
<1> QED
  BY <1>2

-----------------------------------------------------------------------------
(* A message in three parts: its address, its tags, its arguments.         *)
TagsStart(m) == m.first + SizeString(m.addr)
ArgsStart(m) == TagsStart(m) + Align(m.numTags + 2)
TagRow(m) == 1 .. (Align(m.numTags + 2) \div 4)
HoldsTags(t, m) == \A w \in TagRow(m) : t.data[TagsStart(m) \div 4 + w - 1] = TagWords(m)[w]

HoldsMessage(t, m, last) ==
  /\ last = ArgsStart(m) + 4 * Len(ArgWords(m))
  /\ Holds(t, m.first, StringWords(m.addr))
  /\ HoldsTags(t, m)
  /\ Holds(t, ArgsStart(m), ArgWords(m))

MessageSizes(m) ==
  /\ SizeString(m.addr) \in Nat /\ SizeString(m.addr) >= 4
  /\ SizeString(m.addr) = 4 * Len(StringWords(m.addr))
  /\ Len(StringWords(m.addr)) \in Nat
  /\ Align(m.numTags + 2) \in Nat /\ Align(m.numTags + 2) >= m.numTags + 2
  /\ Align(m.numTags + 2) = 4 * (Align(m.numTags + 2) \div 4)
  /\ Align(m.numTags + 2) \div 4 \in Nat
  /\ Len(ArgWords(m)) \in Nat
  /\ TagsStart(m) \in Nat /\ TagsStart(m) % 4 = 0
  /\ ArgsStart(m) \in Nat /\ ArgsStart(m) % 4 = 0

LEMMA MessageSized ==
  ASSUME NEW m, IsMessage(m)
  PROVE  MessageSizes(m)
<1> DEFINE a == SizeString(m.addr)
           b == Align(m.numTags + 2)
<1>1. /\ m.first \in Nat /\ m.first % 4 = 0
      /\ m.addr \in Strings /\ m.numTags \in Nat
      /\ m.put \in Seq(Args)
  BY CallerAssumption DEF IsMessage
<1>2. /\ a \in Nat /\ a % 4 = 0 /\ a >= 4
      /\ StringWords(m.addr) \in Seq(TextWords)
      /\ 4 * Len(StringWords(m.addr)) = a
  BY <1>1, StringRow
<1>3. b \in Nat /\ b % 4 = 0 /\ b >= m.numTags + 2
  BY <1>1, TagBytes
<1>4. Len(ArgWords(m)) \in Nat
  BY <1>1, ArgWordsTyped
<1>5. Len(StringWords(m.addr)) \in Nat
  BY <1>2
<1>6. \A x, y \in Nat : x % 4 = 0 /\ y % 4 = 0 => x + y \in Nat /\ (x + y) % 4 = 0
  OBVIOUS
<1>7. b = 4 * (b \div 4) /\ b \div 4 \in Nat
  BY <1>3, WordOf
<1> HIDE DEF a, b
<1>8. m.first + a \in Nat /\ (m.first + a) % 4 = 0
  BY <1>1, <1>2, <1>6
<1>9. m.first + a + b \in Nat /\ (m.first + a + b) % 4 = 0
  BY <1>3, <1>6, <1>8
<1> QED
  BY <1>2, <1>3, <1>4, <1>5, <1>7, <1>8, <1>9 DEF a, b, MessageSizes, TagsStart, ArgsStart

(* It stays where nothing is written inside it.                            *)
LEMMA MessageStays ==
  ASSUME NEW m, IsMessage(m), NEW s, NEW t, NEW last, HoldsMessage(s, m, last),
         \A i \in Nat : m.first <= 4 * i /\ 4 * i < last => t.data[i] = s.data[i]
  PROVE  HoldsMessage(t, m, last)
<1> DEFINE a == Len(StringWords(m.addr))
           b == Align(m.numTags + 2) \div 4
           c == Len(ArgWords(m))
           f == m.first \div 4
<1>1. /\ a \in Nat /\ b \in Nat /\ c \in Nat /\ f \in Nat /\ m.first = 4 * f
      /\ TagsStart(m) = 4 * f + 4 * a /\ TagsStart(m) \div 4 = f + a
      /\ ArgsStart(m) = 4 * f + 4 * a + 4 * b /\ ArgsStart(m) \div 4 = f + a + b
      /\ last = 4 * f + 4 * a + 4 * b + 4 * c
  <2>1. MessageSizes(m) /\ m.first \in Nat /\ m.first % 4 = 0
    BY MessageSized DEF IsMessage
  <2>2. a \in Nat /\ b \in Nat /\ c \in Nat
    BY <2>1 DEF MessageSizes
  <2>3. f \in Nat /\ m.first = 4 * f
    BY <2>1, WordOf
  <2> HIDE DEF a, b, c, f
  <2>4. /\ TagsStart(m) = 4 * f + 4 * a
        /\ ArgsStart(m) = 4 * f + 4 * a + 4 * b
    BY <2>1, <2>3 DEF a, b, MessageSizes, TagsStart, ArgsStart
  <2>5. \A x, y, z \in Nat : /\ (4 * x + 4 * y) \div 4 = x + y
                             /\ (4 * x + 4 * y + 4 * z) \div 4 = x + y + z
    OBVIOUS
  <2>6. last = ArgsStart(m) + 4 * c
    BY DEF HoldsMessage, c
  <2> QED
    BY <2>2, <2>3, <2>4, <2>5, <2>6
<1>2. /\ \A k \in 1 .. a : s.data[f + k - 1] = StringWords(m.addr)[k]
      /\ \A k \in 1 .. b : s.data[f + a + k - 1] = TagWords(m)[k]
      /\ \A k \in 1 .. c : s.data[f + a + b + k - 1] = ArgWords(m)[k]
  BY <1>1 DEF HoldsMessage, Holds, HoldsTags, TagRow
<1> HIDE DEF a, b, c, f
<1>3. \A k \in 1 .. a : t.data[f + k - 1] = s.data[f + k - 1]
  <2> TAKE k \in 1 .. a
  <2>1. f + k - 1 \in Nat /\ 4 * f <= 4 * (f + k - 1)
        /\ 4 * (f + k - 1) < 4 * f + 4 * a + 4 * b + 4 * c
    BY <1>1
  <2> QED
    BY <1>1, <2>1
<1>4. \A k \in 1 .. b : t.data[f + a + k - 1] = s.data[f + a + k - 1]
  <2> TAKE k \in 1 .. b
  <2>1. f + a + k - 1 \in Nat /\ 4 * f <= 4 * (f + a + k - 1)
        /\ 4 * (f + a + k - 1) < 4 * f + 4 * a + 4 * b + 4 * c
    BY <1>1
  <2> QED
    BY <1>1, <2>1
<1>5. \A k \in 1 .. c : t.data[f + a + b + k - 1] = s.data[f + a + b + k - 1]
  <2> TAKE k \in 1 .. c
  <2>1. f + a + b + k - 1 \in Nat /\ 4 * f <= 4 * (f + a + b + k - 1)
        /\ 4 * (f + a + b + k - 1) < 4 * f + 4 * a + 4 * b + 4 * c
    BY <1>1
  <2> QED
    BY <1>1, <2>1
<1>6. Holds(t, m.first, StringWords(m.addr))
  BY <1>2, <1>3 DEF Holds, a, f
<1>7. HoldsTags(t, m)
  BY <1>1, <1>2, <1>4 DEF HoldsTags, TagRow, b
<1>8. Holds(t, ArgsStart(m), ArgWords(m))
  BY <1>1, <1>2, <1>5 DEF Holds, c
<1> QED
  BY <1>6, <1>7, <1>8 DEF HoldsMessage

(* The three parts are the encoding.                                       *)
LEMMA EncodingHeld ==
  ASSUME NEW m, IsMessage(m), NEW t, NEW last, HoldsMessage(t, m, last)
  PROVE  /\ last - m.first = 4 * Len(Encoding(m))
         /\ \A i \in DOMAIN Encoding(m) : t.data[m.first \div 4 + i - 1] = Encoding(m)[i]
<1> DEFINE A == StringWords(m.addr)
           T == TagWords(m)
           F == ArgWords(m)
           W == TextWords \cup {T[w] : w \in TagRow(m)} \cup AnyArgWord
           a == Len(A)
           b == Align(m.numTags + 2) \div 4
           c == Len(F)
           f == m.first \div 4
<1>1. MessageSizes(m) /\ m.first \in Nat /\ m.first % 4 = 0
  BY MessageSized DEF IsMessage
<1>2. a \in Nat /\ b \in Nat /\ c \in Nat /\ f \in Nat /\ m.first = 4 * f
  BY <1>1, WordOf DEF MessageSizes
<1>3. A \in Seq(W)
  <2>1. A \in Seq(TextWords)
    BY CallerAssumption, StringRow DEF IsMessage
  <2>2. TextWords \subseteq W
    OBVIOUS
  <2> HIDE DEF A, W
  <2> QED
    BY <2>1, <2>2
<1>4. T \in Seq(W) /\ Len(T) = b
  <2>1. T = [w \in 1 .. b |-> T[w]]
    BY DEF TagWords
  <2>2. \A w \in 1 .. b : T[w] \in W
    BY DEF TagRow
  <2> HIDE DEF T, W, b
  <2> QED
    BY <1>2, <2>1, <2>2
<1>5. F \in Seq(W)
  <2>1. F \in Seq(AnyArgWord)
    BY ArgWordsTyped DEF IsMessage
  <2>2. AnyArgWord \subseteq W
    OBVIOUS
  <2> HIDE DEF F, W
  <2> QED
    BY <2>1, <2>2
<1>6. Encoding(m) = (A \o T) \o F
  BY DEF Encoding, ArgWords
<1>7. /\ TagsStart(m) \div 4 = f + a /\ ArgsStart(m) \div 4 = f + a + b
      /\ last = 4 * f + 4 * a + 4 * b + 4 * c
  <2> HIDE DEF A, T, F, a, b, c, f
  <2>4. /\ TagsStart(m) = 4 * f + 4 * a
        /\ ArgsStart(m) = 4 * f + 4 * a + 4 * b
    BY <1>1, <1>2 DEF A, a, b, MessageSizes, TagsStart, ArgsStart
  <2>5. \A x, y, z \in Nat : /\ (4 * x + 4 * y) \div 4 = x + y
                             /\ (4 * x + 4 * y + 4 * z) \div 4 = x + y + z
    OBVIOUS
  <2>6. last = ArgsStart(m) + 4 * c
    BY DEF HoldsMessage, F, c
  <2> QED
    BY <1>2, <2>4, <2>5, <2>6
<1>8. /\ \A k \in 1 .. a : t.data[f + k - 1] = A[k]
      /\ \A k \in 1 .. b : t.data[f + a + k - 1] = T[k]
      /\ \A k \in 1 .. c : t.data[f + a + b + k - 1] = F[k]
  BY <1>7 DEF HoldsMessage, Holds, HoldsTags, TagRow
<1>9. a = Len(A) /\ c = Len(F)
  OBVIOUS
<1> HIDE DEF A, T, F, W, a, b, c, f
<1>10. /\ A \o T \in Seq(W) /\ Len(A \o T) = a + b
       /\ \A i \in 1 .. a + b : (A \o T)[i] = IF i <= a THEN A[i] ELSE T[i - a]
  BY <1>3, <1>4, <1>9, ConcatProperties
<1>11. /\ (A \o T) \o F \in Seq(W) /\ Len((A \o T) \o F) = a + b + c
       /\ \A i \in 1 .. a + b + c :
            ((A \o T) \o F)[i] = IF i <= a + b THEN (A \o T)[i] ELSE F[i - (a + b)]
  <2> DEFINE AT == A \o T
  <2>1. AT \in Seq(W) /\ Len(AT) = a + b
    BY <1>10
  <2> HIDE DEF AT
  <2>2. /\ AT \o F \in Seq(W) /\ Len(AT \o F) = Len(AT) + Len(F)
        /\ \A i \in 1 .. Len(AT) + Len(F) :
             (AT \o F)[i] = IF i <= Len(AT) THEN AT[i] ELSE F[i - Len(AT)]
    BY <1>5, <2>1, ConcatProperties
  <2>3. Len(AT) = a + b /\ Len(F) = c
    BY <1>9, <2>1
  <2>4. /\ AT \o F \in Seq(W) /\ Len(AT \o F) = a + b + c
        /\ \A i \in 1 .. a + b + c :
             (AT \o F)[i] = IF i <= a + b THEN AT[i] ELSE F[i - (a + b)]
    BY <2>2, <2>3
  <2> QED
    BY <2>4 DEF AT
<1>12. Len(Encoding(m)) = a + b + c /\ DOMAIN Encoding(m) = 1 .. a + b + c
  BY <1>6, <1>11
<1>13. ASSUME NEW i \in 1 .. a + b + c
       PROVE  t.data[f + i - 1] = ((A \o T) \o F)[i]
  <2>1. CASE i <= a
    <3>1. i \in 1 .. a /\ i \in 1 .. a + b /\ i <= a + b
      BY <1>2, <2>1
    <3> QED
      BY <1>8, <1>10, <1>11, <2>1, <3>1
  <2>2. CASE ~(i <= a) /\ i <= a + b
    <3>1. i - a \in 1 .. b /\ i \in 1 .. a + b /\ f + a + (i - a) - 1 = f + i - 1
      BY <1>2, <2>2
    <3>2. t.data[f + a + (i - a) - 1] = T[i - a]
      BY <1>8, <3>1
    <3> QED
      BY <1>10, <1>11, <2>2, <3>1, <3>2
  <2>3. CASE ~(i <= a + b)
    <3>1. i - (a + b) \in 1 .. c /\ f + a + b + (i - (a + b)) - 1 = f + i - 1
      BY <1>2, <2>3
    <3>2. t.data[f + a + b + (i - (a + b)) - 1] = F[i - (a + b)]
      BY <1>8, <3>1
    <3> QED
      BY <1>11, <2>3, <3>1, <3>2
  <2> QED
    BY <2>1, <2>2, <2>3
<1>14. last - m.first = 4 * Len(Encoding(m))
  BY <1>2, <1>7, <1>12
<1> QED
  BY <1>6, <1>12, <1>13, <1>14 DEF f

(* What a message holds does not depend on where it ends.                  *)
LEMMA HoldsAlike ==
  ASSUME NEW m, NEW c, NEW t, NEW last, HoldsMessage(t, m, last),
         c.first = m.first, c.addr = m.addr, c.numTags = m.numTags, c.put = m.put
  PROVE  HoldsMessage(t, c, last)
<1>1. ArgWords(c) = ArgWords(m)
  BY DEF ArgWords
<1>2. \A p : TagAt(c, p) = TagAt(m, p)
  BY DEF TagAt
<1>3. TagWords(c) = TagWords(m)
  BY <1>2 DEF TagWords
<1> QED
  BY <1>1, <1>3 DEF HoldsMessage, Holds, HoldsTags, TagRow, TagsStart, ArgsStart

-----------------------------------------------------------------------------
(* A message just opened has its comma and no tags.                        *)
LEMMA NoTagsYet ==
  ASSUME NEW m, IsMessage(m), m.put = << >>, NEW w \in TagRow(m)
  PROVE  TagWords(m)[w] = IF w = 1 THEN CommaWord ELSE ZeroWord
<1> DEFINE word == TagWords(m)[w]
           none == IF w = 1 THEN CommaWord ELSE ZeroWord
<1>1. w \in Nat /\ w >= 1 /\ w <= Align(m.numTags + 2) \div 4
  BY MessageSized DEF TagRow, MessageSizes
<1>2. /\ word = [k \in 1 .. 5 |-> word[k]]
      /\ word[1] = "chars"
      /\ \A k \in 1 .. 4 : word[k + 1] = TagAt(m, 4 * (w - 1) + k)
  BY <1>1, TagWordIs
<1>3. /\ none = [k \in 1 .. 5 |-> none[k]]
      /\ none[1] = "chars"
  BY CommaTagWord, ZeroTagWord DEF TagWord
<1>4. \A k \in 1 .. 4 : none[k + 1] = IF w = 1 /\ k = 1 THEN "," ELSE NUL
  <2> TAKE k \in 1 .. 4
  <2>1. k = 1 \/ k = 2 \/ k = 3 \/ k = 4
    OBVIOUS
  <2>2. /\ CommaWord[2] = "," /\ CommaWord[3] = NUL
        /\ CommaWord[4] = NUL /\ CommaWord[5] = NUL
    BY DEF CommaWord
  <2>3. /\ ZeroWord[2] = NUL /\ ZeroWord[3] = NUL
        /\ ZeroWord[4] = NUL /\ ZeroWord[5] = NUL
    BY DEF ZeroWord
  <2>4. CASE w = 1
    <3>1. none = CommaWord
      BY <2>4
    <3>2. CommaWord[k + 1] = IF k = 1 THEN "," ELSE NUL
      <4> DEFINE comma == ","
      <4>5. CommaWord[2] = comma /\ CommaWord[3] = NUL /\ CommaWord[4] = NUL /\ CommaWord[5] = NUL
        BY <2>2
      <4> HIDE DEF comma
      <4>6. CommaWord[k + 1] = IF k = 1 THEN comma ELSE NUL
        BY <2>1, <4>5
      <4> QED
        BY <4>6 DEF comma
    <3> HIDE DEF none
    <3> QED
      BY <2>4, <3>1, <3>2
  <2>5. CASE w # 1
    <3>1. none = ZeroWord
      BY <2>5
    <3> HIDE DEF none
    <3> QED
      BY <2>1, <2>3, <2>5, <3>1
  <2> QED
    BY <2>4, <2>5
<1>5. \A k \in 1 .. 4 : TagAt(m, 4 * (w - 1) + k) = IF w = 1 /\ k = 1 THEN "," ELSE NUL
  <2> TAKE k \in 1 .. 4
  <2>1. 4 * (w - 1) + k = 1 <=> w = 1 /\ k = 1
    BY <1>1
  <2> DEFINE p == 4 * (w - 1) + k
  <2>2. p # 1 => ~(p - 1 <= 0)
    BY <1>1
  <2>3. Len(m.put) = 0
    OBVIOUS
  <2>4. TagAt(m, p) = IF p = 1 THEN "," ELSE IF p - 1 <= 0 THEN m.put[p - 1].tag ELSE NUL
    BY <2>3 DEF TagAt
  <2> HIDE DEF p
  <2>5. TagAt(m, p) = IF p = 1 THEN "," ELSE NUL
    BY <2>2, <2>4
  <2> QED
    BY <2>1, <2>5 DEF p
<1> HIDE DEF word, none
<1>6. \A k \in 1 .. 4 : word[k + 1] = none[k + 1]
  BY <1>2, <1>4, <1>5
<1>7. word = none
  BY <1>2, <1>3, <1>6, SameWord
<1> QED
  BY <1>7 DEF word, none

LEMMA MessageBegun ==
  ASSUME NEW m, IsMessage(m), m.put = << >>, NEW t,
         Holds(t, m.first, StringWords(m.addr)),
         HoldsNoTags(t, TagsStart(m), Align(m.numTags + 2))
  PROVE  HoldsMessage(t, m, ArgsStart(m))
<1>1. ArgWords(m) = << >> /\ Len(ArgWords(m)) = 0
  BY NoArgWords
<1>2. Holds(t, ArgsStart(m), ArgWords(m))
  BY <1>1 DEF Holds
<1>3. HoldsTags(t, m)
  BY NoTagsYet DEF HoldsTags, HoldsNoTags, TagRow
<1>4. ArgsStart(m) = ArgsStart(m) + 4 * Len(ArgWords(m))
  BY <1>1, MessageSized DEF MessageSizes
<1> QED
  BY <1>2, <1>3, <1>4 DEF HoldsMessage

(* The tag of an argument is the only character of the tags it changes.    *)
LEMMA TagAdded ==
  ASSUME NEW m, IsMessage(m), NEW e, NEW arg \in Args, e.put = Append(m.put, arg)
  PROVE  /\ Len(m.put) \in Nat
         /\ TagAt(e, Len(m.put) + 2) = arg.tag
         /\ \A p \in Nat : p >= 1 /\ p # Len(m.put) + 2 => TagAt(e, p) = TagAt(m, p)
<1>1. /\ m.put \in Seq(Args) /\ Len(m.put) \in Nat
      /\ Len(e.put) = Len(m.put) + 1
      /\ \A i \in 1 .. Len(m.put) : e.put[i] = m.put[i]
      /\ e.put[Len(m.put) + 1] = arg
  <2>1. m.put \in Seq(Args) /\ Len(m.put) \in Nat
    BY DEF IsMessage
  <2> DEFINE put == m.put
             n == Len(put)
  <2>2. put \in Seq(Args) /\ n \in Nat /\ Len(put) = n
    BY <2>1
  <2> HIDE DEF put, n
  <2>3. /\ Len(Append(put, arg)) = n + 1
        /\ \A i \in 1 .. n : Append(put, arg)[i] = put[i]
        /\ Append(put, arg)[n + 1] = arg
    BY <2>2, AppendIndex
  <2> QED
    BY <2>1, <2>3 DEF put, n
<1>2. TagAt(e, Len(m.put) + 2) = arg.tag
  <2>1. Len(m.put) + 2 # 1 /\ Len(m.put) + 2 - 1 = Len(m.put) + 1
    BY <1>1
  <2> QED
    BY <1>1, <2>1 DEF TagAt
<1>3. ASSUME NEW p \in Nat, p >= 1, p # Len(m.put) + 2
      PROVE  TagAt(e, p) = TagAt(m, p)
  <2>1. CASE p = 1
    BY <2>1 DEF TagAt
  <2>2. CASE p # 1
    <3>1. p - 1 <= Len(e.put) <=> p - 1 <= Len(m.put)
      BY <1>1, <1>3
    <3>2. p - 1 <= Len(m.put) => p - 1 \in 1 .. Len(m.put)
      BY <1>1, <1>3, <2>2
    <3> QED
      BY <1>1, <2>2, <3>1, <3>2 DEF TagAt
  <2> QED
    BY <2>1, <2>2
<1> QED
  BY <1>1, <1>2, <1>3

LEMMA WordAndByte ==
  ASSUME NEW a \in Nat
  PROVE  a \div 4 \in Nat /\ a % 4 \in 0 .. 3 /\ a = 4 * (a \div 4) + (a % 4)
OBVIOUS

LEMMA TagsAdded ==
  ASSUME NEW m, IsMessage(m), NEW e, NEW arg \in Args, e.put = Append(m.put, arg),
         e.first = m.first, e.addr = m.addr, e.numTags = m.numTags,
         NEW s, NEW t, NEW at \in Nat, at = TagsStart(m) + 1 + Len(m.put),
         HoldsTags(s, m), WroteChar(s, at, arg.tag, t),
         ArgsStart(m) <= 4 * (capacity \div 4), capacity \in Nat
  PROVE  HoldsTags(t, e)
<1> DEFINE b == TagsStart(m) \div 4
           n == Len(m.put)
           q == at \div 4
           r == at % 4
           z == Align(m.numTags + 2) \div 4
<1>1. /\ n \in Nat
      /\ TagAt(e, n + 2) = arg.tag
      /\ \A p \in Nat : p >= 1 /\ p # n + 2 => TagAt(e, p) = TagAt(m, p)
  BY TagAdded
<1>2. MessageSizes(m)
  BY MessageSized
<1>3. /\ b \in Nat /\ TagsStart(m) = 4 * b /\ TagsStart(m) \in Nat
  BY <1>2, WordOf DEF MessageSizes
<1>4. /\ q \in Nat /\ r \in 0 .. 3 /\ at = 4 * q + r
  BY WordAndByte
<1>5. /\ z \in Nat /\ ArgsStart(m) = 4 * b + 4 * z
      /\ capacity \div 4 \in Nat
  BY <1>2, <1>3 DEF MessageSizes, ArgsStart
<1>6. TagsStart(e) = TagsStart(m) /\ TagRow(e) = 1 .. z /\ TagRow(m) = 1 .. z
      /\ Align(e.numTags + 2) \div 4 = z
  BY DEF TagsStart, TagRow
<1>7. 4 * q + r = 4 * b + 1 + n
  BY <1>3, <1>4
<1>8. b + z <= capacity \div 4
  BY <1>3, <1>5
<1> HIDE DEF b, n, q, r, z
<1> SUFFICES ASSUME NEW w \in 1 .. z
             PROVE  t.data[b + w - 1] = TagWords(e)[w]
  BY <1>6 DEF HoldsTags, b
<1> DEFINE i == b + w - 1
           old == TagWords(m)[w]
           new == TagWords(e)[w]
<1>9. w \in Nat /\ w >= 1 /\ w <= z
  BY <1>5
<1>10. /\ old = [k \in 1 .. 5 |-> old[k]] /\ old[1] = "chars"
       /\ \A k \in 1 .. 4 : old[k + 1] = TagAt(m, 4 * (w - 1) + k)
  BY <1>9, TagWordIs DEF z
<1>11. /\ new = [k \in 1 .. 5 |-> new[k]] /\ new[1] = "chars"
       /\ \A k \in 1 .. 4 : new[k + 1] = TagAt(e, 4 * (w - 1) + k)
  BY <1>6, <1>9, TagWordIs
<1>12. s.data[i] = old
  BY <1>6 DEF HoldsTags, b
<1>13. i \in 0 .. (capacity \div 4 - 1)
  BY <1>3, <1>5, <1>8, <1>9
<1> HIDE DEF i, old, new
<1>14. CASE i = q
  <2>1. /\ TagWord(t.data[i])
        /\ \A k \in 1 .. 5 : t.data[i][k] = IF k = 2 + r THEN arg.tag ELSE old[k]
    BY <1>12, <1>14 DEF WroteChar, q, r
  <2>2. t.data[i] = [k \in 1 .. 5 |-> t.data[i][k]] /\ t.data[i][1] = "chars"
    BY <2>1 DEF TagWord
  <2>3. ASSUME NEW k \in 1 .. 4
        PROVE  t.data[i][k + 1] = new[k + 1]
    <3>1. 4 * (w - 1) + k \in Nat /\ 4 * (w - 1) + k >= 1
          /\ (4 * (w - 1) + k = n + 2 <=> k + 1 = 2 + r)
      <4>1. q = b + w - 1
        BY <1>14 DEF i
      <4> QED
        BY <1>1, <1>3, <1>4, <1>7, <1>9, <4>1
    <3>2. t.data[i][k + 1] = IF k + 1 = 2 + r THEN arg.tag ELSE old[k + 1]
      BY <2>1
    <3>3. new[k + 1] = IF 4 * (w - 1) + k = n + 2 THEN arg.tag ELSE old[k + 1]
      BY <1>1, <1>10, <1>11, <3>1
    <3> QED
      BY <3>1, <3>2, <3>3
  <2>4. t.data[i] = new
    BY <1>11, <2>2, <2>3, SameWord
  <2> QED
    BY <2>4 DEF i, new
<1>15. CASE i # q
  <2>1. t.data[i] = old
    BY <1>12, <1>13, <1>15 DEF WroteChar, q
  <2>2. ASSUME NEW k \in 1 .. 4
        PROVE  old[k + 1] = new[k + 1]
    <3>1. 4 * (w - 1) + k \in Nat /\ 4 * (w - 1) + k >= 1 /\ 4 * (w - 1) + k # n + 2
      <4>1. q # b + w - 1
        BY <1>15 DEF i
      <4> QED
        BY <1>1, <1>3, <1>4, <1>7, <1>9, <4>1
    <3> QED
      BY <1>1, <1>10, <1>11, <3>1
  <2>3. old = new
    BY <1>10, <1>11, <2>2, SameWord
  <2> QED
    BY <2>1, <2>3 DEF i, new
<1> QED
  BY <1>14, <1>15

-----------------------------------------------------------------------------
(***************************************************************************)
(* With PacketInv inductive: closed messages hold their encoding, and the  *)
(* open one that of the arguments put so far.                              *)
(***************************************************************************)
ClosedContent == \A m \in closed : m.kind = "message" => IsMessage(m) /\ HoldsMessage(args, m, m.last)

OpenContent ==
  messageOpen => /\ IsMessage(Innermost)
                 /\ HoldsMessage(args, Innermost, args.pos)
                 /\ tags.begin = TagsStart(Innermost)

Content == ClosedContent /\ (args.ok = TRUE => OpenContent)

(* Nothing is written into what is closed.                                 *)
KeptClosed(t) ==
  \A e \in closed : \A i \in Nat :
    e.first <= 4 * i /\ 4 * i < e.last => t.data[i] = args.data[i]

LEMMA ClosedContentStays ==
  ASSUME ClosedContent, closed' = closed, KeptClosed(args')
  PROVE  ClosedContent'
<1> SUFFICES ASSUME NEW m \in closed, m.kind = "message"
             PROVE  IsMessage(m) /\ HoldsMessage(args', m, m.last)
  BY DEF ClosedContent, IsMessage, HoldsMessage, Holds, HoldsTags, TagRow, TagsStart, ArgsStart
<1>1. IsMessage(m) /\ HoldsMessage(args, m, m.last)
  BY DEF ClosedContent
<1>2. \A i \in Nat : m.first <= 4 * i /\ 4 * i < m.last => args'.data[i] = args.data[i]
  BY DEF KeptClosed
<1> QED
  BY <1>1, <1>2, MessageStays

LEMMA KeptBelow ==
  ASSUME PacketInv, args.ok = TRUE, SameBelow(args, args')
  PROVE  KeptClosed(args')
<1> SUFFICES ASSUME NEW e \in closed, NEW i \in Nat, 4 * i < e.last
             PROVE  args'.data[i] = args.data[i]
  BY DEF KeptClosed
<1>1. e.last \in Nat /\ e.last <= args.pos
  BY ClosedSlots
<1>2. args.pos \in Nat /\ args.pos % 4 = 0
  BY Sizes
<1>3. i \in 0 .. (args.pos \div 4 - 1)
  <2>1. 4 * i < 4 * (args.pos \div 4) /\ args.pos \div 4 \in Nat
    BY <1>1, <1>2, WordOf
  <2> QED
    BY <2>1
<1> QED
  BY <1>3 DEF SameBelow

LEMMA OpenedIsInnermost ==
  ASSUME PacketInv, mayOpen, NEW o \in Element, open' = Append(open, o)
  PROVE  Innermost' = o /\ open' # << >>
<1>1. args.ok = TRUE /\ ~messageOpen
  BY Sizes DEF mayOpen
<1>2. open \in Seq(Element) /\ Len(open) = inBundle /\ inBundle \in Nat
  BY <1>1, OnlyBundlesOpen, Sizes
<1>3. Len(open') = inBundle + 1 /\ open'[inBundle + 1] = o
  BY <1>2, AppendIndex
<1> QED
  BY <1>2, <1>3 DEF Innermost

LEMMA OpenBundleContent ==
  ASSUME PacketInv, Content, OpenBundle
  PROVE  Content' /\ KeptClosed(args')
<1>1. mayOpen /\ open' = Append(open, Opened("bundle", Null, 0)) /\ closed' = closed
  BY DEF OpenBundle
<1>2. args.ok = TRUE
  BY <1>1, Sizes DEF mayOpen
<1>3. KeptClosed(args')
  BY <1>2, OpenBundleWrites, KeptBelow DEF Extends
<1>4. ClosedContent'
  BY <1>1, <1>3, ClosedContentStays DEF Content
<1>5. ~messageOpen'
  <2> DEFINE o == Opened("bundle", Null, 0)
  <2>1. 0 \in Nat /\ Null \in Addresses \cup {Null} /\ "bundle" \in {"bundle", "message"}
    OBVIOUS
  <2>2. OpenedAs(o, "bundle", Null, 0)
    BY <1>1, <2>1, OpenedPlace
  <2>3. o \in Element /\ o.kind = "bundle" /\ open' = Append(open, o)
    BY <1>1, <2>2 DEF OpenedAs
  <2> HIDE DEF o
  <2>4. Innermost' = o
    BY <1>1, <2>3, OpenedIsInnermost
  <2> QED
    BY <2>3, <2>4 DEF messageOpen
<1> QED
  BY <1>3, <1>4, <1>5 DEF Content, OpenContent

LEMMA OpenMessageContent ==
  ASSUME PacketInv, Content, NEW addr \in Addresses, NEW numTags \in TagCounts,
         OpenMessage(addr, numTags)
  PROVE  Content' /\ KeptClosed(args')
<1> DEFINE o == Opened("message", addr, numTags)
<1>1. mayOpen /\ open' = Append(open, o) /\ closed' = closed
  BY DEF OpenMessage
<1>2. args.ok = TRUE
  BY <1>1, Sizes DEF mayOpen
<1>3. /\ SameBelow(args, args')
      /\ Moves(args, args', SlotBytes + SizeMessage(addr, numTags))
      /\ args'.ok = TRUE =>
           /\ Holds(args', AddressAt, StringWords(addr))
           /\ HoldsNoTags(args', TagsAt(addr), Align(numTags + 2))
           /\ tags' = [begin |-> TagsAt(addr), end |-> TagsAt(addr) + numTags + 2,
                       pos |-> TagsAt(addr) + 1]
  BY OpenMessageWrites
<1>4. KeptClosed(args')
  BY <1>2, <1>3, KeptBelow
<1>5. ClosedContent'
  BY <1>1, <1>4, ClosedContentStays DEF Content
<1>6. numTags \in Nat
  BY CallerAssumption
<1>7. OpenedAs(o, "message", addr, numTags)
  <2>1. "message" \in {"bundle", "message"} /\ addr \in Addresses \cup {Null}
    OBVIOUS
  <2> QED
    BY <1>1, <1>6, <2>1, OpenedPlace
<1>8. /\ o \in Element
      /\ o.kind = "message" /\ o.numTags = numTags /\ o.put = << >> /\ o.addr = addr
      /\ o.first = AddressAt /\ o.first % 4 = 0
  BY <1>7 DEF OpenedAs, AddressAt
<1> HIDE DEF o
<1>9. Innermost' = o
  BY <1>1, <1>8, OpenedIsInnermost
<1>10. IsMessage(o)
  <2>1. o.first \in Nat
    BY <1>8 DEF Element
  <2>2. o.put \in Seq(Args)
    BY <1>8 DEF Element
  <2> QED
    BY <1>6, <1>8, <2>1, <2>2 DEF IsMessage
<1>11. ASSUME args'.ok = TRUE
       PROVE  OpenContent'
  <2>1. TagsStart(o) = TagsAt(addr)
    BY <1>8 DEF TagsStart, TagsAt
  <2>2. args'.pos = ArgsStart(o)
    <3>1. args'.pos = args.pos + (SlotBytes + SizeMessage(addr, numTags))
      BY <1>3, <1>11 DEF Moves
    <3>2. ArgsStart(o) = args.pos + SlotBytes + SizeString(addr) + Align(numTags + 2)
      BY <1>8, <2>1 DEF ArgsStart, TagsAt, AddressAt
    <3>3. args.pos \in Nat /\ SlotBytes \in Nat
      BY Sizes DEF SlotBytes
    <3>4. SizeString(addr) \in Nat /\ Align(numTags + 2) \in Nat
      BY <1>8, <1>10, MessageSized DEF MessageSizes
    <3>5. SizeMessage(addr, numTags) = SizeString(addr) + Align(numTags + 2)
      BY DEF SizeMessage
    <3>6. \A x, y, z, w \in Nat : x + (y + (z + w)) = x + y + z + w
      OBVIOUS
    <3> QED
      BY <3>1, <3>2, <3>3, <3>4, <3>5, <3>6
  <2>3. HoldsMessage(args', o, args'.pos)
    BY <1>3, <1>8, <1>10, <1>11, <2>1, <2>2, MessageBegun
  <2>4. tags'.begin = TagsStart(o)
    BY <1>3, <1>11, <2>1
  <2> QED
    BY <1>9, <1>10, <2>3, <2>4
       DEF OpenContent, IsMessage, HoldsMessage, Holds, HoldsTags, TagRow, TagsStart, ArgsStart
<1> QED
  BY <1>4, <1>5, <1>11 DEF Content

(* Below the position an argument changes the word of its tag only, which  *)
(* lies behind the slot of the message and before its arguments.           *)
LEMMA PutArgKept ==
  ASSUME PacketInv, NEW arg \in Args, PutArg(arg)
  PROVE  KeptClosed(args')
<1> SUFFICES ASSUME NEW e \in closed, NEW i \in Nat, e.first <= 4 * i, 4 * i < e.last
             PROVE  args'.data[i] = args.data[i]
  BY DEF KeptClosed
<1>1. args.ok = TRUE /\ messageOpen
  BY Sizes DEF PutArg
<1>2. KeptButTag(args, args')
  BY PutArgWrites
<1>3. /\ tags.begin \in Nat
      /\ tags.begin <= 4 * (tags.pos \div 4)
      /\ Innermost.first < tags.begin
      /\ inBundle > 0 => /\ Innermost.slot \in Nat
                         /\ Innermost.first = Innermost.slot + 4
      /\ \A c \in closed : inBundle > 0 /\ c.last <= Innermost.slot
  BY <1>1, BeforeTheTags
<1>4. e.last \in Nat /\ e.last <= args.pos
  BY <1>1, ClosedSlots
<1>5. args.pos \in Nat /\ args.pos % 4 = 0
  BY Sizes
<1>6. i # tags.pos \div 4
  <2>1. e.last <= Innermost.slot /\ Innermost.slot + 4 < tags.begin /\ Innermost.slot \in Nat
    BY <1>3
  <2>2. \A l, z, b \in Nat : 4 * i < l /\ l <= z /\ z + 4 < b => ~(b <= 4 * i)
    OBVIOUS
  <2>3. ~(tags.begin <= 4 * i)
    BY <1>3, <1>4, <2>1, <2>2
  <2> QED
    BY <1>3, <2>3
<1>7. i \in 0 .. (args.pos \div 4 - 1)
  <2>1. 4 * i < 4 * (args.pos \div 4) /\ args.pos \div 4 \in Nat
    BY <1>4, <1>5, WordOf
  <2> QED
    BY <2>1
<1> QED
  BY <1>2, <1>6, <1>7 DEF KeptButTag

LEMMA PutArgContent ==
  ASSUME PacketInv, Content, NEW arg \in Args, PutArg(arg)
  PROVE  Content' /\ KeptClosed(args')
<1> DEFINE m == Innermost
<1>1. args.ok = TRUE /\ messageOpen /\ closed' = closed
  BY Sizes DEF PutArg
<1>2. open' = [open EXCEPT ![Len(open)].put = Append(@, arg)]
      /\ tags' = IF tags.pos < tags.end THEN [tags EXCEPT !.pos = @ + 1] ELSE tags
  BY DEF PutArg
<1>3. KeptClosed(args')
  BY PutArgKept
<1>4. ClosedContent'
  BY <1>1, <1>3, ClosedContentStays DEF Content
<1>5. IsMessage(m) /\ HoldsMessage(args, m, args.pos) /\ tags.begin = TagsStart(m)
  BY <1>1 DEF Content, OpenContent
<1> SUFFICES ASSUME args'.ok = TRUE
             PROVE  OpenContent'
  BY <1>3, <1>4 DEF Content
<1>6. /\ Room
      /\ args'.pos = args.pos + ArgBytes(arg)
      /\ WroteChar(args, tags.pos, arg.tag, Tagged(arg.tag))
      /\ \A i \in 0 .. (args.pos \div 4 - 1) : args'.data[i] = Tagged(arg.tag).data[i]
      /\ Holds(args', args.pos, arg.head)
      /\ Holds(args', args.pos + 4 * Len(arg.head), arg.data)
      /\ args.pos <= args'.pos
  BY PutArgWrites
<1>7. open \in Seq(Element) /\ open # << >>
  BY <1>1, BeforeTheTags
<1> DEFINE e == Innermost'
<1>8. /\ e = [m EXCEPT !.put = Append(m.put, arg)]
      /\ e.put = Append(m.put, arg)
      /\ m \in Element
  BY <1>2, <1>7, PutAppends, InnermostIsElement
<1>9. e.first = m.first /\ e.addr = m.addr /\ e.numTags = m.numTags
  BY <1>8 DEF Element
<1> HIDE DEF m, e
<1>10. IsMessage(e)
  <2>1. m.put \in Seq(Args) /\ Append(m.put, arg) \in Seq(Args)
    BY <1>5 DEF IsMessage
  <2> QED
    BY <1>5, <1>8, <1>9, <2>1 DEF IsMessage
<1>11. MessageSizes(m)
  BY <1>5, MessageSized
<1>12. /\ args.pos \in Nat /\ args.pos % 4 = 0 /\ capacity \in Nat /\ args.pos <= capacity
  BY Sizes
<1>13. /\ tags.pos \in Nat
       /\ tags.pos = TagsStart(m) + 1 + Len(m.put)
       /\ tags.begin <= 4 * (tags.pos \div 4)
       /\ tags.pos < ArgsStart(m)
  <2>1. TagArea
    BY <1>1 DEF PacketInv, Places
  <2>2. tags.pos = tags.begin + 1 + Len(m.put)
    BY <1>1, <2>1 DEF TagArea, m
  <2>3. tags.pos \in Nat /\ tags.pos < tags.begin + Align(m.numTags + 2)
    BY <1>1, <1>6, TagPlace DEF m
  <2>4. tags.begin <= 4 * (tags.pos \div 4)
    BY <1>1, BeforeTheTags
  <2> QED
    BY <1>5, <2>2, <2>3, <2>4 DEF ArgsStart
<1>14. args.pos = ArgsStart(m) + 4 * Len(ArgWords(m))
  BY <1>5 DEF HoldsMessage
<1>15. ArgsStart(m) <= 4 * (capacity \div 4)
  <2>1. ArgsStart(m) <= capacity /\ ArgsStart(m) \in Nat /\ ArgsStart(m) % 4 = 0
    <3>1. ArgsStart(m) \in Nat /\ ArgsStart(m) % 4 = 0 /\ Len(ArgWords(m)) \in Nat
      BY <1>11 DEF MessageSizes
    <3>2. \A x, n, p, c \in Nat : p = x + 4 * n /\ p <= c => x <= c
      OBVIOUS
    <3> QED
      BY <1>12, <1>14, <3>1, <3>2
  <2> QED
    BY <1>12, <2>1, WordBelow
(* The tags: what Tagged wrote is still there.                             *)
<1>16. HoldsTags(args', e)
  <2>1. HoldsTags(args, m)
    BY <1>5 DEF HoldsMessage
  <2>2. HoldsTags(Tagged(arg.tag), e)
    BY <1>5, <1>6, <1>8, <1>9, <1>12, <1>13, <1>15, <2>1, TagsAdded
  <2> SUFFICES ASSUME NEW w \in TagRow(e)
               PROVE  args'.data[TagsStart(e) \div 4 + w - 1] = TagWords(e)[w]
    BY DEF HoldsTags
  <2>3. Tagged(arg.tag).data[TagsStart(e) \div 4 + w - 1] = TagWords(e)[w]
    BY <2>2 DEF HoldsTags
  <2>4. TagsStart(e) \div 4 + w - 1 \in 0 .. (args.pos \div 4 - 1)
    <3>1. MessageSizes(e) /\ ArgsStart(e) = ArgsStart(m) /\ ArgWords(m) = ArgWords(m)
      BY <1>9, <1>10, MessageSized DEF ArgsStart, TagsStart
    <3> DEFINE z == Align(e.numTags + 2) \div 4
               b == TagsStart(e)
    <3>2. z \in Nat /\ b \in Nat /\ b % 4 = 0 /\ ArgsStart(e) = b + 4 * z /\ w \in 1 .. z
      BY <3>1 DEF MessageSizes, ArgsStart, TagRow
    <3>3. b + 4 * z <= args.pos
      <4>1. Len(ArgWords(m)) \in Nat /\ ArgsStart(e) \in Nat
        BY <1>11, <3>1 DEF MessageSizes
      <4> QED
        BY <1>14, <3>1, <3>2, <4>1
    <3> HIDE DEF z, b
    <3>4. b \div 4 + w - 1 \in 0 .. (args.pos \div 4 - 1)
      BY <1>12, <3>2, <3>3, RowInside
    <3> QED
      BY <3>4 DEF b
  <2> QED
    BY <1>6, <2>3, <2>4
(* The address and the arguments so far: not where the tag is.             *)
<1>17. \A i \in 0 .. (args.pos \div 4 - 1) :
         i # tags.pos \div 4 => args'.data[i] = args.data[i]
  BY PutArgWrites DEF KeptButTag
<1>18. Holds(args', e.first, StringWords(e.addr))
  <2> DEFINE a == Len(StringWords(m.addr))
             f == m.first
  <2>1. a \in Nat /\ f \in Nat /\ f % 4 = 0 /\ TagsStart(m) = f + 4 * a
    BY <1>5, <1>11 DEF MessageSizes, TagsStart, IsMessage
  <2>2. Holds(args, f, StringWords(m.addr))
    BY <1>5 DEF HoldsMessage
  <2> SUFFICES ASSUME NEW k \in 1 .. a
               PROVE  args'.data[f \div 4 + k - 1] = StringWords(m.addr)[k]
    BY <1>9 DEF Holds
  <2>3. args.data[f \div 4 + k - 1] = StringWords(m.addr)[k]
    BY <2>2 DEF Holds
  <2> HIDE DEF a, f
  <2>4. TagsStart(m) <= args.pos /\ TagsStart(m) \in Nat /\ TagsStart(m) % 4 = 0
    <3>1. /\ TagsStart(m) \in Nat /\ TagsStart(m) % 4 = 0
          /\ Align(m.numTags + 2) \in Nat /\ Len(ArgWords(m)) \in Nat
      BY <1>11 DEF MessageSizes
    <3>2. args.pos = TagsStart(m) + Align(m.numTags + 2) + 4 * Len(ArgWords(m))
      BY <1>14 DEF ArgsStart
    <3>3. \A x, y, n, p \in Nat : p = x + y + 4 * n => x <= p
      OBVIOUS
    <3> QED
      BY <1>12, <3>1, <3>2, <3>3
  <2>5. f + 4 * a <= args.pos
    BY <2>1, <2>4
  <2>6. f \div 4 + k - 1 \in 0 .. (args.pos \div 4 - 1)
        /\ 4 * (f \div 4 + k - 1) = f + 4 * (k - 1)
    BY <1>12, <2>1, <2>5, RowInside
  <2>7. f \div 4 + k - 1 # tags.pos \div 4
    <3>1. f + 4 * (k - 1) < f + 4 * a
      BY <2>1
    <3>2. f + 4 * a <= 4 * (tags.pos \div 4)
      BY <1>5, <1>13, <2>1
    <3>3. tags.pos \div 4 \in Nat
      BY <1>13, WordAndByte
    <3>4. 4 * (f \div 4 + k - 1) # 4 * (tags.pos \div 4)
      BY <2>1, <2>6, <3>1, <3>2, <3>3
    <3> QED
      BY <3>4
  <2> QED
    BY <1>17, <2>3, <2>6, <2>7
<1>19. ArgWords(e) = ArgWords(m) \o (arg.head \o arg.data)
       /\ ArgWords(m) \in Seq(AnyArgWord)
  BY <1>5, <1>8, ArgWordsAppend DEF IsMessage
<1>20. /\ arg.head \in Seq(AnyArgWord) /\ arg.data \in Seq(AnyArgWord)
       /\ Len(arg.head) \in Nat /\ Len(arg.data) \in Nat
  <2>1. arg.head \in Seq(NumberWords) /\ arg.data \in Seq(TextWords)
        /\ Len(arg.head) \in Nat /\ Len(arg.data) \in Nat
    BY ArgParts
  <2> QED
    BY <2>1 DEF AnyArgWord
<1>21. ArgsStart(e) = ArgsStart(m)
  BY <1>9 DEF ArgsStart, TagsStart
<1> DEFINE A == ArgWords(m)
           H == arg.head
           D == arg.data
           a == Len(A)
           h == Len(H)
           d == Len(D)
           f == ArgsStart(m) \div 4
           q == tags.pos \div 4
<1>22. /\ a \in Nat /\ h \in Nat /\ d \in Nat /\ f \in Nat /\ q \in Nat
       /\ ArgsStart(m) = 4 * f /\ q < f
       /\ args.pos = 4 * f + 4 * a /\ args.pos \div 4 = f + a
       /\ (args.pos + 4 * h) \div 4 = f + a + h
  <2>1. a \in Nat /\ h \in Nat /\ d \in Nat
    BY <1>11, <1>20 DEF MessageSizes
  <2>2. ArgsStart(m) \in Nat /\ ArgsStart(m) % 4 = 0
    BY <1>11 DEF MessageSizes
  <2>3. f \in Nat /\ ArgsStart(m) = 4 * f
    BY <2>2, WordOf
  <2>4. args.pos = 4 * f + 4 * a
    BY <1>14, <2>3
  <2>5. q \in Nat /\ 4 * q <= tags.pos
    BY <1>13
  <2>6. q < f
    BY <1>13, <2>3, <2>5
  <2> HIDE DEF a, h, d, f, q
  <2>7. \A x, y, z \in Nat : (4 * x + 4 * y) \div 4 = x + y
                             /\ (4 * x + 4 * y + 4 * z) \div 4 = x + y + z
    OBVIOUS
  <2> QED
    BY <2>1, <2>3, <2>4, <2>5, <2>6, <2>7
<1>23. /\ \A k \in 1 .. a : args.data[f + k - 1] = A[k]
       /\ \A k \in 1 .. h : args'.data[f + a + k - 1] = H[k]
       /\ \A k \in 1 .. d : args'.data[f + a + h + k - 1] = D[k]
  <2>1. Holds(args, ArgsStart(m), A)
    BY <1>5 DEF HoldsMessage
  <2> QED
    BY <1>6, <1>22, <2>1 DEF Holds
<1>24. A \in Seq(AnyArgWord) /\ H \in Seq(AnyArgWord) /\ D \in Seq(AnyArgWord)
       /\ a = Len(A) /\ h = Len(H) /\ d = Len(D)
       /\ ArgWords(e) = A \o (H \o D)
  BY <1>19, <1>20
<1> HIDE DEF A, H, D, a, h, d, f, q
<1>25. \A k \in 1 .. a : args'.data[f + k - 1] = A[k]
  <2> TAKE k \in 1 .. a
  <2>1. f + k - 1 \in 0 .. ((f + a) - 1) /\ f + k - 1 # q
    BY <1>22
  <2>2. f + k - 1 \in 0 .. (args.pos \div 4 - 1) /\ f + k - 1 # tags.pos \div 4
    BY <1>22, <2>1 DEF q
  <2> QED
    BY <1>17, <1>23, <2>2
<1> DEFINE B == H \o D
<1>26. /\ B \in Seq(AnyArgWord) /\ Len(B) = h + d
       /\ \A i \in 1 .. h + d : B[i] = IF i <= h THEN H[i] ELSE D[i - h]
  BY <1>24, ConcatProperties
<1> HIDE DEF B
<1>27. /\ Len(A \o B) = Len(A) + Len(B)
       /\ \A i \in 1 .. Len(A) + Len(B) :
            (A \o B)[i] = IF i <= Len(A) THEN A[i] ELSE B[i - Len(A)]
  BY <1>24, <1>26, ConcatProperties
<1>28. /\ Len(A \o B) = a + (h + d)
       /\ \A i \in 1 .. a + (h + d) :
            (A \o B)[i] = IF i <= a THEN A[i] ELSE B[i - a]
  BY <1>24, <1>26, <1>27
<1>29. ASSUME NEW i \in 1 .. a + (h + d)
       PROVE  args'.data[f + i - 1] = (A \o B)[i]
  <2>1. CASE i <= a
    <3>1. i \in 1 .. a
      BY <1>22, <2>1
    <3> QED
      BY <1>25, <1>28, <2>1, <3>1
  <2>2. CASE ~(i <= a) /\ i - a <= h
    <3>1. i - a \in 1 .. h /\ i - a \in 1 .. h + d /\ f + a + (i - a) - 1 = f + i - 1
      BY <1>22, <2>2
    <3>2. args'.data[f + a + (i - a) - 1] = H[i - a]
      BY <1>23, <3>1
    <3> QED
      BY <1>26, <1>28, <2>2, <3>1, <3>2
  <2>3. CASE ~(i - a <= h)
    <3>1. /\ (i - a) - h \in 1 .. d /\ i - a \in 1 .. h + d /\ ~(i <= a)
          /\ f + a + h + ((i - a) - h) - 1 = f + i - 1
      BY <1>22, <2>3
    <3>2. args'.data[f + a + h + ((i - a) - h) - 1] = D[(i - a) - h]
      BY <1>23, <3>1
    <3> QED
      BY <1>26, <1>28, <2>3, <3>1, <3>2
  <2> QED
    BY <2>1, <2>2, <2>3
<1>30. Holds(args', ArgsStart(e), ArgWords(e))
  <2>1. ArgWords(e) = A \o B
    BY <1>24 DEF B
  <2> QED
    BY <1>21, <1>28, <1>29, <2>1 DEF Holds, f
<1>31. args'.pos = ArgsStart(e) + 4 * Len(ArgWords(e))
  <2>1. ArgBytes(arg) = 4 * (h + d)
    BY DEF ArgBytes, h, d, H, D
  <2>2. Len(ArgWords(e)) = a + (h + d)
    BY <1>24, <1>28 DEF B
  <2> QED
    BY <1>6, <1>21, <1>22, <2>1, <2>2
<1>32. HoldsMessage(args', e, args'.pos)
  BY <1>16, <1>18, <1>30, <1>31 DEF HoldsMessage
<1>33. tags'.begin = TagsStart(e)
  <2>1. tags \in [begin : Nat, end : Nat, pos : Nat]
    BY DEF PacketInv, Types
  <2>2. tags'.begin = tags.begin
    BY <1>2, <2>1
  <2> QED
    BY <1>5, <1>9, <2>2 DEF TagsStart
<1> QED
  BY <1>10, <1>32, <1>33
     DEF e, OpenContent, IsMessage, HoldsMessage, Holds, HoldsTags, TagRow, TagsStart, ArgsStart

-----------------------------------------------------------------------------
(* closeBundle and closeMessage: the innermost element is closed, or       *)
(* nothing is.                                                             *)
Closing ==
  /\ args.ok = TRUE /\ open # << >>
  /\ capacity' = capacity /\ aligned' = aligned
  /\ args' = IF Len(open) > 1 THEN PutSize(args, Innermost.slot) ELSE args
  /\ IF args'.ok = TRUE THEN Close ELSE closed' = closed

LEMMA CloseBundleCloses ==
  ASSUME PacketInv, CloseBundle
  PROVE  /\ Closing
         /\ Innermost.kind = "bundle" /\ Len(open) = inBundle
         /\ args'.ok = TRUE => inBundle' = inBundle - 1
<1>1. /\ args.ok = TRUE /\ ~messageOpen /\ inBundle > 0
      /\ capacity' = capacity /\ aligned' = aligned
      /\ args' = IF inBundle > 1 THEN PutSize(args, sizePosB) ELSE args
  BY Sizes DEF CloseBundle
<1>2. open \in Seq(Element) /\ Len(open) = inBundle /\ inBundle \in Nat
  BY <1>1, OnlyBundlesOpen, Sizes
<1>3. open # << >> /\ Innermost = open[inBundle] /\ inBundle \in 1 .. Len(open)
  BY <1>1, <1>2 DEF Innermost
<1>4. SlotList /\ OpenNest
  BY <1>1 DEF PacketInv, Places
<1>5. args' = IF Len(open) > 1 THEN PutSize(args, Innermost.slot) ELSE args
  BY <1>1, <1>2, <1>3, <1>4 DEF SlotList
<1>6. Innermost.kind = "bundle"
  BY <1>3, <1>4 DEF OpenNest
<1>7. CASE args'.ok = TRUE
  <2>1. Close /\ inBundle' = inBundle - 1
    BY <1>7 DEF CloseBundle
  <2> QED
    BY <1>1, <1>2, <1>3, <1>5, <1>6, <1>7, <2>1 DEF Closing
<1>8. CASE args'.ok # TRUE
  <2>1. args'.ok = FALSE
    <3>1. open[Len(open)].slot = Innermost.slot
      BY DEF Innermost
    <3>2. IsStream(args)'
      BY <1>1, <1>3, <1>5, <3>1, ClosingWrites
    <3> QED
      BY <1>8, <3>2 DEF IsStream
  <2>2. closed' = closed
    BY <2>1 DEF CloseBundle
  <2> QED
    BY <1>1, <1>2, <1>3, <1>5, <1>6, <1>8, <2>2 DEF Closing
<1> QED
  BY <1>7, <1>8

LEMMA CloseMessageCloses ==
  ASSUME PacketInv, CloseMessage
  PROVE  Closing /\ messageOpen /\ Len(open) = inBundle + 1 /\ inBundle' = inBundle
<1>1. args.ok = TRUE
  BY Sizes DEF CloseMessage
<1>2. /\ messageOpen
      /\ capacity' = capacity /\ aligned' = aligned /\ inBundle' = inBundle
      /\ args' = IF inBundle > 0 THEN PutSize(args, sizePosM) ELSE args
  BY DEF CloseMessage
<1>3. open # << >> /\ Len(open) = inBundle + 1 /\ inBundle \in Nat
  BY <1>1, <1>2, BeforeTheTags, Sizes
<1>4. SlotList
  BY <1>1 DEF PacketInv, Places
<1>5. args' = IF Len(open) > 1 THEN PutSize(args, Innermost.slot) ELSE args
  <2>1. Len(open) > 1 <=> inBundle > 0
    BY <1>3
  <2>2. inBundle > 0 => sizePosM = Innermost.slot
    BY <1>2, <1>4 DEF SlotList
  <2> QED
    BY <1>2, <2>1, <2>2
<1>6. args'.ok \in BOOLEAN
  <2>1. open[Len(open)].slot = Innermost.slot
    BY DEF Innermost
  <2>2. IsStream(args)'
    BY <1>1, <1>2, <1>3, <1>5, <2>1, ClosingWrites
  <2> QED
    BY <2>2 DEF IsStream
<1>7. IF args'.ok = TRUE THEN Close ELSE closed' = closed
  <2>1. CASE args'.ok = TRUE
    BY <2>1 DEF CloseMessage
  <2>2. CASE args'.ok = FALSE
    BY <2>2 DEF CloseMessage
  <2> QED
    BY <1>6, <2>1, <2>2
<1> QED
  BY <1>1, <1>2, <1>3, <1>5, <1>7 DEF Closing

(* Only the slot of the innermost element is written, which lies outside   *)
(* all that is closed and before the element itself.                       *)
ClosesAt(n, slot) ==
  /\ n \in Nat /\ n >= 1 /\ n \in 1 .. Len(open)
  /\ n = 1 => slot = Null /\ open[n].first = 0
  /\ n > 1 => slot \in Nat /\ slot % 4 = 0 /\ open[n].first = slot + 4 /\ slot + 12 <= args.pos
  /\ Innermost = open[n] /\ Innermost \in Element
  /\ args'.ok = TRUE => args'.pos = args.pos
  /\ \A i \in 0 .. (capacity \div 4 - 1) :
       args'.data[i] = args.data[i] \/ (n > 1 /\ 4 * i = slot)

LEMMA ClosingPlace ==
  ASSUME PacketInv, Closing, NEW n, n = Len(open), NEW slot, slot = Innermost.slot
  PROVE  ClosesAt(n, slot)
<1>1. /\ args.ok = TRUE /\ open # << >>
      /\ capacity' = capacity /\ aligned' = aligned
      /\ args' = IF n > 1 THEN PutSize(args, slot) ELSE args
  BY DEF Closing
<1>2. slot = open[n].slot
  BY DEF Innermost
<1>3. /\ n \in Nat /\ n >= 1
      /\ n > 1 => slot \in Nat /\ slot % 4 = 0 /\ slot + 12 <= args.pos
      /\ args'.ok = TRUE => args'.pos = args.pos
      /\ \A i \in 0 .. (capacity \div 4 - 1) :
           args'.data[i] = args.data[i] \/ (n > 1 /\ i = slot \div 4 /\ aligned = TRUE)
  BY <1>1, <1>2, ClosingWrites
<1>4. OpenNest
  BY <1>1 DEF PacketInv, Places
<1>5. n \in 1 .. Len(open) /\ Innermost = open[n]
  BY <1>3 DEF Innermost
<1>6. Innermost \in Element
  BY <1>1, <1>4, InnermostIsElement DEF OpenNest
<1>7. /\ n = 1 => slot = Null /\ open[n].first = 0
      /\ n > 1 => open[n].first = slot + 4
  BY <1>2, <1>4, <1>5 DEF OpenNest
<1>8. n > 1 => slot = 4 * (slot \div 4)
  BY <1>3, WordOf
<1> QED
  BY <1>3, <1>5, <1>6, <1>7, <1>8 DEF ClosesAt

LEMMA ClosingKept ==
  ASSUME PacketInv, Closing
  PROVE  /\ KeptClosed(args')
         /\ \A i \in Nat : Innermost.first <= 4 * i /\ 4 * i < args.pos
                             => args'.data[i] = args.data[i]
<1> DEFINE n == Len(open)
           slot == Innermost.slot
<1>1. ClosesAt(n, slot)
  BY ClosingPlace
<1>2. args.ok = TRUE
  BY DEF Closing
<1>3. /\ args.pos \in Nat /\ args.pos <= capacity /\ args.pos % 4 = 0 /\ capacity \in Nat
  BY Sizes
<1> HIDE DEF n, slot
<1>4. /\ n > 1 => slot \in Nat /\ open[n].first = slot + 4
      /\ Innermost = open[n]
      /\ \A i \in 0 .. (capacity \div 4 - 1) :
           args'.data[i] = args.data[i] \/ (n > 1 /\ 4 * i = slot)
  BY <1>1 DEF ClosesAt
<1>5. \A i \in Nat : 4 * i < args.pos => i \in 0 .. (capacity \div 4 - 1)
  <2> TAKE i \in Nat
  <2>1. 4 * (capacity \div 4) >= args.pos /\ capacity \div 4 \in Nat
    BY <1>3, WordBelow
  <2> HAVE 4 * i < args.pos
  <2> QED
    BY <1>3, <2>1
<1>6. \A i \in Nat : Innermost.first <= 4 * i /\ 4 * i < args.pos
                       => args'.data[i] = args.data[i]
  <2> TAKE i \in Nat
  <2> HAVE Innermost.first <= 4 * i /\ 4 * i < args.pos
  <2>1. ~(n > 1 /\ 4 * i = slot)
    BY <1>4
  <2> QED
    BY <1>4, <1>5, <2>1
<1>7. KeptClosed(args')
  <2> SUFFICES ASSUME NEW e \in closed, NEW i \in Nat, e.first <= 4 * i, 4 * i < e.last
               PROVE  args'.data[i] = args.data[i]
    BY DEF KeptClosed
  <2>1. /\ e.first \in Nat /\ e.last \in Nat /\ e.last <= args.pos
        /\ e.slot # Null => e.slot \in Nat /\ e.first = e.slot + 4
        /\ e.slot = Null => open = << >>
    BY <1>2, ClosedSlots
  <2>2. ~(n > 1 /\ 4 * i = slot)
    <3> SUFFICES ASSUME n > 1, 4 * i = slot PROVE FALSE
      OBVIOUS
    <3>1. ClosedPlaces /\ n \in 1 .. Len(open)
      BY <1>1, <1>2 DEF PacketInv, Places, ClosesAt
    <3>2. Beside(e, n) \/ Within(e, n)
      BY <3>1 DEF ClosedPlaces
    <3>3. open[n].slot = slot
      BY <1>4 DEF slot
    <3>4. e.slot \in Nat /\ e.first = e.slot + 4
      BY <2>1 DEF Closing
    <3>5. CASE Beside(e, n)
      BY <2>1, <3>3, <3>5 DEF Beside
    <3>6. CASE Within(e, n)
      BY <1>4, <3>4, <3>6 DEF Within, SizeBundle
    <3> QED
      BY <3>2, <3>5, <3>6
  <2>3. 4 * i < args.pos
    BY <1>3, <2>1
  <2> QED
    BY <1>4, <1>5, <2>2, <2>3
<1> QED
  BY <1>6, <1>7

LEMMA ClosesInnermost ==
  ASSUME PacketInv, Closing, args'.ok = TRUE
  PROVE  ~messageOpen'
<1> DEFINE n == Len(open)
<1>1. ClosesAt(n, Innermost.slot)
  BY ClosingPlace
<1>2. OpenNest /\ open' = SubSeq(open, 1, n - 1)
  BY DEF PacketInv, Places, Closing, Close
<1> HIDE DEF n
<1>3. n \in Nat /\ n >= 1 /\ n \in 1 .. Len(open)
  BY <1>1 DEF ClosesAt
<1>4. n \in {inBundle, inBundle + 1} /\ open \in Seq(Element) /\ inBundle \in Nat
  BY <1>2, Sizes DEF OpenNest, n
<1>5. Len(open') = n - 1 /\ \A i \in 1 .. n - 1 : open'[i] = open[i]
  BY <1>2, <1>3, <1>4
<1>6. CASE n = 1
  <2>1. open' = << >>
    BY <1>2, <1>6
  <2> QED
    BY <2>1 DEF messageOpen
<1>7. CASE n > 1
  <2>1. n - 1 \in 1 .. n - 1 /\ n - 1 \in 1 .. Len(open) /\ n - 1 <= inBundle
    BY <1>3, <1>4, <1>7
  <2>2. Innermost' = open[n - 1]
    BY <1>5, <2>1 DEF Innermost
  <2>3. open[n - 1].kind = "bundle"
    BY <1>2, <2>1 DEF OpenNest
  <2> QED
    BY <2>2, <2>3 DEF messageOpen
<1> QED
  BY <1>3, <1>6, <1>7

LEMMA ClosingContent ==
  ASSUME PacketInv, Content, Closing
  PROVE  Content' /\ KeptClosed(args')
<1>1. KeptClosed(args')
  BY ClosingKept
<1>2. CASE args'.ok # TRUE
  <2>1. closed' = closed
    BY <1>2 DEF Closing
  <2> QED
    BY <1>1, <1>2, <2>1, ClosedContentStays DEF Content
<1>3. CASE args'.ok = TRUE
  <2> DEFINE c == [Innermost EXCEPT !.last = args.pos]
  <2>1. closed' = closed \cup {c} /\ args.ok = TRUE /\ open # << >>
    BY <1>3 DEF Closing, Close
  <2>2. Innermost \in Element
    BY ClosingPlace DEF ClosesAt
  <2>3. /\ c.first = Innermost.first /\ c.addr = Innermost.addr /\ c.kind = Innermost.kind
        /\ c.numTags = Innermost.numTags /\ c.put = Innermost.put
        /\ c.last = args.pos
    BY <2>2 DEF Element
  <2> HIDE DEF c
  <2>4. ASSUME c.kind = "message"
        PROVE  IsMessage(c) /\ HoldsMessage(args', c, c.last)
    <3>1. messageOpen
      BY <2>1, <2>3, <2>4 DEF messageOpen
    <3>2. IsMessage(Innermost) /\ HoldsMessage(args, Innermost, args.pos)
      BY <2>1, <3>1 DEF Content, OpenContent
    <3>3. \A i \in Nat : Innermost.first <= 4 * i /\ 4 * i < args.pos
                           => args'.data[i] = args.data[i]
      BY ClosingKept
    <3>4. HoldsMessage(args', Innermost, args.pos)
      BY <3>2, <3>3, MessageStays
    <3>5. HoldsMessage(args', c, args.pos)
      BY <2>3, <3>4, HoldsAlike
    <3> QED
      BY <2>3, <3>2, <3>5 DEF IsMessage
  <2>5. ASSUME NEW m \in closed, m.kind = "message"
        PROVE  IsMessage(m) /\ HoldsMessage(args', m, m.last)
    <3>1. IsMessage(m) /\ HoldsMessage(args, m, m.last)
      BY <2>5 DEF Content, ClosedContent
    <3>2. \A i \in Nat : m.first <= 4 * i /\ 4 * i < m.last => args'.data[i] = args.data[i]
      BY <1>1 DEF KeptClosed
    <3> QED
      BY <3>1, <3>2, MessageStays
  <2>6. ClosedContent'
    <3>1. \A m \in closed' : m.kind = "message" => IsMessage(m) /\ HoldsMessage(args', m, m.last)
      BY <2>1, <2>4, <2>5
    <3> QED
      BY <3>1 DEF ClosedContent, IsMessage, HoldsMessage, Holds, HoldsTags, TagRow,
                  TagsStart, ArgsStart
  <2>7. ~messageOpen'
    BY <1>3, ClosesInnermost
  <2> QED
    BY <1>1, <2>6, <2>7 DEF Content, OpenContent
<1> QED
  BY <1>2, <1>3

LEMMA NextContent == PacketInv /\ Content /\ [Next]_vars => Content'
<1> SUFFICES ASSUME PacketInv, Content, [Next]_vars PROVE Content'
  OBVIOUS
<1>1. ASSUME NEW size \in Capacities, NEW atFour \in Alignments, Reset(size, atFour)
      PROVE  Content'
  BY <1>1 DEF Reset, Content, ClosedContent, OpenContent, messageOpen
<1>2. CASE OpenBundle
  BY <1>2, OpenBundleContent
<1>3. CASE CloseBundle
  BY <1>3, CloseBundleCloses, ClosingContent
<1>4. ASSUME NEW addr \in Addresses, NEW numTags \in TagCounts, OpenMessage(addr, numTags)
      PROVE  Content'
  BY <1>4, OpenMessageContent
<1>5. ASSUME NEW arg \in Args, PutArg(arg)
      PROVE  Content'
  BY <1>5, PutArgContent
<1>6. CASE CloseMessage
  BY <1>6, CloseMessageCloses, ClosingContent
<1>7. CASE UNCHANGED vars
  <2>1. ClosedContent'
    BY <1>7 DEF vars, Content, ClosedContent, IsMessage, HoldsMessage, Holds, HoldsTags,
       TagRow, TagsStart, ArgsStart
  <2>2. args.ok = TRUE => OpenContent'
    BY <1>7 DEF vars, Content, OpenContent, messageOpen, Innermost, IsMessage, HoldsMessage,
       Holds, HoldsTags, TagRow, TagsStart, ArgsStart
  <2>3. args' = args
    BY <1>7 DEF vars
  <2> QED
    BY <2>1, <2>2, <2>3 DEF Content
<1> QED
  BY <1>1, <1>2, <1>3, <1>4, <1>5, <1>6, <1>7 DEF Next

LEMMA ContentAlways == Spec => []Content
<1>1. Init => Content
  BY DEF Init, Content, ClosedContent, OpenContent, messageOpen
<1> QED
  BY <1>1, NextContent, PacketAlways, PTL DEF Spec

(* A closed message is the address, the tag string with comma and          *)
(* terminator and the arguments in the order they were put, and stays so   *)
(* whatever is written later: the encoding OSC asks for, for arguments of  *)
(* any number and length.                                                  *)
THEOREM ClosedMessagesIntact == Spec => []MessagesIntact
<1>1. Content => MessagesIntact
  <2> SUFFICES ASSUME Content, NEW m \in closed, m.kind = "message"
               PROVE  /\ m.last - m.first = 4 * Len(Encoding(m))
                      /\ \A i \in DOMAIN Encoding(m) :
                           args.data[m.first \div 4 + i - 1] = Encoding(m)[i]
    BY DEF MessagesIntact
  <2>1. IsMessage(m) /\ HoldsMessage(args, m, m.last)
    BY DEF Content, ClosedContent
  <2> QED
    BY <2>1, EncodingHeld
<1> QED
  BY <1>1, ContentAlways, PTL

-----------------------------------------------------------------------------
(***************************************************************************)
(* Bundles: from the header on, up to `last`, the elements of C that lie   *)
(* in between leave no gap.  For a closed bundle that is all of it; of an  *)
(* open one it holds up to the slot of the next open element.              *)
(***************************************************************************)
Inside(first, last, C) == {e \in C : e.slot # Null /\ e.slot >= first /\ e.last <= last}
Ends(first, last, C) == {first + SizeBundle} \cup {e.last : e \in Inside(first, last, C)}

Tiled(first, last, C) ==
  /\ \A p \in Ends(first, last, C) : p < last => \E e \in Inside(first, last, C) : e.slot = p
  /\ last \in Ends(first, last, C)

HasHeader(t, first) ==
  \A i \in {1, 2} : /\ t.data[first \div 4 + i - 1] = BundleWords[i]
                    /\ t.data[first \div 4 + i + 1] = TimeWords[i]

Limit(i) == IF i < Len(open) THEN open[i + 1].slot ELSE args.pos

ClosedTiles ==
  \A b \in closed : b.kind = "bundle" =>
    HasHeader(args, b.first) /\ b.first + SizeBundle <= b.last /\ Tiled(b.first, b.last, closed)

OpenTiles ==
  \A i \in 1 .. inBundle : HasHeader(args, open[i].first) /\ Tiled(open[i].first, Limit(i), closed)

Tiles == ClosedTiles /\ (args.ok = TRUE => OpenTiles)

(* An element outside a region changes nothing in it.                      *)
LEMMA TiledApart ==
  ASSUME NEW first, NEW last, NEW C, NEW c,
         ~(c.slot # Null /\ c.slot >= first /\ c.last <= last)
  PROVE  Tiled(first, last, C \cup {c}) <=> Tiled(first, last, C)
<1>1. Inside(first, last, C \cup {c}) = Inside(first, last, C)
  BY DEF Inside
<1> QED
  BY <1>1 DEF Tiled, Ends

(* An element closed right behind the last one in a bundle goes on the row,*)
(* with all that it contains.                                              *)
LEMMA TiledFurther ==
  ASSUME NEW C, NEW c, NEW first \in Nat, NEW slot \in Nat, NEW pos \in Nat,
         c.slot = slot, c.last = pos, first + 16 <= slot, slot + 12 <= pos,
         \A e \in C : e.slot # Null =>
           /\ e.slot \in Nat /\ e.last \in Nat
           /\ e.last <= slot \/ (c.kind = "bundle" /\ e.slot >= slot + 4),
         Tiled(first, slot, C),
         c.kind = "bundle" => Tiled(slot + 4, pos, C)
  PROVE  Tiled(first, pos, C \cup {c})
<1> DEFINE D == C \cup {c}
           In == Inside(first, pos, D)
<1>1. slot # Null
  BY CallerAssumption
<1>2. c \in In
  BY <1>1 DEF Inside
<1>3. Inside(first, slot, C) \subseteq In
  <2> SUFFICES ASSUME NEW e \in Inside(first, slot, C)
               PROVE  e \in In
    OBVIOUS
  <2>1. e \in C /\ e.slot # Null /\ e.slot >= first /\ e.last <= slot
    BY DEF Inside
  <2>2. e.last \in Nat
    BY <2>1
  <2>3. e.last <= pos
    BY <2>1, <2>2
  <2> QED
    BY <2>1, <2>3 DEF Inside
<1>4. c.kind = "bundle" => Inside(slot + 4, pos, C) \subseteq In
  <2> SUFFICES ASSUME NEW e \in Inside(slot + 4, pos, C)
               PROVE  e \in In
    OBVIOUS
  <2>1. e \in C /\ e.slot # Null /\ e.slot >= slot + 4 /\ e.last <= pos
    BY DEF Inside
  <2>2. e.slot \in Nat
    BY <2>1
  <2>3. e.slot >= first
    BY <2>1, <2>2
  <2> QED
    BY <2>1, <2>3 DEF Inside
<1>5. SizeBundle = 16
  BY DEF SizeBundle
<1>6. pos \in Ends(first, pos, D)
  BY <1>2 DEF Ends
<1>7. ASSUME NEW p \in Ends(first, pos, D), p < pos
      PROVE  \E e \in In : e.slot = p
  <2>1. ASSUME p \in Ends(first, slot, C), p \in Nat, p <= slot
        PROVE  \E e \in In : e.slot = p
    <3>1. CASE p = slot
      BY <1>2, <3>1
    <3>2. CASE p # slot
      <4>1. p < slot
        BY <2>1, <3>2
      <4>2. PICK e \in Inside(first, slot, C) : e.slot = p
        BY <2>1, <4>1 DEF Tiled
      <4> QED
        BY <1>3, <4>2
    <3> QED
      BY <3>1, <3>2
  <2>2. CASE p = first + SizeBundle
    <3>1. p \in Ends(first, slot, C)
      BY <2>2 DEF Ends
    <3>2. p \in Nat /\ p <= slot
      BY <1>5, <2>2
    <3> QED
      BY <2>1, <3>1, <3>2
  <2>3. CASE p # first + SizeBundle
    <3>1. PICK e \in In : p = e.last
      BY <2>3 DEF Ends
    <3>2. e # c
      BY <1>7, <3>1
    <3>3. e \in C /\ e.slot # Null /\ e.slot >= first /\ e.last <= pos
      BY <3>2 DEF Inside
    <3>4. e.slot \in Nat /\ e.last \in Nat
      BY <3>3
    <3>5. CASE e.last <= slot
      <4>1. e \in Inside(first, slot, C)
        BY <3>3, <3>5 DEF Inside
      <4>2. p \in Ends(first, slot, C)
        BY <3>1, <4>1 DEF Ends
      <4> QED
        BY <2>1, <3>1, <3>4, <3>5, <4>2
    <3>6. CASE c.kind = "bundle" /\ e.slot >= slot + 4
      <4>1. e \in Inside(slot + 4, pos, C)
        BY <3>3, <3>6 DEF Inside
      <4>2. p \in Ends(slot + 4, pos, C)
        BY <3>1, <4>1 DEF Ends
      <4>3. PICK d \in Inside(slot + 4, pos, C) : d.slot = p
        BY <1>7, <3>6, <4>2 DEF Tiled
      <4> QED
        BY <1>4, <3>6, <4>3
    <3> QED
      BY <3>3, <3>5, <3>6
  <2> QED
    BY <2>2, <2>3
<1> QED
  BY <1>6, <1>7 DEF Tiled

LEMMA FourWords ==
  ASSUME NEW f \in Nat, f % 4 = 0, NEW i \in {1, 2}
  PROVE  \A w \in {f \div 4 + i - 1, f \div 4 + i + 1} :
           w \in Nat /\ f <= 4 * w /\ 4 * w < f + 16
<1>1. f \div 4 \in Nat /\ f = 4 * (f \div 4)
  BY WordOf
<1>2. \A x \in Nat : \A w \in {x + i - 1, x + i + 1} :
        w \in Nat /\ 4 * x <= 4 * w /\ 4 * w < 4 * x + 16
  OBVIOUS
<1> QED
  BY <1>1, <1>2

LEMMA ClosedTilesStay ==
  ASSUME PacketInv, args.ok = TRUE, ClosedTiles, closed' = closed, KeptClosed(args')
  PROVE  ClosedTiles'
<1> SUFFICES ASSUME NEW b \in closed, b.kind = "bundle"
             PROVE  HasHeader(args', b.first) /\ b.first + SizeBundle <= b.last
                    /\ Tiled(b.first, b.last, closed)
  BY DEF ClosedTiles, HasHeader, Tiled, Ends, Inside
<1>1. HasHeader(args, b.first) /\ b.first + SizeBundle <= b.last /\ Tiled(b.first, b.last, closed)
  BY DEF ClosedTiles
<1>2. b.first \in Nat /\ b.last \in Nat /\ b.first % 4 = 0
  BY ClosedSlots DEF PacketInv, Places, ClosedPlaces
<1>3. \A i \in {1, 2} : \A w \in {b.first \div 4 + i - 1, b.first \div 4 + i + 1} :
        args'.data[w] = args.data[w]
  <2> TAKE i \in {1, 2}
  <2> TAKE w \in {b.first \div 4 + i - 1, b.first \div 4 + i + 1}
  <2>1. w \in Nat /\ b.first <= 4 * w /\ 4 * w < b.first + 16
    BY <1>2, FourWords
  <2>2. b.first + 16 <= b.last
    BY <1>1 DEF SizeBundle
  <2>3. 4 * w < b.last
    BY ONLY <1>2, <2>1, <2>2
  <2> QED
    BY <2>1, <2>3 DEF KeptClosed
<1> QED
  BY <1>1, <1>3 DEF HasHeader

(* Where the open bundles begin, and the header of each.                   *)
LEMMA OpenBundlesAt ==
  ASSUME PacketInv, args.ok = TRUE, NEW i \in 1 .. inBundle
  PROVE  /\ i \in 1 .. Len(open) /\ Len(open) \in Nat
         /\ open[i].first \in Nat /\ open[i].first % 4 = 0
         /\ open[i].first + 16 <= args.pos
         /\ i < Len(open) => i + 1 \in 1 .. Len(open) /\ open[i + 1].slot \in Nat
                             /\ open[i].first + 16 <= open[i + 1].slot
         /\ \A j \in 1 .. Len(open) : i < j => open[i].first + 16 <= open[j].slot
<1>1. OpenNest /\ inBundle \in Nat
  BY Sizes DEF PacketInv, Places
<1>2. i \in 1 .. Len(open) /\ Len(open) \in Nat
  BY <1>1 DEF OpenNest
<1>3. open[i].first \in Nat
  <2>1. open[i] \in Element
    BY <1>1, <1>2 DEF OpenNest
  <2> QED
    BY <2>1 DEF Element
<1>4. i <= inBundle
  BY <1>1
<1>5. open[i].first % 4 = 0 /\ open[i].first + 16 <= args.pos
  BY <1>1, <1>2, <1>4 DEF OpenNest, SizeBundle
<1>6. \A j \in 1 .. Len(open) : i < j => open[i].first + 16 <= open[j].slot
  BY <1>1, <1>2 DEF OpenNest, SizeBundle
<1>7. i < Len(open) => i + 1 \in 1 .. Len(open) /\ i + 1 > 1 /\ i < i + 1
  BY <1>1, <1>2
<1>8. i < Len(open) => open[i + 1].slot \in Nat
  BY <1>1, <1>7 DEF OpenNest
<1> QED
  BY <1>2, <1>3, <1>5, <1>6, <1>7, <1>8

LEMMA HeaderStays ==
  ASSUME NEW f \in Nat, f % 4 = 0, HasHeader(args, f),
         \A w \in Nat : f <= 4 * w /\ 4 * w < f + 16 => args'.data[w] = args.data[w]
  PROVE  HasHeader(args', f)
<1> SUFFICES ASSUME NEW i \in {1, 2}
             PROVE  \A w \in {f \div 4 + i - 1, f \div 4 + i + 1} :
                      args'.data[w] = args.data[w]
  BY DEF HasHeader
<1> QED
  BY FourWords

(* Opening an element: the row of the bundle around it ends at its slot.   *)
LEMMA OpenedTiles ==
  ASSUME PacketInv, Tiles, mayOpen, closed' = closed, SameBelow(args, args'),
         NEW o \in Element, open' = Append(open, o),
         inBundle > 0 => o.slot = args.pos
  PROVE  /\ ClosedTiles'
         /\ Len(open') = inBundle + 1 /\ open'[inBundle + 1] = o
         /\ \A i \in 1 .. inBundle :
              /\ open'[i] = open[i]
              /\ HasHeader(args', open[i].first)
              /\ Tiled(open[i].first, Limit(i)', closed)
<1>1. args.ok = TRUE /\ ~messageOpen
  BY Sizes DEF mayOpen
<1>2. open \in Seq(Element) /\ Len(open) = inBundle /\ inBundle \in Nat
  BY <1>1, OnlyBundlesOpen, Sizes
<1>3. /\ Len(open') = inBundle + 1
      /\ \A i \in 1 .. inBundle : open'[i] = open[i]
      /\ open'[inBundle + 1] = o
  BY <1>2, AppendIndex
<1>4. KeptClosed(args')
  BY <1>1, KeptBelow
<1>5. ClosedTiles'
  BY <1>1, <1>4, ClosedTilesStay DEF Tiles
<1>6. args.pos \in Nat /\ args.pos % 4 = 0
  BY Sizes
<1>7. ASSUME NEW i \in 1 .. inBundle
      PROVE  HasHeader(args', open[i].first) /\ Tiled(open[i].first, Limit(i)', closed)
  <2>1. HasHeader(args, open[i].first) /\ Tiled(open[i].first, Limit(i), closed)
    BY <1>1 DEF Tiles, OpenTiles
  <2>2. open[i].first \in Nat /\ open[i].first % 4 = 0 /\ open[i].first + 16 <= args.pos
    BY <1>1, OpenBundlesAt
  <2>3. ASSUME NEW w \in Nat, 4 * w < open[i].first + 16
        PROVE  args'.data[w] = args.data[w]
    <3>1. 4 * w < args.pos
      BY <1>6, <2>2, <2>3
    <3>2. args.pos \div 4 \in Nat /\ args.pos = 4 * (args.pos \div 4)
      BY <1>6, WordOf
    <3>3. w \in 0 .. (args.pos \div 4 - 1)
      BY <3>1, <3>2
    <3> QED
      BY <3>3 DEF SameBelow
  <2>4. HasHeader(args', open[i].first)
    BY <2>1, <2>2, <2>3, HeaderStays
  <2>5. Limit(i)' = Limit(i)
    <3>1. CASE i = inBundle
      <4>1. Limit(i)' = o.slot /\ inBundle > 0
        BY <1>2, <1>3, <3>1 DEF Limit
      <4>2. Limit(i) = args.pos
        BY <1>2, <3>1 DEF Limit
      <4> QED
        BY <4>1, <4>2
    <3>2. CASE i # inBundle
      <4>1. i < Len(open) /\ i < Len(open') /\ i + 1 \in 1 .. inBundle
        BY <1>2, <1>3, <3>2
      <4>2. open'[i + 1] = open[i + 1]
        BY <1>3, <4>1
      <4> QED
        BY <4>1, <4>2 DEF Limit
    <3> QED
      BY <3>1, <3>2
  <2> QED
    BY <2>1, <2>4, <2>5
<1> QED
  BY <1>3, <1>5, <1>7

LEMMA OpenBundleTiles ==
  ASSUME PacketInv, Tiles, OpenBundle
  PROVE  Tiles'
<1> DEFINE o == Opened("bundle", Null, 0)
<1>1. mayOpen /\ open' = Append(open, o) /\ closed' = closed
  BY DEF OpenBundle
<1>2. args.ok = TRUE
  BY <1>1, Sizes DEF mayOpen
<1>3. /\ SameBelow(args, args')
      /\ Moves(args, args', SlotBytes + SizeBundle)
      /\ args'.ok = TRUE =>
           /\ Holds(args', args.pos + SlotBytes, BundleWords)
           /\ Holds(args', args.pos + SlotBytes + 8, TimeWords)
           /\ inBundle' = inBundle + 1
  BY OpenBundleWrites DEF Extends
<1>4. o \in Element /\ o.first = args.pos + SlotBytes /\ (inBundle > 0 => o.slot = args.pos)
  <2>1. 0 \in Nat /\ Null \in Addresses \cup {Null} /\ "bundle" \in {"bundle", "message"}
    OBVIOUS
  <2>2. OpenedAs(Opened("bundle", Null, 0), "bundle", Null, 0)
    BY <1>1, <2>1, OpenedPlace
  <2> QED
    BY <2>2 DEF OpenedAs
<1> HIDE DEF o
<1>5. /\ ClosedTiles'
      /\ Len(open') = inBundle + 1 /\ open'[inBundle + 1] = o
      /\ \A i \in 1 .. inBundle :
           /\ open'[i] = open[i]
           /\ HasHeader(args', open[i].first)
           /\ Tiled(open[i].first, Limit(i)', closed)
  BY <1>1, <1>3, <1>4, OpenedTiles
<1> SUFFICES ASSUME args'.ok = TRUE
             PROVE  OpenTiles'
  BY <1>5 DEF Tiles
<1>6. inBundle \in Nat /\ inBundle' = inBundle + 1 /\ args.pos \in Nat
      /\ SlotBytes \in Nat /\ SizeBundle = 16
  BY <1>3, Sizes DEF SlotBytes, SizeBundle
<1>7. HasHeader(args', o.first)
  <2>1. Holds(args', o.first, BundleWords) /\ Holds(args', o.first + 8, TimeWords)
    BY <1>3, <1>4
  <2>2. (o.first + 8) \div 4 = o.first \div 4 + 2 /\ o.first \div 4 \in Int
    BY <1>4, <1>6
  <2>3. ASSUME NEW i \in {1, 2}
        PROVE  /\ args'.data[o.first \div 4 + i - 1] = BundleWords[i]
               /\ args'.data[o.first \div 4 + i + 1] = TimeWords[i]
    <3>1. i \in 1 .. Len(BundleWords) /\ i \in 1 .. Len(TimeWords)
      BY FixedRows
    <3>2. (o.first + 8) \div 4 + i - 1 = o.first \div 4 + i + 1
      BY <2>2
    <3> QED
      BY <2>1, <3>1, <3>2 DEF Holds
  <2> QED
    BY <2>3 DEF HasHeader
<1> PICK n \in Nat : n = inBundle + 1
  BY <1>6
<1>8. Limit(n)' = o.first + 16
  <2>1. args'.pos = args.pos + (SlotBytes + SizeBundle)
    BY <1>3 DEF Moves
  <2>2. args'.pos = o.first + 16
    BY <1>4, <1>6, <2>1
  <2>3. ~(n < Len(open'))
    BY <1>5, <1>6
  <2> QED
    BY <2>2, <2>3 DEF Limit
<1>9. Tiled(o.first, o.first + 16, closed)
  <2>1. ASSUME NEW e \in closed, e.slot # Null
        PROVE  ~(e.slot >= o.first)
    <3>1. e.slot \in Nat /\ e.first = e.slot + 4 /\ e.first + 8 <= e.last
          /\ e.last \in Nat /\ e.last <= args.pos
      BY <1>2, <2>1, ClosedSlots
    <3> QED
      BY <1>4, <1>6, <3>1
  <2>2. Inside(o.first, o.first + 16, closed) = {}
    BY <2>1 DEF Inside
  <2>3. Ends(o.first, o.first + 16, closed) = {o.first + 16}
    BY <1>6, <2>2 DEF Ends
  <2>4. o.first + 16 \in Nat
    BY <1>4, <1>6
  <2> QED
    BY <2>3, <2>4 DEF Tiled
<1>10. ASSUME NEW i \in 1 .. inBundle'
       PROVE  HasHeader(args', open'[i].first) /\ Tiled(open'[i].first, Limit(i)', closed)
  <2>1. CASE i \in 1 .. inBundle
    BY <1>5, <2>1
  <2>2. CASE i = n
    BY <1>5, <1>7, <1>8, <1>9, <2>2
  <2> QED
    BY <1>6, <2>1, <2>2
<1> QED
  BY <1>1, <1>10 DEF OpenTiles, HasHeader, Tiled, Ends, Inside

LEMMA OpenMessageTiles ==
  ASSUME PacketInv, Tiles, NEW addr \in Addresses, NEW numTags \in TagCounts,
         OpenMessage(addr, numTags)
  PROVE  Tiles'
<1> DEFINE o == Opened("message", addr, numTags)
<1>1. mayOpen /\ open' = Append(open, o) /\ closed' = closed /\ inBundle' = inBundle
  BY DEF OpenMessage
<1>2. SameBelow(args, args')
  BY OpenMessageWrites
<1>3. o \in Element /\ (inBundle > 0 => o.slot = args.pos)
  <2>1. "message" \in {"bundle", "message"} /\ addr \in Addresses \cup {Null} /\ numTags \in Nat
    BY CallerAssumption
  <2>2. OpenedAs(Opened("message", addr, numTags), "message", addr, numTags)
    BY <1>1, <2>1, OpenedPlace
  <2> QED
    BY <2>2 DEF OpenedAs
<1> HIDE DEF o
<1>4. /\ ClosedTiles'
      /\ \A i \in 1 .. inBundle :
           /\ open'[i] = open[i]
           /\ HasHeader(args', open[i].first)
           /\ Tiled(open[i].first, Limit(i)', closed)
  BY <1>1, <1>2, <1>3, OpenedTiles
<1>5. \A i \in 1 .. inBundle' :
        HasHeader(args', open'[i].first) /\ Tiled(open'[i].first, Limit(i)', closed)
  BY <1>1, <1>4
<1>6. OpenTiles'
  BY <1>1, <1>5 DEF OpenTiles, HasHeader, Tiled, Ends, Inside
<1> QED
  BY <1>4, <1>6 DEF Tiles

(* Arguments lie behind the slot of the message, where no row goes yet.    *)
LEMMA PutArgTiles ==
  ASSUME PacketInv, Tiles, NEW arg \in Args, PutArg(arg)
  PROVE  Tiles'
<1>1. args.ok = TRUE /\ messageOpen /\ closed' = closed /\ inBundle' = inBundle
  BY Sizes DEF PutArg
<1>2. open' = [open EXCEPT ![Len(open)].put = Append(@, arg)]
  BY DEF PutArg
<1>3. KeptClosed(args')
  BY PutArgKept
<1>4. ClosedTiles'
  BY <1>1, <1>3, ClosedTilesStay DEF Tiles
<1>5. /\ open \in Seq(Element) /\ open # << >> /\ Len(open) = inBundle + 1
      /\ tags.begin \in Nat
      /\ tags.begin <= 4 * (tags.pos \div 4)
      /\ Innermost.first < tags.begin
      /\ inBundle > 0 => /\ Innermost.slot \in Nat
                         /\ Innermost.first = Innermost.slot + 4
  BY <1>1, BeforeTheTags
<1>6. /\ Len(open') = Len(open)
      /\ \A i \in 1 .. Len(open) :
           /\ open'[i].slot = open[i].slot
           /\ open'[i].first = open[i].first
  BY <1>2, <1>5, PutAppends
<1>7. args.pos \in Nat /\ args.pos % 4 = 0 /\ inBundle \in Nat
  BY Sizes
<1>8. KeptButTag(args, args')
  BY PutArgWrites
<1>9. ASSUME NEW i \in 1 .. inBundle
      PROVE  HasHeader(args', open'[i].first) /\ Tiled(open'[i].first, Limit(i)', closed)
  <2>1. HasHeader(args, open[i].first) /\ Tiled(open[i].first, Limit(i), closed)
    BY <1>1 DEF Tiles, OpenTiles
  <2>2. /\ i \in 1 .. Len(open)
        /\ open[i].first \in Nat /\ open[i].first % 4 = 0
        /\ open[i].first + 16 <= args.pos
        /\ \A j \in 1 .. Len(open) : i < j => open[i].first + 16 <= open[j].slot
    BY <1>1, OpenBundlesAt
  <2>3. open[i].first + 16 <= Innermost.slot /\ inBundle > 0
    BY <1>5, <1>7, <2>2 DEF Innermost
  <2>4. ASSUME NEW w \in Nat, 4 * w < open[i].first + 16
        PROVE  args'.data[w] = args.data[w]
    <3>1. 4 * w < args.pos
      BY <1>7, <2>2, <2>4
    <3>2. args.pos \div 4 \in Nat /\ args.pos = 4 * (args.pos \div 4)
      BY <1>7, WordOf
    <3>3. w \in 0 .. (args.pos \div 4 - 1)
      BY <3>1, <3>2
    <3>4. \A f, z, b \in Nat : 4 * w < f + 16 /\ f + 16 <= z /\ z + 4 < b => ~(b <= 4 * w)
      OBVIOUS
    <3>5. ~(tags.begin <= 4 * w)
      BY <1>5, <2>2, <2>3, <2>4, <3>4
    <3>6. w # tags.pos \div 4
      BY <1>5, <3>5
    <3> QED
      BY <1>8, <3>3, <3>6 DEF KeptButTag
  <2>5. HasHeader(args', open[i].first)
    BY <2>1, <2>2, <2>4, HeaderStays
  <2>6. Limit(i)' = Limit(i)
    <3>1. i < Len(open) /\ i < Len(open') /\ i + 1 \in 1 .. Len(open)
      BY <1>5, <1>6, <1>7
    <3> QED
      BY <1>6, <3>1 DEF Limit
  <2> QED
    BY <1>6, <2>1, <2>2, <2>5, <2>6
<1>10. OpenTiles'
  BY <1>1, <1>9 DEF OpenTiles, HasHeader, Tiled, Ends, Inside
<1> QED
  BY <1>4, <1>10 DEF Tiles

LEMMA ClosingTiles ==
  ASSUME PacketInv, Tiles, Closing,
         args'.ok = TRUE => inBundle' = Len(open) - 1,
         Innermost.kind = "bundle" <=> Len(open) = inBundle
  PROVE  Tiles'
<1>1. args.ok = TRUE /\ KeptClosed(args')
  BY ClosingKept DEF Closing
<1>2. CASE args'.ok # TRUE
  <2>1. closed' = closed
    BY <1>2 DEF Closing
  <2> QED
    BY <1>1, <1>2, <2>1, ClosedTilesStay DEF Tiles
<1>3. CASE args'.ok = TRUE
  <2> DEFINE c == [Innermost EXCEPT !.last = args.pos]
  <2> PICK n : n = Len(open)
    OBVIOUS
  <2> PICK slot : slot = Innermost.slot
    OBVIOUS
  <2>1. /\ n \in Nat /\ n >= 1 /\ n \in 1 .. Len(open)
        /\ n = 1 => slot = Null /\ open[n].first = 0
        /\ n > 1 => slot \in Nat /\ slot % 4 = 0 /\ open[n].first = slot + 4
                    /\ slot + 12 <= args.pos
        /\ Innermost = open[n] /\ Innermost \in Element
        /\ args'.pos = args.pos
    <3>1. ClosesAt(n, slot)
      BY ClosingPlace
    <3> QED
      BY <1>3, <3>1 DEF ClosesAt
  <2>2. closed' = closed \cup {c} /\ open' = SubSeq(open, 1, n - 1) /\ inBundle' = n - 1
    BY <1>3 DEF Closing, Close
  <2>3. /\ c.first = open[n].first /\ c.slot = slot /\ c.kind = Innermost.kind
        /\ c.last = args.pos
    BY <2>1 DEF Element
  <2>4. OpenNest /\ ClosedPlaces /\ open \in Seq(Element) /\ inBundle \in Nat
        /\ args.pos \in Nat /\ n \in {inBundle, inBundle + 1}
    BY <1>1, Sizes DEF PacketInv, Places, OpenNest
  <2>5. c.kind = "bundle" <=> n = inBundle
    BY <2>3
  <2> HIDE DEF c
  <2>6. Len(open') = n - 1 /\ \A i \in 1 .. n - 1 : open'[i] = open[i]
    BY <2>1, <2>2, <2>4
  <2>7. \A e \in closed :
          /\ e.first \in Nat /\ e.last \in Nat /\ e.first + 8 <= e.last /\ e.last <= args.pos
          /\ e.slot # Null => e.slot \in Nat /\ e.first = e.slot + 4
          /\ e.slot = Null => open = << >>
    BY <1>1, ClosedSlots
  <2>8. open # << >>
    BY DEF Closing
(* An element closed before lies before the slot or in the closed bundle.  *)
  <2>9. ASSUME NEW e \in closed, n > 1
        PROVE  /\ e.slot \in Nat
               /\ e.last <= slot \/ (c.kind = "bundle" /\ e.slot >= slot + 20)
    <3>1. Beside(e, n) \/ Within(e, n)
      BY <2>1, <2>4 DEF ClosedPlaces
    <3>2. e.slot \in Nat
      BY <2>7, <2>8
    <3>3. open[n].slot = slot
      BY <2>1
    <3>4. CASE Beside(e, n)
      BY <3>2, <3>3, <3>4 DEF Beside
    <3>5. CASE Within(e, n)
      <4>1. n <= inBundle /\ e.slot >= slot + 4 + 16
        BY <2>1, <2>9, <3>5 DEF Within, SizeBundle
      <4>2. c.kind = "bundle"
        BY <2>4, <2>5, <4>1
      <4>3. e.slot >= slot + 20
        BY <2>1, <2>9, <3>2, <4>1
      <4> QED
        BY <3>2, <4>2, <4>3
    <3> QED
      BY <3>1, <3>4, <3>5
(* The closed bundle was tiled up to the position.                         *)
  <2>10. ASSUME c.kind = "bundle"
         PROVE  /\ HasHeader(args', c.first)
                /\ c.first \in Nat /\ c.first + 16 <= args.pos
                /\ Tiled(c.first, args.pos, closed)
    <3>1. n \in 1 .. inBundle /\ n = Len(open)
      BY <2>1, <2>4, <2>5, <2>10
    <3>2. HasHeader(args, open[n].first) /\ Tiled(open[n].first, Limit(n), closed)
      BY <1>1, <3>1 DEF Tiles, OpenTiles
    <3>3. Limit(n) = args.pos
      BY <2>1, <3>1 DEF Limit
    <3>4. /\ open[n].first \in Nat /\ open[n].first % 4 = 0
          /\ open[n].first + 16 <= args.pos
      BY <1>1, <3>1, OpenBundlesAt
    <3>5. \A w \in Nat : open[n].first <= 4 * w /\ 4 * w < args.pos => args'.data[w] = args.data[w]
      BY <2>1, ClosingKept
    <3>6. \A w \in Nat : 4 * w < open[n].first + 16 => 4 * w < args.pos
      BY <2>4, <3>4
    <3>7. HasHeader(args', open[n].first)
      BY <3>2, <3>4, <3>5, <3>6, HeaderStays
    <3> QED
      BY <2>3, <3>2, <3>3, <3>4, <3>7
  <2>11. ASSUME NEW b \in closed, b.kind = "bundle"
         PROVE  /\ HasHeader(args', b.first) /\ b.first + SizeBundle <= b.last
                /\ Tiled(b.first, b.last, closed \cup {c})
    <3>1. HasHeader(args, b.first) /\ b.first + SizeBundle <= b.last
          /\ Tiled(b.first, b.last, closed)
      BY <2>11 DEF Tiles, ClosedTiles
    <3>2. b.first \in Nat /\ b.last \in Nat /\ b.last <= args.pos /\ b.first % 4 = 0
      BY <2>4, <2>7 DEF ClosedPlaces
    <3>3. HasHeader(args', b.first)
      <4>1. b.first + 16 <= b.last
        BY <3>1 DEF SizeBundle
      <4>2. \A w \in Nat : 4 * w < b.first + 16 => 4 * w < b.last
        BY <3>2, <4>1
      <4>3. \A w \in Nat : b.first <= 4 * w /\ 4 * w < b.last => args'.data[w] = args.data[w]
        BY <1>1 DEF KeptClosed
      <4> QED
        BY <3>1, <3>2, <4>2, <4>3, HeaderStays
    <3>4. ~(c.slot # Null /\ c.slot >= b.first /\ c.last <= b.last)
      <4>1. CASE n = 1
        BY <2>1, <2>3, <4>1
      <4>2. CASE n > 1
        <5>1. slot \in Nat /\ slot + 12 <= args.pos
          BY <2>1, <4>2
        <5>2. b.first = b.slot + 4 /\ b.slot \in Nat
          BY <2>7, <2>8
        <5>3. b.last <= slot \/ b.slot >= slot + 20
          BY <2>9, <4>2
        <5>4. CASE b.last <= slot
          <6>1. ~(args.pos <= b.last)
            BY <2>4, <3>2, <5>1, <5>4
          <6> QED
            BY <2>3, <6>1
        <5>5. CASE b.slot >= slot + 20
          <6>1. ~(slot >= b.first)
            BY <5>1, <5>2, <5>5
          <6> QED
            BY <2>3, <6>1
        <5> QED
          BY <5>3, <5>4, <5>5
      <4> QED
        BY <2>1, <4>1, <4>2
    <3> QED
      BY <3>1, <3>3, <3>4, TiledApart
  <2>12. ASSUME c.kind = "bundle"
         PROVE  /\ HasHeader(args', c.first) /\ c.first + SizeBundle <= c.last
                /\ Tiled(c.first, c.last, closed \cup {c})
    <3>1. ~(c.slot # Null /\ c.slot >= c.first /\ c.last <= c.last)
      <4>1. CASE n = 1
        BY <2>1, <2>3, <4>1
      <4>2. CASE n > 1
        BY <2>1, <2>3, <4>2
      <4> QED
        BY <2>1, <4>1, <4>2
    <3> QED
      BY <2>3, <2>10, <2>12, <3>1, TiledApart DEF SizeBundle
  <2>13. ClosedTiles'
    <3>1. \A b \in closed' : b.kind = "bundle" =>
            HasHeader(args', b.first) /\ b.first + SizeBundle <= b.last
            /\ Tiled(b.first, b.last, closed')
      BY <2>2, <2>11, <2>12
    <3> QED
      BY <3>1 DEF ClosedTiles, HasHeader, Tiled, Ends, Inside
  <2>14. ASSUME NEW i \in 1 .. n - 1
         PROVE  HasHeader(args', open[i].first) /\ Tiled(open[i].first, Limit(i)', closed \cup {c})
    <3>1. i \in 1 .. inBundle /\ i < n /\ n > 1 /\ i < Len(open)
      BY <2>1, <2>4
    <3>2. HasHeader(args, open[i].first) /\ Tiled(open[i].first, Limit(i), closed)
      BY <1>1, <3>1 DEF Tiles, OpenTiles
    <3>3. /\ open[i].first \in Nat /\ open[i].first % 4 = 0
          /\ open[i].first + 16 <= args.pos
          /\ open[i + 1].slot \in Nat /\ i + 1 \in 1 .. Len(open)
          /\ open[i].first + 16 <= open[n].slot
      BY <1>1, <2>1, <3>1, OpenBundlesAt
    <3>4. slot \in Nat /\ slot + 12 <= args.pos /\ open[n].slot = slot
      BY <2>1, <3>1
    <3>5. HasHeader(args', open[i].first)
      <4>1. \A w \in 0 .. (capacity \div 4 - 1) :
              args'.data[w] = args.data[w] \/ 4 * w = slot
        BY ClosingPlace DEF ClosesAt
      <4>2. ASSUME NEW w \in Nat, 4 * w < open[i].first + 16
            PROVE  args'.data[w] = args.data[w]
        <5>1. 4 * w < slot
          BY <3>3, <3>4, <4>2
        <5>2. w \in 0 .. (capacity \div 4 - 1)
          <6>1. capacity \in Nat /\ args.pos <= capacity /\ args.pos % 4 = 0
            BY Sizes
          <6>2. args.pos <= 4 * (capacity \div 4) /\ capacity \div 4 \in Nat
            BY <2>4, <6>1, WordBelow
          <6>3. 4 * w < args.pos
            BY <2>4, <3>4, <5>1
          <6>4. 4 * w < 4 * (capacity \div 4)
            BY <2>4, <6>2, <6>3
          <6> QED
            BY <6>2, <6>4
        <5> QED
          BY <3>4, <4>1, <5>1, <5>2
      <4> QED
        BY <3>2, <3>3, <4>2, HeaderStays
    <3>6. CASE i = n - 1
      <4>1. Limit(i) = slot
        BY <2>1, <3>1, <3>4, <3>6 DEF Limit
      <4>2. Limit(i)' = args.pos
        BY <2>1, <2>6, <3>6 DEF Limit
      <4>3. open[i].first + 16 <= slot
        BY <3>3, <3>4
      <4>4. \A e \in closed : e.slot # Null =>
              /\ e.slot \in Nat /\ e.last \in Nat
              /\ e.last <= slot \/ (c.kind = "bundle" /\ e.slot >= slot + 4)
        <5> TAKE e \in closed
        <5>1. e.slot \in Nat /\ (e.last <= slot \/ (c.kind = "bundle" /\ e.slot >= slot + 20))
          BY <2>9, <3>1
        <5>2. e.last \in Nat
          BY <2>7
        <5>3. e.slot >= slot + 20 => e.slot >= slot + 4
          BY <3>4, <5>1
        <5> QED
          BY <5>1, <5>2, <5>3
      <4>5. c.kind = "bundle" => Tiled(slot + 4, args.pos, closed)
        BY <2>1, <2>3, <2>10, <3>1
      <4>6. Tiled(open[i].first, slot, closed)
        BY <3>2, <4>1
      <4>7. Tiled(open[i].first, args.pos, closed \cup {c})
        BY <2>3, <2>4, <3>3, <3>4, <4>3, <4>4, <4>5, <4>6, TiledFurther
      <4> QED
        BY <3>5, <4>2, <4>7
    <3>7. CASE i # n - 1
      <4>1. i < Len(open') /\ i + 1 \in 1 .. n - 1 /\ i + 1 < n
        BY <2>1, <2>6, <3>7
      <4>2. Limit(i)' = open[i + 1].slot /\ Limit(i) = open[i + 1].slot
        BY <2>6, <3>1, <4>1 DEF Limit
      <4>3. open[i + 1].slot < args.pos
        <5>1. i + 1 \in 1 .. inBundle /\ n \in 1 .. Len(open)
          BY <2>1, <2>4, <4>1
        <5>2. open[i + 1].first + 16 <= slot /\ open[i + 1].first \in Nat
          BY <1>1, <3>4, <4>1, <5>1, OpenBundlesAt
        <5>3. open[i + 1].first = open[i + 1].slot + 4
          <6>1. i + 1 > 1
            OBVIOUS
          <6> QED
            BY <2>4, <3>3, <6>1 DEF OpenNest
        <5>4. \A x, y, z \in Nat : x + 4 + 16 <= y /\ y + 12 <= z => x < z
          OBVIOUS
        <5>5. open[i + 1].slot + 4 + 16 <= slot
          BY <5>2, <5>3
        <5> QED
          BY <2>4, <3>3, <3>4, <5>4, <5>5
      <4>4. ~(c.last <= open[i + 1].slot)
        BY <2>3, <2>4, <3>3, <4>3
      <4>5. Tiled(open[i].first, open[i + 1].slot, closed)
        BY <3>2, <4>2
      <4>6. Tiled(open[i].first, open[i + 1].slot, closed \cup {c})
        BY <4>4, <4>5, TiledApart
      <4> QED
        BY <3>5, <4>2, <4>6
    <3> QED
      BY <3>6, <3>7
  <2>15. OpenTiles'
    <3>1. \A i \in 1 .. inBundle' :
            HasHeader(args', open'[i].first) /\ Tiled(open'[i].first, Limit(i)', closed')
      BY <2>2, <2>6, <2>14
    <3> QED
      BY <3>1 DEF OpenTiles, HasHeader, Tiled, Ends, Inside
  <2> QED
    BY <2>13, <2>15 DEF Tiles
<1> QED
  BY <1>2, <1>3

LEMMA NextTiles == PacketInv /\ Tiles /\ [Next]_vars => Tiles'
<1> SUFFICES ASSUME PacketInv, Tiles, [Next]_vars PROVE Tiles'
  OBVIOUS
<1>1. ASSUME NEW size \in Capacities, NEW atFour \in Alignments, Reset(size, atFour)
      PROVE  Tiles'
  BY <1>1 DEF Reset, Tiles, ClosedTiles, OpenTiles
<1>2. CASE OpenBundle
  BY <1>2, OpenBundleTiles
<1>3. CASE CloseBundle
  BY <1>3, CloseBundleCloses, ClosingTiles
<1>4. ASSUME NEW addr \in Addresses, NEW numTags \in TagCounts, OpenMessage(addr, numTags)
      PROVE  Tiles'
  BY <1>4, OpenMessageTiles
<1>5. ASSUME NEW arg \in Args, PutArg(arg)
      PROVE  Tiles'
  BY <1>5, PutArgTiles
<1>6. CASE CloseMessage
  <2>1. Closing /\ messageOpen /\ Len(open) = inBundle + 1 /\ inBundle' = inBundle
    BY <1>6, CloseMessageCloses
  <2>2. Innermost.kind = "message"
    BY <2>1 DEF messageOpen
  <2>3. inBundle \in Nat
    BY Sizes
  <2>4. Len(open) # inBundle /\ inBundle' = Len(open) - 1
    BY <2>1, <2>3
  <2> QED
    BY <2>1, <2>2, <2>4, ClosingTiles
<1>7. CASE UNCHANGED vars
  <2>1. args' = args /\ closed' = closed /\ open' = open /\ inBundle' = inBundle
    BY <1>7 DEF vars
  <2>2. ClosedTiles'
    BY <2>1 DEF Tiles, ClosedTiles, HasHeader, Tiled, Ends, Inside
  <2>3. args.ok = TRUE => OpenTiles'
    BY <2>1 DEF Tiles, OpenTiles, HasHeader, Tiled, Ends, Inside, Limit
  <2> QED
    BY <2>1, <2>2, <2>3 DEF Tiles
<1> QED
  BY <1>1, <1>2, <1>3, <1>4, <1>5, <1>6, <1>7 DEF Next

LEMMA TilesAlways == Spec => []Tiles
<1>1. Init => Tiles
  BY DEF Init, Tiles, ClosedTiles, OpenTiles
<1> QED
  BY <1>1, NextTiles, PacketAlways, PTL DEF Spec

(* A closed bundle is its header and then its elements without a gap: a    *)
(* reader that adds up the sizes visits each of them and ends at its end,  *)
(* for any number of elements, nested as deep as MaxDepth allows.          *)
THEOREM ClosedBundlesTile == Spec => []BundlesTile
<1>1. Tiles => BundlesTile
  <2> SUFFICES ASSUME Tiles, NEW b \in closed, b.kind = "bundle"
               PROVE  /\ HasHeader(args, b.first)
                      /\ b.first + SizeBundle <= b.last
                      /\ \A p \in Ends(b.first, b.last, closed) :
                           p < b.last => \E e \in Inside(b.first, b.last, closed) : e.slot = p
                      /\ b.last \in Ends(b.first, b.last, closed)
    BY DEF BundlesTile, HasHeader, Ends, Inside
  <2> QED
    BY DEF Tiles, ClosedTiles, Tiled
<1> QED
  BY <1>1, TilesAlways, PTL

-----------------------------------------------------------------------------
(***************************************************************************)
(* The packet of the program.                                              *)
(*                                                                         *)
(* What MakeOscPacket is given: the addresses have the lengths they have,  *)
(* a number takes a word, and Packet takes what the script passes it.      *)
(***************************************************************************)
ScriptArgs ==
  /\ {Int32, Float32} \subseteq Args
  /\ \A arg \in {Int32, Float32} : Len(arg.head) + Len(arg.data) = 1
  /\ NumCoefficients \in Nat
  /\ {1, 3, 5, Array(NumCoefficients)} \subseteq TagCounts
  /\ {"/meta", "/time", "/freq", "/onset", "/pitch", "/mfcc"} \subseteq Addresses
  /\ \A s \in {"/meta", "/time", "/freq", "/mfcc"} : Strlen[s] = 5
  /\ \A s \in {"/onset", "/pitch"} : Strlen[s] = 6

(* The calls by their numbers: where each message is opened, what it is    *)
(* announced with and given, and what the calls before it take.            *)
Opening == << 2, 5, 10, 17, 24, 27, NumCoefficients + 29 >>
Announced == << 1, 3, 5, 5, 1, NumCoefficients + 2 >>
Given == << 1, 3, 5, 5, 1, NumCoefficients >>
Head6 == << 16, 20, 20, 20, 16, 12 + Align(NumCoefficients + 4) >>
Taken == << 16, 36, 68, 108, 148, 168, 180 + Align(NumCoefficients + 4) + 4 * NumCoefficients >>

LEMMA Table ==
  ASSUME ScriptArgs
  PROVE  /\ Opening \in [1 .. 7 -> Nat] /\ Taken \in [1 .. 7 -> Nat]
         /\ Opening[1] = 2 /\ Taken[1] = 16
         /\ Opening[7] = NumCoefficients + 29
         /\ NumCoefficients \in Nat
         /\ \A j \in 1 .. 7 :
              /\ Opening[j] \in 1 .. NumCoefficients + 29
              /\ Taken[j] \in Nat /\ Taken[j] <= Taken[7]
         /\ \A j \in 1 .. 6 :
              /\ Given[j] \in Nat /\ Announced[j] \in Nat /\ Head6[j] \in Nat
              /\ Given[j] <= Announced[j] /\ Announced[j] \in TagCounts
              /\ Names[j] \in Addresses
              /\ SizeMessage(Names[j], Announced[j]) \in Nat
              /\ Head6[j] = 4 + SizeMessage(Names[j], Announced[j])
              /\ Head6[j] >= 12
              /\ Opening[j + 1] = Opening[j] + Given[j] + 2
              /\ Taken[j + 1] = Taken[j] + Head6[j] + 4 * Given[j]
              /\ Opening[j] + Given[j] + 2 <= NumCoefficients + 29
              /\ Taken[j + 1] <= Taken[7]
<1> DEFINE n == NumCoefficients
           a == Align(n + 4)
<1>1. n \in Nat /\ a \in Nat /\ a >= n + 4
  BY AlignProperties DEF ScriptArgs
<1>2. \A s \in {"/meta", "/time", "/freq", "/mfcc"} : SizeString(s) = 8
  BY DEF ScriptArgs, SizeString, Align
<1>3. \A s \in {"/onset", "/pitch"} : SizeString(s) = 8
  BY DEF ScriptArgs, SizeString, Align
<1>4. Align(3) = 4 /\ Align(5) = 8 /\ Align(7) = 8
  BY DEF Align
<1>5. n + 2 + 2 = n + 4
  BY <1>1
<1>6. \A j \in 1 .. 6 :
        /\ Given[j] \in Nat /\ Announced[j] \in Nat
        /\ Given[j] <= Announced[j] /\ Announced[j] \in TagCounts
        /\ Names[j] \in Addresses
  BY <1>1 DEF ScriptArgs, Given, Announced, Names, Array
<1>7. ASSUME NEW j \in 1 .. 6
      PROVE  /\ SizeString(Names[j]) + Align(Announced[j] + 2) \in Nat
             /\ Head6[j] = 4 + (SizeString(Names[j]) + Align(Announced[j] + 2))
  <2>1. SizeString(Names[j]) = 8
    BY <1>2, <1>3 DEF Names
  <2>2. Head6[j] = 12 + Align(Announced[j] + 2)
    <3> HIDE DEF a
    <3> QED BY <1>4, <1>5, <1>1 DEF Head6, Announced, a
  <2>3. Align(Announced[j] + 2) \in Nat
    BY <1>6, TagBytes
  <2> QED BY <2>1, <2>2, <2>3
<1>8. ASSUME NEW j \in 1 .. 6
      PROVE  Head6[j] \in Nat /\ Head6[j] >= 12
  BY <1>1 DEF Head6
<1>9. ASSUME NEW j \in 1 .. 6
      PROVE  /\ Opening[j + 1] = Opening[j] + Given[j] + 2
             /\ Taken[j + 1] = Taken[j] + Head6[j] + 4 * Given[j]
             /\ Opening[j] + Given[j] + 2 <= n + 29
             /\ Taken[j + 1] <= Taken[7]
  <2> HIDE DEF a
  <2> QED BY <1>1 DEF Opening, Given, Taken, Head6, a
<1>10. Opening \in [1 .. 7 -> Nat] /\ Taken \in [1 .. 7 -> Nat]
  BY <1>1 DEF Opening, Taken
<1>11. ASSUME NEW j \in 1 .. 7
       PROVE  /\ Opening[j] \in 1 .. n + 29
              /\ Taken[j] \in Nat /\ Taken[j] <= Taken[7]
  <2> HIDE DEF a
  <2> QED BY <1>1 DEF Opening, Taken, a
<1> QED
  BY <1>1, <1>6, <1>7, <1>8, <1>9, <1>10, <1>11 DEF Opening, Taken, SizeMessage

-----------------------------------------------------------------------------
(* The calls are where the table says.                                     *)
CallsOf ==
  [op : {"openBundle", "openMessage", "put", "closeMessage", "closeBundle"},
   addr : Addresses \cup {Null}, numTags : Nat, arg : Args \cup {Null}]

(* part stands in whole from place at + 1 on.                              *)
StandsAt(part, whole, at) ==
  /\ at + Len(part) <= Len(whole)
  /\ \A i \in 1 .. Len(part) : whole[at + i] = part[i]

LEMMA Concatenated ==
  ASSUME NEW S, NEW s \in Seq(S), NEW t \in Seq(S)
  PROVE  /\ s \o t \in Seq(S)
         /\ Len(s \o t) = Len(s) + Len(t)
         /\ StandsAt(t, s \o t, Len(s))
         /\ \A part \in Seq(S), at \in Nat : StandsAt(part, s, at) => StandsAt(part, s \o t, at)
<1>1. /\ s \o t \in Seq(S)
      /\ Len(s \o t) = Len(s) + Len(t)
      /\ \A i \in 1 .. Len(s) + Len(t) : (s \o t)[i] = IF i <= Len(s) THEN s[i] ELSE t[i - Len(s)]
  BY ConcatProperties
<1>2. Len(s) \in Nat /\ Len(t) \in Nat
  OBVIOUS
<1>3. \A i \in 1 .. Len(t) : (s \o t)[Len(s) + i] = t[i]
  BY <1>1, <1>2
<1>4. \A i \in 1 .. Len(s) : (s \o t)[i] = s[i]
  BY <1>1, <1>2
<1>5. ASSUME NEW part \in Seq(S), NEW at \in Nat, StandsAt(part, s, at)
      PROVE  StandsAt(part, s \o t, at)
  <2>1. \A i \in 1 .. Len(part) : at + i \in 1 .. Len(s) /\ s[at + i] = part[i]
    BY <1>5, <1>2 DEF StandsAt
  <2>2. at + Len(part) <= Len(s \o t)
    BY <1>5, <1>1, <1>2 DEF StandsAt
  <2> QED BY <2>1, <2>2, <1>4 DEF StandsAt
<1> QED BY <1>1, <1>2, <1>3, <1>5 DEF StandsAt

LEMMA CallType ==
  ASSUME NEW op \in {"openBundle", "openMessage", "put", "closeMessage", "closeBundle"}
  PROVE  Call(op) \in CallsOf /\ Call(op).op = op
BY DEF Call, CallsOf

(* A message is opened, given its arguments, and closed.                   *)
LEMMA MessageCalls ==
  ASSUME NEW addr \in Addresses, NEW numTags \in Nat, NEW put \in Seq(Args),
         NEW m, m = Message(addr, numTags, put)
  PROVE  /\ m \in Seq(CallsOf)
         /\ Len(m) = Len(put) + 2
         /\ m[1].op = "openMessage" /\ m[1].addr = addr /\ m[1].numTags = numTags
         /\ \A i \in 1 .. Len(put) : m[1 + i].op = "put" /\ m[1 + i].arg = put[i]
         /\ m[Len(put) + 2].op = "closeMessage"
<1> DEFINE first == [Call("openMessage") EXCEPT !.addr = addr, !.numTags = numTags]
           putOf(arg) == [Call("put") EXCEPT !.arg = arg]
           puts == [i \in DOMAIN put |-> putOf(put[i])]
           last == Call("closeMessage")
<1>1. first \in CallsOf /\ first.op = "openMessage" /\ first.addr = addr /\ first.numTags = numTags
  BY DEF Call, CallsOf
<1>2. \A arg \in Args :
        putOf(arg) \in CallsOf /\ putOf(arg).op = "put" /\ putOf(arg).arg = arg
  BY DEF Call, CallsOf
<1>3. last \in CallsOf /\ last.op = "closeMessage"
  BY CallType
<1>4. /\ puts \in Seq(CallsOf) /\ Len(puts) = Len(put)
      /\ \A i \in 1 .. Len(put) : puts[i].op = "put" /\ puts[i].arg = put[i]
  <2>1. DOMAIN put = 1 .. Len(put) /\ Len(put) \in Nat /\ \A i \in 1 .. Len(put) : put[i] \in Args
    OBVIOUS
  <2> HIDE DEF putOf
  <2>2. \A i \in 1 .. Len(put) : puts[i] = putOf(put[i])
    BY <2>1
  <2>3. puts \in [1 .. Len(put) -> CallsOf]
    BY <2>1, <1>2
  <2> HIDE DEF puts
  <2>4. puts \in Seq(CallsOf) /\ Len(puts) = Len(put)
    BY <2>1, <2>3
  <2>5. ASSUME NEW i \in 1 .. Len(put)
        PROVE  puts[i].op = "put" /\ puts[i].arg = put[i]
    BY <2>1, <2>2, <1>2
  <2> QED BY <2>4, <2>5
<1> HIDE DEF first, puts, putOf, last
<1>5. << first >> \in Seq(CallsOf) /\ Len(<< first >>) = 1 /\ << first >>[1] = first
  BY <1>1
<1>6. << last >> \in Seq(CallsOf) /\ Len(<< last >>) = 1 /\ << last >>[1] = last
  BY <1>3
<1> DEFINE front == << first >> \o puts
           whole == front \o << last >>
<1>7. /\ front \in Seq(CallsOf) /\ Len(front) = 1 + Len(put)
      /\ front[1] = first
      /\ \A i \in 1 .. Len(put) : front[1 + i] = puts[i]
  BY <1>4, <1>5, ConcatProperties
<1> HIDE DEF front
<1>8. /\ whole \in Seq(CallsOf) /\ Len(whole) = Len(put) + 2
      /\ whole[1] = first
      /\ \A i \in 1 .. Len(put) : whole[1 + i] = puts[i]
      /\ whole[Len(put) + 2] = last
  BY <1>4, <1>6, <1>7, ConcatProperties
<1>9. m = whole
  BY DEF front, first, puts, putOf, last, Message
<1> HIDE DEF whole
<1> QED BY <1>1, <1>3, <1>4, <1>8, <1>9

Puts(j) == IF j = 1 THEN << Int32 >> ELSE Floats(Given[j])

LEMMA GivenArgs ==
  ASSUME ScriptArgs, NEW j \in 1 .. 6
  PROVE  /\ Puts(j) \in Seq(Args) /\ Len(Puts(j)) = Given[j]
         /\ \A i \in 1 .. Given[j] : Puts(j)[i] \in {Int32, Float32}
<1>1. Int32 \in Args /\ Float32 \in Args /\ Given[j] \in Nat
  BY Table DEF ScriptArgs
<1>2. CASE j = 1
  <2>1. Given[j] = 1 /\ Puts(j) = << Int32 >>
    BY <1>2 DEF Given, Puts
  <2> QED BY <1>1, <2>1
<1>3. CASE j # 1
  <2>1. Puts(j) = Floats(Given[j])
    BY <1>3 DEF Puts
  <2>2. \A i \in 1 .. Given[j] : Puts(j)[i] = Float32
    BY <2>1 DEF Floats
  <2>3. Puts(j) \in [1 .. Given[j] -> Args]
    BY <1>1, <2>1 DEF Floats
  <2> QED BY <1>1, <2>2, <2>3
<1> QED BY <1>2, <1>3

(* The calls of the j-th message.                                          *)
CallsFor(j) == Message(Names[j], Announced[j], Puts(j))

LEMMA CallsForMessage ==
  ASSUME ScriptArgs, NEW j \in 1 .. 6
  PROVE  /\ CallsFor(j) \in Seq(CallsOf)
         /\ Len(CallsFor(j)) = Given[j] + 2
         /\ CallsFor(j)[1].op = "openMessage" /\ CallsFor(j)[1].addr = Names[j]
         /\ CallsFor(j)[1].numTags = Announced[j]
         /\ \A i \in 1 .. Given[j] :
              CallsFor(j)[1 + i].op = "put" /\ CallsFor(j)[1 + i].arg \in {Int32, Float32}
         /\ CallsFor(j)[Given[j] + 2].op = "closeMessage"
<1>1. Names[j] \in Addresses /\ Announced[j] \in Nat
  BY Table
<1>2. /\ Puts(j) \in Seq(Args) /\ Len(Puts(j)) = Given[j]
      /\ \A i \in 1 .. Given[j] : Puts(j)[i] \in {Int32, Float32}
  BY GivenArgs
<1>3. PICK m : m = CallsFor(j)
  OBVIOUS
<1>4. /\ m \in Seq(CallsOf)
      /\ Len(m) = Len(Puts(j)) + 2
      /\ m[1].op = "openMessage" /\ m[1].addr = Names[j] /\ m[1].numTags = Announced[j]
      /\ \A i \in 1 .. Len(Puts(j)) : m[1 + i].op = "put" /\ m[1 + i].arg = Puts(j)[i]
      /\ m[Len(Puts(j)) + 2].op = "closeMessage"
  BY <1>1, <1>2, <1>3, MessageCalls DEF CallsFor
<1> QED BY <1>2, <1>3, <1>4

LEMMA MessagesAre ==
  Messages = CallsFor(1) \o CallsFor(2) \o CallsFor(3) \o CallsFor(4) \o CallsFor(5)
               \o CallsFor(6)
<1>1. /\ CallsFor(1) = Message("/meta", 1, << Int32 >>)
      /\ CallsFor(2) = Message("/time", 3, Floats(3))
      /\ CallsFor(3) = Message("/freq", 5, Floats(5))
      /\ CallsFor(4) = Message("/onset", 5, Floats(5))
      /\ CallsFor(5) = Message("/pitch", 1, Floats(1))
  BY DEF CallsFor, Names, Announced, Puts, Given
<1>2. CallsFor(6) = Message("/mfcc", Array(NumCoefficients), Floats(NumCoefficients))
  BY DEF CallsFor, Names, Announced, Puts, Given, Array
<1> QED BY <1>1, <1>2 DEF Messages

LEMMA Chained ==
  ASSUME NEW S, NEW C \in [1 .. 6 -> Seq(S)], NEW off \in [1 .. 6 -> Nat], NEW m \in 1 .. 5,
         NEW p \in Seq(S), Len(p) = off[m + 1],
         \A j \in 1 .. m : StandsAt(C[j], p, off[j])
  PROVE  /\ p \o C[m + 1] \in Seq(S)
         /\ Len(p \o C[m + 1]) = off[m + 1] + Len(C[m + 1])
         /\ \A j \in 1 .. m + 1 : StandsAt(C[j], p \o C[m + 1], off[j])
<1>1. m + 1 \in 1 .. 6 /\ C[m + 1] \in Seq(S)
  <2>1. m + 1 \in 1 .. 6
    OBVIOUS
  <2> QED BY <2>1
<1>2. PICK t : t = C[m + 1]
  OBVIOUS
<1>3. /\ p \o t \in Seq(S) /\ Len(p \o t) = Len(p) + Len(t)
      /\ StandsAt(t, p \o t, Len(p))
      /\ \A part \in Seq(S), at \in Nat : StandsAt(part, p, at) => StandsAt(part, p \o t, at)
  BY <1>1, <1>2, Concatenated
<1>4. ASSUME NEW j \in 1 .. m + 1
      PROVE  StandsAt(C[j], p \o t, off[j])
  <2>1. CASE j = m + 1
    BY <2>1, <1>2, <1>3
  <2>2. CASE j # m + 1
    <3>1. j \in 1 .. m /\ j \in 1 .. 6
      BY <2>2
    <3>2. C[j] \in Seq(S) /\ off[j] \in Nat
      BY <3>1
    <3> QED BY <3>1, <3>2, <1>3
  <2> QED BY <2>1, <2>2
<1> QED BY <1>2, <1>3, <1>4

LEMMA CallsAre ==
  ASSUME ScriptArgs
  PROVE  /\ Calls \in Seq(CallsOf)
         /\ Len(Calls) = NumCoefficients + 29
         /\ Calls[1].op = "openBundle"
         /\ Calls[NumCoefficients + 29].op = "closeBundle"
         /\ \A j \in 1 .. 6 : StandsAt(CallsFor(j), Calls, Opening[j] - 1)
<1> DEFINE n == NumCoefficients
           C == [j \in 1 .. 6 |-> CallsFor(j)]
           off == << 0, 3, 8, 15, 22, 25 >>
           first == << Call("openBundle") >>
           last == << Call("closeBundle") >>
           p1 == C[1]
           p2 == p1 \o C[2]
           p3 == p2 \o C[3]
           p4 == p3 \o C[4]
           p5 == p4 \o C[5]
           p6 == p5 \o C[6]
           body == first \o p6
           whole == body \o last
<1>0. off \in [1 .. 6 -> Nat]
  OBVIOUS
<1>1. /\ C \in [1 .. 6 -> Seq(CallsOf)]
      /\ Len(C[1]) = 3 /\ Len(C[2]) = 5 /\ Len(C[3]) = 7 /\ Len(C[4]) = 7
      /\ Len(C[5]) = 3 /\ Len(C[6]) = n + 2 /\ n \in Nat
  <2>1. C \in [1 .. 6 -> Seq(CallsOf)] /\ \A j \in 1 .. 6 : Len(C[j]) = Given[j] + 2
    BY CallsForMessage
  <2> HIDE DEF C
  <2>2. /\ Given[1] = 1 /\ Given[2] = 3 /\ Given[3] = 5 /\ Given[4] = 5
        /\ Given[5] = 1 /\ Given[6] = n /\ n \in Nat
    BY DEF Given, ScriptArgs
  <2>3. /\ Len(C[1]) = 1 + 2 /\ Len(C[2]) = 3 + 2 /\ Len(C[3]) = 5 + 2
        /\ Len(C[4]) = 5 + 2 /\ Len(C[5]) = 1 + 2 /\ Len(C[6]) = n + 2
    <3>1. \A j \in {1, 2, 3, 4, 5, 6} : Len(C[j]) = Given[j] + 2
      <4>1. \A j \in {1, 2, 3, 4, 5, 6} : j \in 1 .. 6
        OBVIOUS
      <4> HIDE DEF C
      <4> QED BY <2>1, <4>1
    <3> HIDE DEF C
    <3> QED BY <3>1, <2>2
  <2> QED BY <2>1, <2>2, <2>3
<1>2. /\ first \in Seq(CallsOf) /\ Len(first) = 1 /\ first[1].op = "openBundle"
      /\ last \in Seq(CallsOf) /\ Len(last) = 1 /\ last[1].op = "closeBundle"
  <2>1. /\ Call("openBundle") \in CallsOf /\ Call("openBundle").op = "openBundle"
        /\ Call("closeBundle") \in CallsOf /\ Call("closeBundle").op = "closeBundle"
    BY CallType
  <2> QED BY <2>1
<1>3. Calls = whole
  BY MessagesAre DEF Calls, C, first, last
<1> HIDE DEF C, first, last
<1>4. /\ p1 \in Seq(CallsOf) /\ Len(p1) = 3
      /\ \A j \in 1 .. 1 : StandsAt(C[j], p1, off[j])
  <2>1. \A i \in 1 .. 3 : 0 + i = i
    OBVIOUS
  <2>2. StandsAt(C[1], p1, 0)
    BY <1>1, <2>1 DEF StandsAt
  <2> QED BY <1>1, <2>2
<1> HIDE DEF p1
<1>5. /\ p2 \in Seq(CallsOf) /\ Len(p2) = 8
      /\ \A j \in 1 .. 2 : StandsAt(C[j], p2, off[j])
  <2>1. Len(p1) = off[1 + 1] /\ 1 + 1 = 2 /\ off[2] = 3
    BY <1>4
  <2> HIDE DEF off
  <2>2. 1 \in 1 .. 5 /\ off[1 + 1] = off[2] /\ C[1 + 1] = C[2]
    BY <2>1
  <2>3. /\ p1 \o C[1 + 1] \in Seq(CallsOf)
        /\ Len(p1 \o C[1 + 1]) = off[1 + 1] + Len(C[1 + 1])
        /\ \A j \in 1 .. 1 + 1 : StandsAt(C[j], p1 \o C[1 + 1], off[j])
    BY <1>0, <1>1, <1>4, <2>1, <2>2, Chained
  <2> QED BY <1>1, <2>1, <2>2, <2>3
<1> HIDE DEF p2
<1>6. /\ p3 \in Seq(CallsOf) /\ Len(p3) = 15
      /\ \A j \in 1 .. 3 : StandsAt(C[j], p3, off[j])
  <2>1. Len(p2) = off[2 + 1] /\ 2 + 1 = 3 /\ off[3] = 8
    BY <1>5
  <2> HIDE DEF off
  <2>2. 2 \in 1 .. 5 /\ off[2 + 1] = off[3] /\ C[2 + 1] = C[3]
    BY <2>1
  <2>3. /\ p2 \o C[2 + 1] \in Seq(CallsOf)
        /\ Len(p2 \o C[2 + 1]) = off[2 + 1] + Len(C[2 + 1])
        /\ \A j \in 1 .. 2 + 1 : StandsAt(C[j], p2 \o C[2 + 1], off[j])
    BY <1>0, <1>1, <1>5, <2>1, <2>2, Chained
  <2> QED BY <1>1, <2>1, <2>2, <2>3
<1> HIDE DEF p3
<1>7. /\ p4 \in Seq(CallsOf) /\ Len(p4) = 22
      /\ \A j \in 1 .. 4 : StandsAt(C[j], p4, off[j])
  <2>1. Len(p3) = off[3 + 1] /\ 3 + 1 = 4 /\ off[4] = 15
    BY <1>6
  <2> HIDE DEF off
  <2>2. 3 \in 1 .. 5 /\ off[3 + 1] = off[4] /\ C[3 + 1] = C[4]
    BY <2>1
  <2>3. /\ p3 \o C[3 + 1] \in Seq(CallsOf)
        /\ Len(p3 \o C[3 + 1]) = off[3 + 1] + Len(C[3 + 1])
        /\ \A j \in 1 .. 3 + 1 : StandsAt(C[j], p3 \o C[3 + 1], off[j])
    BY <1>0, <1>1, <1>6, <2>1, <2>2, Chained
  <2> QED BY <1>1, <2>1, <2>2, <2>3
<1> HIDE DEF p4
<1>8. /\ p5 \in Seq(CallsOf) /\ Len(p5) = 25
      /\ \A j \in 1 .. 5 : StandsAt(C[j], p5, off[j])
  <2>1. Len(p4) = off[4 + 1] /\ 4 + 1 = 5 /\ off[5] = 22
    BY <1>7
  <2> HIDE DEF off
  <2>2. 4 \in 1 .. 5 /\ off[4 + 1] = off[5] /\ C[4 + 1] = C[5]
    BY <2>1
  <2>3. /\ p4 \o C[4 + 1] \in Seq(CallsOf)
        /\ Len(p4 \o C[4 + 1]) = off[4 + 1] + Len(C[4 + 1])
        /\ \A j \in 1 .. 4 + 1 : StandsAt(C[j], p4 \o C[4 + 1], off[j])
    BY <1>0, <1>1, <1>7, <2>1, <2>2, Chained
  <2> QED BY <1>1, <2>1, <2>2, <2>3
<1> HIDE DEF p5
<1>9. /\ p6 \in Seq(CallsOf) /\ Len(p6) = n + 27
      /\ \A j \in 1 .. 6 : StandsAt(C[j], p6, off[j])
  <2>1. Len(p5) = off[5 + 1] /\ 5 + 1 = 6 /\ off[6] = 25
    BY <1>8
  <2> HIDE DEF off
  <2>2. 5 \in 1 .. 5 /\ off[5 + 1] = off[6] /\ C[5 + 1] = C[6]
    BY <2>1
  <2>3. /\ p5 \o C[5 + 1] \in Seq(CallsOf)
        /\ Len(p5 \o C[5 + 1]) = off[5 + 1] + Len(C[5 + 1])
        /\ \A j \in 1 .. 5 + 1 : StandsAt(C[j], p5 \o C[5 + 1], off[j])
    BY <1>0, <1>1, <1>8, <2>1, <2>2, Chained
  <2> QED BY <1>1, <2>1, <2>2, <2>3
<1> HIDE DEF p6
<1>10. /\ body \in Seq(CallsOf) /\ Len(body) = n + 28
       /\ body[1] = first[1]
       /\ \A i \in 1 .. n + 27 : body[1 + i] = p6[i]
  <2>1. /\ body \in Seq(CallsOf) /\ Len(body) = Len(first) + Len(p6)
        /\ \A i \in 1 .. Len(first) + Len(p6) :
             body[i] = IF i <= Len(first) THEN first[i] ELSE p6[i - Len(first)]
    BY <1>2, <1>9, ConcatProperties
  <2>2. Len(body) = n + 28 /\ body[1] = first[1]
    BY <1>1, <1>2, <1>9, <2>1
  <2>3. ASSUME NEW i \in 1 .. n + 27
        PROVE  body[1 + i] = p6[i]
    <3> HIDE DEF body
    <3>1. PICK m \in Nat : m = 1 + i
      OBVIOUS
    <3>2. m \in 1 .. Len(first) + Len(p6) /\ ~(m <= Len(first)) /\ m - Len(first) = i
      BY <1>1, <1>2, <1>9, <3>1
    <3> QED BY <2>1, <3>1, <3>2
  <2> QED BY <2>1, <2>2, <2>3
<1> HIDE DEF body
<1>11. /\ whole \in Seq(CallsOf) /\ Len(whole) = n + 29
       /\ \A i \in 1 .. n + 28 : whole[i] = body[i]
       /\ whole[n + 29] = last[1]
  <2>1. /\ whole \in Seq(CallsOf) /\ Len(whole) = Len(body) + Len(last)
        /\ \A i \in 1 .. Len(body) + Len(last) :
             whole[i] = IF i <= Len(body) THEN body[i] ELSE last[i - Len(body)]
    BY <1>2, <1>10, ConcatProperties
  <2>2. Len(whole) = n + 29 /\ \A i \in 1 .. n + 28 : whole[i] = body[i]
    BY <1>1, <1>2, <1>10, <2>1
  <2>3. n + 29 \in 1 .. Len(body) + Len(last) /\ ~(n + 29 <= Len(body)) /\ n + 29 - Len(body) = 1
    BY <1>1, <1>2, <1>10
  <2>4. whole[n + 29] = last[1]
    <3> HIDE DEF whole
    <3>1. PICK m \in Nat : m = n + 29
      BY <1>1
    <3>2. /\ m \in 1 .. Len(body) + Len(last) /\ ~(m <= Len(body)) /\ m - Len(body) = 1
      BY <1>1, <1>2, <1>10, <3>1
    <3>3. whole[m] = last[m - Len(body)]
      BY <2>1, <3>2
    <3> QED BY <3>1, <3>2, <3>3
  <2> QED BY <2>1, <2>2, <2>4
<1> HIDE DEF whole
<1>12. ASSUME NEW part \in Seq(CallsOf), NEW at \in Nat, StandsAt(part, p6, at)
       PROVE  StandsAt(part, whole, at + 1)
  <2>1. at + Len(part) <= n + 27 /\ Len(part) \in Nat
    BY <1>12, <1>9 DEF StandsAt
  <2>2. ASSUME NEW i \in 1 .. Len(part)
        PROVE  whole[at + 1 + i] = part[i]
    <3>1. at + i \in 1 .. n + 27 /\ 1 + (at + i) \in 1 .. n + 28 /\ at + 1 + i = 1 + (at + i)
      BY <2>1, <1>1
    <3>2. p6[at + i] = part[i]
      BY <1>12 DEF StandsAt
    <3> QED BY <1>10, <1>11, <3>1, <3>2
  <2>3. at + 1 + Len(part) <= Len(whole)
    BY <2>1, <1>1, <1>11
  <2> QED BY <2>2, <2>3 DEF StandsAt
<1>13. /\ StandsAt(C[1], whole, 1) /\ StandsAt(C[2], whole, 4) /\ StandsAt(C[3], whole, 9)
       /\ StandsAt(C[4], whole, 16) /\ StandsAt(C[5], whole, 23) /\ StandsAt(C[6], whole, 26)
  <2>1. \A j \in 1 .. 6 : StandsAt(C[j], whole, off[j] + 1)
    <3> HIDE DEF off
    <3> QED BY <1>0, <1>1, <1>9, <1>12
  <2> QED BY <2>1
<1>14. \A j \in 1 .. 6 : StandsAt(C[j], whole, Opening[j] - 1)
  BY <1>13 DEF Opening
<1>15. whole[1] = first[1]
  BY <1>1, <1>10, <1>11
<1> QED BY <1>2, <1>3, <1>11, <1>14, <1>15 DEF C

(* The same call by call.                                                  *)
LEMMA CallAt ==
  ASSUME ScriptArgs, NEW j \in 1 .. 6
  PROVE  /\ Calls[Opening[j]].op = "openMessage" /\ Calls[Opening[j]].addr = Names[j]
         /\ Calls[Opening[j]].numTags = Announced[j]
         /\ \A k \in 0 .. (Given[j] - 1) :
              /\ Calls[Opening[j] + 1 + k].op = "put"
              /\ Calls[Opening[j] + 1 + k].arg \in {Int32, Float32}
         /\ Calls[Opening[j] + 1 + Given[j]].op = "closeMessage"
<1>1. Opening[j] \in Nat /\ Given[j] \in Nat
  BY Table
<1>2. /\ Len(CallsFor(j)) = Given[j] + 2
      /\ \A i \in 1 .. Given[j] + 2 : Calls[Opening[j] - 1 + i] = CallsFor(j)[i]
  <2>1. Len(CallsFor(j)) = Given[j] + 2
    BY CallsForMessage
  <2>2. StandsAt(CallsFor(j), Calls, Opening[j] - 1)
    BY CallsAre
  <2> QED BY <2>1, <2>2 DEF StandsAt
<1>3. Calls[Opening[j]] = CallsFor(j)[1]
  <2>1. Opening[j] - 1 + 1 = Opening[j] /\ 1 \in 1 .. Given[j] + 2
    BY <1>1
  <2> QED BY <1>2, <2>1
<1>4. \A k \in 0 .. (Given[j] - 1) : Calls[Opening[j] + 1 + k] = CallsFor(j)[1 + (k + 1)]
  <2> TAKE k \in 0 .. (Given[j] - 1)
  <2>1. Opening[j] - 1 + (1 + (k + 1)) = Opening[j] + 1 + k /\ 1 + (k + 1) \in 1 .. Given[j] + 2
    BY <1>1
  <2> QED BY <1>2, <2>1
<1>5. Calls[Opening[j] + 1 + Given[j]] = CallsFor(j)[Given[j] + 2]
  <2>1. Opening[j] - 1 + (Given[j] + 2) = Opening[j] + 1 + Given[j]
        /\ Given[j] + 2 \in 1 .. Given[j] + 2
    BY <1>1
  <2> QED BY <1>2, <2>1
<1>6. \A k \in 0 .. (Given[j] - 1) : k + 1 \in 1 .. Given[j]
  BY <1>1
<1>7. /\ CallsFor(j)[1].op = "openMessage" /\ CallsFor(j)[1].addr = Names[j]
      /\ CallsFor(j)[1].numTags = Announced[j]
      /\ \A i \in 1 .. Given[j] :
           CallsFor(j)[1 + i].op = "put" /\ CallsFor(j)[1 + i].arg \in {Int32, Float32}
      /\ CallsFor(j)[Given[j] + 2].op = "closeMessage"
  BY CallsForMessage
<1>8. \A k \in 0 .. (Given[j] - 1) :
        /\ Calls[Opening[j] + 1 + k].op = "put"
        /\ Calls[Opening[j] + 1 + k].arg \in {Int32, Float32}
  BY <1>4, <1>6, <1>7
<1> QED BY <1>3, <1>5, <1>7, <1>8

-----------------------------------------------------------------------------
(* Before call s, the calls made take v bytes.                             *)
At(s, v) ==
  \/ s = 1 /\ v = 0
  \/ \E j \in 1 .. 7 : s = Opening[j] /\ v = Taken[j]
  \/ \E j \in 1 .. 6 : \E k \in 0 .. Given[j] :
       s = Opening[j] + 1 + k /\ v = Taken[j] + Head6[j] + 4 * k
  \/ s = NumCoefficients + 30 /\ v = Taken[7]

LEMMA CallSizes ==
  ASSUME ScriptArgs, NEW call \in CallsOf
  PROVE  /\ call.op = "openBundle" => SizeOfCall(call) = 16
         /\ call.op = "openMessage" => SizeOfCall(call) = 4 + SizeMessage(call.addr, call.numTags)
         /\ call.op = "put" /\ call.arg \in {Int32, Float32} => SizeOfCall(call) = 4
         /\ call.op \in {"closeMessage", "closeBundle"} => SizeOfCall(call) = 0
<1>1. SizeBundle = 16
  BY DEF SizeBundle
<1>2. ASSUME call.op = "put", call.arg \in {Int32, Float32}
      PROVE  SizeOfCall(call) = 4
  <2>1. PICK words : words = Len(call.arg.head) + Len(call.arg.data)
    OBVIOUS
  <2>2. words = 1
    BY <1>2, <2>1 DEF ScriptArgs
  <2>3. SizeOfCall(call) = 4 * words
    BY <1>2, <2>1 DEF SizeOfCall
  <2> QED BY <2>2, <2>3
<1> QED BY <1>1, <1>2 DEF SizeOfCall

LEMMA AtStep ==
  ASSUME ScriptArgs, NEW s \in 1 .. NumCoefficients + 29, NEW v, At(s, v)
  PROVE  /\ v \in Nat /\ SizeOfCall(Calls[s]) \in Nat
         /\ At(s + 1, v + SizeOfCall(Calls[s]))
<1>1. Calls[s] \in CallsOf
  BY CallsAre
<1>2. NumCoefficients \in Nat /\ Taken[7] \in Nat /\ Opening[7] = NumCoefficients + 29
  BY Table
<1>3. CASE s = 1 /\ v = 0
  <2>1. Calls[s].op = "openBundle"
    BY <1>3, CallsAre
  <2>2. SizeOfCall(Calls[s]) = 16
    BY <1>1, <2>1, CallSizes
  <2>3. s + 1 = Opening[1] /\ v + 16 = Taken[1]
    BY <1>3, Table
  <2> QED BY <1>3, <2>2, <2>3 DEF At
<1>4. ASSUME NEW j \in 1 .. 6, s = Opening[j], v = Taken[j]
      PROVE  /\ v \in Nat /\ SizeOfCall(Calls[s]) \in Nat
             /\ At(s + 1, v + SizeOfCall(Calls[s]))
  <2>1. /\ Calls[s].op = "openMessage" /\ Calls[s].addr = Names[j]
        /\ Calls[s].numTags = Announced[j]
    BY <1>4, CallAt
  <2>2. SizeOfCall(Calls[s]) = Head6[j]
    BY <1>1, <2>1, CallSizes, Table
  <2>3. /\ Opening[j] \in Nat /\ Taken[j] \in Nat /\ Head6[j] \in Nat /\ Given[j] \in Nat
    BY Table
  <2>4. /\ 0 \in 0 .. Given[j] /\ s + 1 = Opening[j] + 1 + 0
        /\ v + Head6[j] = Taken[j] + Head6[j] + 4 * 0
    BY <1>4, <2>3
  <2> QED BY <1>4, <2>2, <2>3, <2>4 DEF At
<1>5. CASE s = Opening[7] /\ v = Taken[7]
  <2>1. Calls[s].op = "closeBundle"
    BY <1>2, <1>5, CallsAre
  <2>2. SizeOfCall(Calls[s]) = 0
    BY <1>1, <2>1, CallSizes
  <2>3. s + 1 = NumCoefficients + 30 /\ v + 0 = Taken[7]
    BY <1>2, <1>5
  <2> QED BY <1>2, <1>5, <2>2, <2>3 DEF At
<1>6. ASSUME NEW j \in 1 .. 6, NEW k \in 0 .. Given[j],
             s = Opening[j] + 1 + k, v = Taken[j] + Head6[j] + 4 * k
      PROVE  /\ v \in Nat /\ SizeOfCall(Calls[s]) \in Nat
             /\ At(s + 1, v + SizeOfCall(Calls[s]))
  <2>1. /\ Opening[j] \in Nat /\ Taken[j] \in Nat /\ Head6[j] \in Nat /\ Given[j] \in Nat
        /\ Opening[j + 1] = Opening[j] + Given[j] + 2
        /\ Taken[j + 1] = Taken[j] + Head6[j] + 4 * Given[j]
    BY Table
  <2>2. CASE k < Given[j]
    <3>1. Calls[s].op = "put" /\ Calls[s].arg \in {Int32, Float32}
      <4>1. k \in 0 .. (Given[j] - 1)
        BY <2>1, <2>2
      <4> QED BY <1>6, <4>1, CallAt
    <3>2. SizeOfCall(Calls[s]) = 4
      BY <1>1, <3>1, CallSizes
    <3>3. /\ k + 1 \in 0 .. Given[j] /\ s + 1 = Opening[j] + 1 + (k + 1)
          /\ v + 4 = Taken[j] + Head6[j] + 4 * (k + 1) /\ v \in Nat
      <4>1. \A o, t, h, i \in Nat : /\ o + 1 + i + 1 = o + 1 + (i + 1)
                                    /\ t + h + 4 * i + 4 = t + h + 4 * (i + 1)
                                    /\ t + h + 4 * i \in Nat
        OBVIOUS
      <4>2. k \in Nat /\ k + 1 \in 0 .. Given[j]
        BY <2>1, <2>2
      <4>3. s + 1 = Opening[j] + 1 + (k + 1)
        BY <1>6, <2>1, <4>1, <4>2
      <4>4. v + 4 = Taken[j] + Head6[j] + 4 * (k + 1) /\ v \in Nat
        BY <1>6, <2>1, <4>1, <4>2
      <4> QED BY <4>2, <4>3, <4>4
    <3> QED BY <3>2, <3>3 DEF At
  <2>3. CASE k = Given[j]
    <3>1. Calls[s].op = "closeMessage"
      BY <1>6, <2>3, CallAt
    <3>2. SizeOfCall(Calls[s]) = 0
      BY <1>1, <3>1, CallSizes
    <3>3. s + 1 = Opening[j + 1] /\ v + 0 = Taken[j + 1] /\ j + 1 \in 1 .. 7 /\ v \in Nat
      BY <1>6, <2>1, <2>3
    <3> QED BY <3>2, <3>3 DEF At
  <2> QED BY <2>1, <2>2, <2>3
<1>7. s # NumCoefficients + 30
  BY <1>2
<1>8. \A j \in 1 .. 7 : j \in 1 .. 6 \/ j = 7
  OBVIOUS
<1> QED BY <1>3, <1>4, <1>5, <1>6, <1>7, <1>8 DEF At

LEMMA AtBound ==
  ASSUME ScriptArgs, NEW s, NEW v, At(s, v)
  PROVE  /\ v \in Nat /\ v <= Taken[7]
         /\ s \in 1 .. NumCoefficients + 30
         /\ s = NumCoefficients + 30 => v = Taken[7]
<1>1. NumCoefficients \in Nat /\ Taken[7] \in Nat
  BY Table
<1>2. CASE s = 1 /\ v = 0
  BY <1>1, <1>2
<1>3. ASSUME NEW j \in 1 .. 7, s = Opening[j], v = Taken[j]
      PROVE  /\ v \in Nat /\ v <= Taken[7]
             /\ s \in 1 .. NumCoefficients + 29
  BY <1>3, Table
<1>4. ASSUME NEW j \in 1 .. 6, NEW k \in 0 .. Given[j],
             s = Opening[j] + 1 + k, v = Taken[j] + Head6[j] + 4 * k
      PROVE  /\ v \in Nat /\ v <= Taken[7]
             /\ s \in 1 .. NumCoefficients + 29
  <2>1. /\ Opening[j] \in Nat /\ Taken[j] \in Nat /\ Head6[j] \in Nat /\ Given[j] \in Nat
        /\ Opening[j] + Given[j] + 2 <= NumCoefficients + 29
        /\ Taken[j + 1] = Taken[j] + Head6[j] + 4 * Given[j]
        /\ Taken[j + 1] <= Taken[7]
    BY Table
  <2> QED BY <1>1, <1>4, <2>1
<1>5. CASE s = NumCoefficients + 30 /\ v = Taken[7]
  BY <1>1, <1>5
<1> QED BY <1>1, <1>2, <1>3, <1>4, <1>5 DEF At

(* The sum of what the calls take is what the last of them is reached with. *)
Costs == [i \in 1 .. NumCoefficients + 29 |-> SizeOfCall(Calls[i])]
CostsTo(m) == [i \in 1 .. NumCoefficients + 29 |-> IF i <= m THEN Costs[i] ELSE 0]

LEMMA CallNumbers ==
  ASSUME ScriptArgs
  PROVE  /\ NumCoefficients + 29 \in Nat
         /\ IsFiniteSet(1 .. NumCoefficients + 29)
<1>1. NumCoefficients + 29 \in Nat
  BY Table
<1>2. \A n \in Int : IsFiniteSet(1 .. n)
  <2> TAKE n \in Int
  <2>1. PICK one \in Int : one = 1
    OBVIOUS
  <2>2. IsFiniteSet(one .. n)
    BY FS_Interval
  <2> QED BY <2>1, <2>2
<1> QED BY <1>1, <1>2

LEMMA CostsAdd ==
  ASSUME ScriptArgs
  PROVE  /\ Costs \in [1 .. NumCoefficients + 29 -> Nat]
         /\ SumFunction(Costs) = Taken[7]
<1> DEFINE n == NumCoefficients + 29
           Reached(m) == /\ \A i \in 1 .. m : Costs[i] \in Nat
                         /\ At(m + 1, SumFunction(CostsTo(m)))
           K == {m \in Nat : m <= n => Reached(m)}
<1>1. n \in Nat /\ IsFiniteSet(1 .. n)
  BY CallNumbers
<1>2. 0 \in K
  <2>1. CostsTo(0) \in [1 .. n -> Nat] /\ \A i \in 1 .. n : CostsTo(0)[i] = 0
    BY DEF CostsTo
  <2>2. SumFunction(CostsTo(0)) = 0
    BY <1>1, <2>1, SumOfZeros
  <2>3. At(0 + 1, 0)
    BY DEF At
  <2> QED BY <2>2, <2>3
<1>3. ASSUME NEW m \in Nat, m \in K
      PROVE  m + 1 \in K
  <2> SUFFICES ASSUME m + 1 <= n PROVE Reached(m + 1)
    OBVIOUS
  <2>1. m <= n /\ m + 1 \in 1 .. n
    BY <1>1
  <2>2. (\A i \in 1 .. m : Costs[i] \in Nat) /\ At(m + 1, SumFunction(CostsTo(m)))
    BY <1>3, <2>1
  <2>3. PICK v : v = SumFunction(CostsTo(m))
    OBVIOUS
  <2>4. /\ v \in Nat /\ Costs[m + 1] \in Nat
        /\ At(m + 1 + 1, v + Costs[m + 1])
    <3>1. PICK s : s = m + 1
      OBVIOUS
    <3>2. s \in 1 .. NumCoefficients + 29 /\ At(s, v)
      BY <2>1, <2>2, <2>3, <3>1
    <3>3. v \in Nat /\ SizeOfCall(Calls[s]) \in Nat /\ At(s + 1, v + SizeOfCall(Calls[s]))
      BY <3>2, AtStep
    <3>4. Costs[s] = SizeOfCall(Calls[s])
      BY <3>2 DEF Costs
    <3> QED BY <3>1, <3>3, <3>4
  <2>5. \A i \in 1 .. m + 1 : Costs[i] \in Nat
    <3> TAKE i \in 1 .. m + 1
    <3>1. i = m + 1 \/ i \in 1 .. m
      OBVIOUS
    <3> QED BY <2>2, <2>4, <3>1
  <2>6. /\ CostsTo(m) \in [1 .. n -> Nat] /\ CostsTo(m + 1) \in [1 .. n -> Nat]
        /\ CostsTo(m)[m + 1] = 0 /\ CostsTo(m + 1)[m + 1] = Costs[m + 1]
        /\ \A i \in 1 .. n : i # m + 1 => CostsTo(m + 1)[i] = CostsTo(m)[i]
    <3>1. \A i \in 1 .. n : i <= m + 1 => i \in 1 .. m + 1
      OBVIOUS
    <3>2. \A i \in 1 .. n : i <= m => i <= m + 1
      OBVIOUS
    <3>3. \A i \in 1 .. n : i <= m + 1 /\ i # m + 1 => i <= m
      OBVIOUS
    <3>4. ~(m + 1 <= m) /\ m + 1 <= m + 1
      OBVIOUS
    <3> QED BY <2>1, <2>5, <3>1, <3>2, <3>3, <3>4 DEF CostsTo
  <2>7. /\ SumFunction(CostsTo(m)) \in Nat /\ SumFunction(CostsTo(m + 1)) \in Nat
        /\ SumFunction(CostsTo(m + 1)) + CostsTo(m)[m + 1]
             = SumFunction(CostsTo(m)) + CostsTo(m + 1)[m + 1]
    <3>1. PICK f \in [1 .. n -> Nat] : f = CostsTo(m)
      BY <2>6
    <3>2. PICK h \in [1 .. n -> Nat] : h = CostsTo(m + 1)
      BY <2>6
    <3>3. PICK x \in 1 .. n : x = m + 1
      BY <2>1
    <3>4. \A i \in 1 .. n : i # x => h[i] = f[i]
      BY <2>6, <3>1, <3>2, <3>3
    <3>5. /\ SumFunction(f) \in Nat /\ SumFunction(h) \in Nat
          /\ SumFunction(h) + f[x] = SumFunction(f) + h[x]
      <4> HIDE DEF n
      <4> QED BY <1>1, <3>4, SumChanges
    <3> QED BY <3>1, <3>2, <3>3, <3>5
  <2>8. SumFunction(CostsTo(m + 1)) = v + Costs[m + 1]
    BY <2>3, <2>4, <2>6, <2>7
  <2> QED BY <2>4, <2>5, <2>8
<1>4. Reached(n)
  <2> HIDE DEF Reached
  <2>1. Nat \subseteq K
    <3> HIDE DEF K
    <3> QED BY <1>2, <1>3, AllNumbers
  <2> QED BY <1>1, <2>1
<1>5. Costs \in [1 .. n -> Nat] /\ At(n + 1, SumFunction(CostsTo(n)))
  BY <1>4 DEF Costs
<1>6. CostsTo(n) = Costs
  <2>1. \A i \in 1 .. n : i <= n
    BY <1>1
  <2> QED BY <2>1 DEF CostsTo, Costs
<1>7. n + 1 = NumCoefficients + 30
  BY Table
<1>8. SumFunction(Costs) = Taken[7]
  <2>1. PICK v : v = SumFunction(Costs)
    OBVIOUS
  <2>2. At(NumCoefficients + 30, v)
    BY <1>5, <1>6, <1>7, <2>1
  <2> QED BY <2>1, <2>2, AtBound
<1> QED BY <1>5, <1>8

LEMMA PacketSizeIs ==
  ASSUME ScriptArgs
  PROVE  PacketSize = Taken[7]
<1> DEFINE D == 1 .. NumCoefficients + 29
           size(i) == SizeOfCall(Calls[i])
           P(g) == g = [s \in SUBSET D |->
                     IF s = {} THEN 0
                     ELSE LET x == CHOOSE x \in s : TRUE IN size(x) + g[s \ {x}]]
           c == CHOOSE g : P(g)
<1>1. DOMAIN Calls = D
  BY CallsAre
<1>2. PacketSize = MapThenSumSet(size, D)
  BY <1>1 DEF PacketSize
<1>3. MapThenSumSet(size, D) = c[D]
  BY DEF MapThenSumSet, MapThenFoldSet
<1>4. IsFiniteSet(D) /\ Costs \in [D -> Nat] /\ SumFunction(Costs) = Taken[7]
  BY CallNumbers, CostsAdd
<1>5. \A i \in D : Costs[i] = size(i)
  BY DEF Costs
<1>6. \A s \in SUBSET D : s # {} => (CHOOSE x \in s : TRUE) \in D
  OBVIOUS
<1>7. \A g : P(g) <=> Sums(g, Costs, D)
  <2> HIDE DEF size, D
  <2> QED BY <1>5, <1>6 DEF Sums, AnyOf
<1> HIDE DEF P, D
<1>8. \E g : Sums(g, Costs, D)
  BY <1>4, SumsExist
<1>9. Sums(c, Costs, D)
  BY <1>7, <1>8
<1> HIDE DEF c
<1>10. c[D] = SumFunction(Costs)
  BY <1>4, <1>9, SumFunctionIs
<1> QED BY <1>2, <1>3, <1>4, <1>10

-----------------------------------------------------------------------------
(***************************************************************************)
(* Where the packet stands before each call.  C has the first n messages,  *)
(* one behind the other, all before the bound.                             *)
(***************************************************************************)
InOrder(C, n, bound) ==
  \E f \in [1 .. n -> C] :
    /\ C = {f[i] : i \in 1 .. n}
    /\ \A i \in 1 .. n :
         /\ f[i].kind = "message" /\ f[i].addr = Names[i]
         /\ f[i].first \in Nat /\ f[i].first < bound
    /\ \A i, k \in 1 .. n : i < k => f[i].first < f[k].first

Begun == step = 1 /\ open = << >> /\ closed = {} /\ inBundle = 0

BetweenAt(j) ==
  /\ step = Opening[j]
  /\ inBundle = 1
  /\ ~messageOpen
  /\ InOrder(closed, j - 1, args.pos)

InsideAt(j, k) ==
  /\ step = Opening[j] + 1 + k
  /\ inBundle = 1
  /\ messageOpen
  /\ Innermost.addr = Names[j] /\ Innermost.numTags = Announced[j]
  /\ Len(Innermost.put) = k
  /\ InOrder(closed, j - 1, Innermost.first)

Finished ==
  /\ step = NumCoefficients + 30
  /\ inBundle = 0
  /\ open = << >>
  /\ \E b \in closed :
       /\ b.kind = "bundle" /\ b.first = 0 /\ b.last = args.pos
       /\ InOrder(closed \ {b}, 6, args.pos)

Progress ==
  \/ Begun
  \/ \E j \in 1 .. 7 : BetweenAt(j)
  \/ \E j \in 1 .. 6 : \E k \in 0 .. Given[j] : InsideAt(j, k)
  \/ Finished

TagsFit ==
  messageOpen =>
    Innermost.numTags \in Nat /\ Len(Innermost.put) \in 0 .. Innermost.numTags

ScriptInv ==
  /\ PacketInv
  /\ TagsFit
  /\ At(step, needed)
  /\ args.ok = TRUE => Progress

(* The next call tells where the packet stands.                            *)
LEMMA Standing ==
  ASSUME ScriptArgs, ScriptInv, args.ok = TRUE, step \in 1 .. NumCoefficients + 29
  PROVE  LET call == Calls[step] IN
         /\ call.op = "openBundle" => Begun
         /\ call.op = "openMessage" =>
              \E j \in 1 .. 6 : BetweenAt(j) /\ call.addr = Names[j] /\ call.numTags = Announced[j]
         /\ call.op = "put" =>
              \E j \in 1 .. 6 : \E k \in 0 .. (Given[j] - 1) :
                InsideAt(j, k) /\ call.arg \in {Int32, Float32}
         /\ call.op = "closeMessage" => \E j \in 1 .. 6 : InsideAt(j, Given[j])
         /\ call.op = "closeBundle" => BetweenAt(7)
<1> DEFINE call == Calls[step]
<1>1. CASE Begun
  BY <1>1, CallsAre DEF Begun
<1>2. ASSUME NEW j \in 1 .. 6, BetweenAt(j)
      PROVE  /\ call.op = "openMessage" /\ BetweenAt(j)
             /\ call.addr = Names[j] /\ call.numTags = Announced[j]
  BY <1>2, CallAt DEF BetweenAt
<1>3. CASE BetweenAt(7)
  <2>1. call.op = "closeBundle"
    BY <1>3, CallsAre, Table DEF BetweenAt
  <2> QED BY <1>3, <2>1
<1>4. ASSUME NEW j \in 1 .. 6, NEW k \in 0 .. Given[j], InsideAt(j, k)
      PROVE  \/ /\ call.op = "put" /\ k \in 0 .. (Given[j] - 1)
                /\ InsideAt(j, k) /\ call.arg \in {Int32, Float32}
             \/ /\ call.op = "closeMessage" /\ InsideAt(j, Given[j])
  <2>1. Given[j] \in Nat
    BY Table
  <2>2. CASE k < Given[j]
    <3>1. k \in 0 .. (Given[j] - 1)
      BY <2>1, <2>2
    <3>2. /\ Calls[Opening[j] + 1 + k].op = "put"
          /\ Calls[Opening[j] + 1 + k].arg \in {Int32, Float32}
      BY <3>1, CallAt
    <3>3. step = Opening[j] + 1 + k
      BY <1>4 DEF InsideAt
    <3> QED BY <1>4, <3>1, <3>2, <3>3
  <2>3. CASE k = Given[j]
    <3>1. Calls[Opening[j] + 1 + Given[j]].op = "closeMessage"
      BY CallAt
    <3>2. step = Opening[j] + 1 + Given[j] /\ InsideAt(j, Given[j])
      BY <1>4, <2>3 DEF InsideAt
    <3> QED BY <3>1, <3>2
  <2> QED BY <2>1, <2>2, <2>3
<1>5. ~Finished
  <2>1. NumCoefficients \in Nat
    BY Table
  <2> QED BY <2>1 DEF Finished
<1>6. \A j \in 1 .. 7 : j \in 1 .. 6 \/ j = 7
  OBVIOUS
<1>7. Progress
  BY DEF ScriptInv
<1> HIDE DEF call
<1>8. CASE \E j \in 1 .. 7 : BetweenAt(j)
  <2>1. PICK j \in 1 .. 7 : BetweenAt(j)
    BY <1>8
  <2>2. CASE j = 7
    BY <1>3, <2>1, <2>2
  <2>3. CASE j \in 1 .. 6
    BY <1>2, <2>1, <2>3 DEF call
  <2> QED BY <1>6, <2>2, <2>3
<1>9. CASE \E j \in 1 .. 6 : \E k \in 0 .. Given[j] : InsideAt(j, k)
  <2>1. PICK j \in 1 .. 6 : \E k \in 0 .. Given[j] : InsideAt(j, k)
    BY <1>9
  <2>2. PICK k \in 0 .. Given[j] : InsideAt(j, k)
    BY <2>1
  <2>3. CASE call.op = "put"
    BY <1>4, <2>2, <2>3 DEF call
  <2>4. CASE call.op = "closeMessage"
    BY <1>4, <2>2, <2>4 DEF call
  <2> QED BY <1>4, <2>2, <2>3, <2>4
<1> QED BY <1>1, <1>5, <1>7, <1>8, <1>9 DEF Progress, call

LEMMA InOrderBelow ==
  ASSUME NEW C, NEW n \in Nat, NEW b \in Nat, NEW c \in Nat, b <= c, InOrder(C, n, b)
  PROVE  InOrder(C, n, c)
<1>1. PICK f \in [1 .. n -> C] :
        /\ C = {f[i] : i \in 1 .. n}
        /\ \A i \in 1 .. n :
             /\ f[i].kind = "message" /\ f[i].addr = Names[i]
             /\ f[i].first \in Nat /\ f[i].first < b
        /\ \A i, k \in 1 .. n : i < k => f[i].first < f[k].first
  BY DEF InOrder
<1>2. \A x \in Nat : x < b => x < c
  OBVIOUS
<1>3. \A i \in 1 .. n : f[i].first < c
  BY <1>1, <1>2
<1> QED BY <1>1, <1>3 DEF InOrder

(* One more message, behind all others.                                    *)
LEMMA InOrderGrows ==
  ASSUME NEW C, NEW n \in Nat, NEW m, m.kind = "message", m.addr = Names[n + 1],
         m.first \in Nat, InOrder(C, n, m.first), NEW b \in Nat, m.first < b
  PROVE  InOrder(C \cup {m}, n + 1, b)
<1>1. PICK f \in [1 .. n -> C] :
        /\ C = {f[i] : i \in 1 .. n}
        /\ \A i \in 1 .. n :
             /\ f[i].kind = "message" /\ f[i].addr = Names[i]
             /\ f[i].first \in Nat /\ f[i].first < m.first
        /\ \A i, k \in 1 .. n : i < k => f[i].first < f[k].first
  BY DEF InOrder
<1> DEFINE D == C \cup {m}
           g == [i \in 1 .. n + 1 |-> IF i = n + 1 THEN m ELSE f[i]]
<1>2. \A i \in 1 .. n + 1 : i = n + 1 \/ i \in 1 .. n
  OBVIOUS
<1>3. g[n + 1] = m /\ \A i \in 1 .. n : g[i] = f[i]
  OBVIOUS
<1>4. \A i \in 1 .. n + 1 : g[i] \in D
  BY <1>1, <1>2, <1>3
<1>5. g \in [1 .. n + 1 -> D]
  BY <1>4
<1>6. D = {g[i] : i \in 1 .. n + 1}
  <2>1. \A i \in 1 .. n : i \in 1 .. n + 1
    OBVIOUS
  <2>2. n + 1 \in 1 .. n + 1
    OBVIOUS
  <2> HIDE DEF g
  <2>3. \A x \in D : \E i \in 1 .. n + 1 : x = g[i]
    BY <1>1, <1>3, <2>1, <2>2
  <2> QED BY <1>4, <2>3
<1> HIDE DEF g
<1>7. ASSUME NEW i \in 1 .. n + 1
      PROVE  /\ g[i].kind = "message" /\ g[i].addr = Names[i]
             /\ g[i].first \in Nat /\ g[i].first < b
  <2>1. CASE i = n + 1
    BY <1>3, <2>1
  <2>2. CASE i \in 1 .. n
    <3>1. \A x \in Nat : x < m.first => x < b
      OBVIOUS
    <3> QED BY <1>1, <1>3, <2>2, <3>1
  <2> QED BY <1>2, <2>1, <2>2
<1>8. ASSUME NEW i \in 1 .. n + 1, NEW k \in 1 .. n + 1, i < k
      PROVE  g[i].first < g[k].first
  <2>1. i \in 1 .. n
    BY <1>8
  <2>2. CASE k = n + 1
    BY <1>1, <1>3, <2>1, <2>2
  <2>3. CASE k \in 1 .. n
    BY <1>1, <1>3, <1>8, <2>1, <2>3
  <2> QED BY <1>2, <2>2, <2>3
<1> QED BY <1>5, <1>6, <1>7, <1>8 DEF InOrder

LEMMA OrderCounts ==
  ASSUME NEW C, NEW b, InOrder(C, 6, b)
  PROVE  /\ Cardinality(C) = 6
         /\ \A m \in C : m.addr = Names[Cardinality({o \in C : o.first < m.first}) + 1]
<1>1. PICK f \in [1 .. 6 -> C] :
        /\ C = {f[i] : i \in 1 .. 6}
        /\ \A i \in 1 .. 6 :
             /\ f[i].kind = "message" /\ f[i].addr = Names[i]
             /\ f[i].first \in Nat /\ f[i].first < b
        /\ \A i, k \in 1 .. 6 : i < k => f[i].first < f[k].first
  BY DEF InOrder
<1>2. ASSUME NEW n \in 0 .. 6
      PROVE  Cardinality({f[i] : i \in 1 .. n}) = n
  <2> DEFINE S == {f[i] : i \in 1 .. n}
             g == [i \in 1 .. n |-> f[i]]
  <2>1. n \in Nat /\ \A i \in 1 .. n : i \in 1 .. 6
    OBVIOUS
  <2>2. g \in [1 .. n -> S] /\ \A i \in 1 .. n : g[i] = f[i]
    OBVIOUS
  <2>3. ASSUME NEW i \in 1 .. n, NEW k \in 1 .. n, f[i] = f[k]
        PROVE  i = k
    <3>1. i \in 1 .. 6 /\ k \in 1 .. 6 /\ f[i].first \in Nat /\ f[k].first \in Nat
      BY <1>1, <2>1
    <3>2. ~(f[i].first < f[k].first) /\ ~(f[k].first < f[i].first)
      BY <2>3, <3>1
    <3>3. ~(i < k) /\ ~(k < i)
      BY <1>1, <3>1, <3>2
    <3> QED BY <3>3
  <2>4. \A s \in S : \E i \in 1 .. n : g[i] = s
    BY <2>2
  <2> HIDE DEF S, g
  <2>5. g \in Bijection(1 .. n, S)
    <3>1. IsInjective(g)
      BY <2>2, <2>3 DEF IsInjective
    <3> QED BY <2>2, <2>4, <3>1 DEF Bijection, Injection, Surjection
  <2>6. ExistsBijection(1 .. n, S)
    BY <2>5 DEF ExistsBijection
  <2>7. Cardinality(S) = n
    BY <2>1, <2>6, FS_CountingElements
  <2> QED BY <2>7 DEF S
<1>3. Cardinality(C) = 6
  <2>1. 6 \in 0 .. 6
    OBVIOUS
  <2> QED BY <1>1, <1>2, <2>1
<1>4. ASSUME NEW m \in C
      PROVE  m.addr = Names[Cardinality({o \in C : o.first < m.first}) + 1]
  <2>1. PICK i \in 1 .. 6 : m = f[i]
    BY <1>1
  <2>2. \A k \in 1 .. 6 : f[k].first < f[i].first <=> k \in 1 .. i - 1
    <3> TAKE k \in 1 .. 6
    <3>1. f[k].first \in Nat /\ f[i].first \in Nat
      BY <1>1
    <3>2. CASE k < i
      BY <1>1, <3>2
    <3>3. CASE k = i
      BY <3>1, <3>3
    <3>4. CASE i < k
      <4>1. f[i].first < f[k].first
        BY <1>1, <3>4
      <4> QED BY <3>1, <3>4, <4>1
    <3> QED BY <3>2, <3>3, <3>4
  <2>3. {o \in C : o.first < m.first} = {f[k] : k \in 1 .. i - 1}
    <3>1. \A k \in 1 .. i - 1 : k \in 1 .. 6
      OBVIOUS
    <3>2. \A o \in C : o.first < m.first => \E k \in 1 .. i - 1 : o = f[k]
      BY <1>1, <2>1, <2>2
    <3>3. \A k \in 1 .. i - 1 : f[k] \in C /\ f[k].first < m.first
      BY <1>1, <2>1, <2>2, <3>1
    <3> QED BY <3>2, <3>3
  <2>4. i - 1 \in 0 .. 6 /\ i - 1 + 1 = i
    OBVIOUS
  <2>5. Cardinality({o \in C : o.first < m.first}) = i - 1
    BY <1>2, <2>3, <2>4
  <2> QED BY <1>1, <2>1, <2>4, <2>5
<1> QED BY <1>3, <1>4

LEMMA NoneInOrder == ASSUME NEW b PROVE InOrder({}, 0, b)
<1> DEFINE f == [i \in 1 .. 0 |-> i]
<1>1. \A i \in 1 .. 0 : FALSE
  OBVIOUS
<1>2. f \in [1 .. 0 -> {}] /\ {} = {f[i] : i \in 1 .. 0}
  BY <1>1
<1> HIDE DEF f
<1> QED BY <1>1, <1>2 DEF InOrder

(* The sum of what the calls take goes on.                                 *)
LEMMA AtNext ==
  ASSUME ScriptArgs, ScriptInv, step \in 1 .. NumCoefficients + 29, step' = step + 1,
         NEW v, v = SizeOfCall(Calls[step]), needed' = needed + v
  PROVE  At(step', needed')
BY AtStep DEF ScriptInv

LEMMA AppendsLast ==
  ASSUME NEW S, NEW s \in Seq(S), NEW e \in S
  PROVE  /\ Append(s, e) # << >>
         /\ Len(Append(s, e)) = Len(s) + 1
         /\ Append(s, e)[Len(Append(s, e))] = e
         /\ \A i \in 1 .. Len(s) : Append(s, e)[i] = s[i]
OBVIOUS

LEMMA OpensBundle ==
  ASSUME ScriptArgs, ScriptInv, step \in 1 .. NumCoefficients + 29, step' = step + 1,
         Calls[step].op = "openBundle", OpenBundle
  PROVE  ScriptInv'
<1> DEFINE o == Opened("bundle", Null, 0)
<1>1. args.ok = TRUE /\ PacketInv
  BY Sizes DEF ScriptInv, OpenBundle, mayOpen
<1>2. Begun
  BY <1>1, Standing
<1>3. /\ inBundle = 0 /\ closed = {} /\ open = << >> /\ step = 1
      /\ inBundle' = 1 /\ closed' = {} /\ open' = Append(open, o)
      /\ needed' = needed + 0 + SizeBundle
  BY <1>1, <1>2 DEF Begun, OpenBundle
<1>4. PacketInv'
  BY <1>1, OpenBundleKeeps
<1>5. ~messageOpen'
  <2>1. open' = << o >>
    BY <1>3
  <2>2. o.kind = "bundle"
    BY DEF Opened
  <2> HIDE DEF o
  <2>3. Innermost' = o
    BY <2>1 DEF Innermost
  <2> QED BY <2>2, <2>3 DEF messageOpen
<1>6. At(step', needed')
  <2>1. SizeOfCall(Calls[step]) = 16
    BY CallSizes, CallsAre
  <2>2. needed' = needed + 16
    <3>1. needed \in Nat /\ SizeBundle = 16
      BY <1>1, Needed DEF SizeBundle
    <3> QED BY <1>3, <3>1
  <2> QED BY <2>1, <2>2, AtNext
<1>7. BetweenAt(1)'
  <2>1. step' = Opening[1]
    BY <1>3, Table
  <2>2. InOrder(closed', 1 - 1, args'.pos)
    BY <1>3, NoneInOrder
  <2> QED BY <1>3, <1>5, <2>1, <2>2 DEF BetweenAt
<1>8. Progress'
  BY <1>7 DEF Progress
<1> QED BY <1>4, <1>5, <1>6, <1>8 DEF ScriptInv, TagsFit

LEMMA OpensMessage ==
  ASSUME ScriptArgs, ScriptInv, step \in 1 .. NumCoefficients + 29, step' = step + 1,
         Calls[step].op = "openMessage",
         OpenMessage(Calls[step].addr, Calls[step].numTags)
  PROVE  ScriptInv'
<1>1. args.ok = TRUE /\ PacketInv
  BY Sizes DEF ScriptInv, OpenMessage, mayOpen
<1>2. PICK j \in 1 .. 6 :
        BetweenAt(j) /\ Calls[step].addr = Names[j] /\ Calls[step].numTags = Announced[j]
  BY <1>1, Standing
<1> DEFINE o == Opened("message", Names[j], Announced[j])
<1>3. OpenMessage(Names[j], Announced[j])
  BY <1>2
<1>4. /\ Names[j] \in Addresses /\ Announced[j] \in TagCounts /\ Announced[j] \in Nat
      /\ Given[j] \in Nat /\ Head6[j] = 4 + SizeMessage(Names[j], Announced[j])
      /\ Opening[j] \in Nat
  BY Table
<1>5. /\ inBundle = 1 /\ inBundle' = 1 /\ closed' = closed /\ open' = Append(open, o)
      /\ needed' = needed + 4 + SizeMessage(Names[j], Announced[j])
      /\ step = Opening[j] /\ InOrder(closed, j - 1, args.pos)
  <2>1. inBundle = 1 /\ step = Opening[j] /\ InOrder(closed, j - 1, args.pos)
    BY <1>2 DEF BetweenAt
  <2>2. /\ inBundle' = inBundle /\ closed' = closed /\ open' = Append(open, o)
        /\ needed' = needed + (IF inBundle > 0 THEN 4 ELSE 0)
                       + SizeMessage(Names[j], Announced[j])
    BY <1>3 DEF OpenMessage
  <2> HIDE DEF o
  <2> QED BY <2>1, <2>2
<1>6. PacketInv'
  BY <1>1, <1>3, <1>4, OpenMessageKeeps
<1>7. /\ o.kind = "message" /\ o.addr = Names[j] /\ o.numTags = Announced[j] /\ o.put = << >>
      /\ o.first = args.pos + 4
  BY <1>5 DEF Opened
<1>8. Innermost' = o /\ open' # << >>
  <2>1. open \in Seq(Element)
    BY <1>1 DEF PacketInv, Places, OpenNest
  <2>2. PICK n \in Nat : n = Len(open)
    BY <2>1
  <2> HIDE DEF o
  <2>3. open' # << >> /\ Len(open') = n + 1 /\ open'[n + 1] = o
    BY <1>5, <2>1, <2>2
  <2> QED BY <2>3 DEF Innermost
<1>9. messageOpen'
  BY <1>7, <1>8 DEF messageOpen
<1>10. At(step', needed')
  <2>1. SizeOfCall(Calls[step]) = 4 + SizeMessage(Names[j], Announced[j])
    BY <1>2, CallSizes, CallsAre
  <2>2. needed' = needed + (4 + SizeMessage(Names[j], Announced[j]))
    <3>1. needed \in Nat /\ SizeMessage(Names[j], Announced[j]) \in Nat
      BY <1>1, Needed, Table
    <3> QED BY <1>5, <3>1
  <2> QED BY <2>1, <2>2, AtNext
<1>11. InsideAt(j, 0)'
  <2>1. step' = Opening[j] + 1 + 0
    BY <1>4, <1>5
  <2>2. InOrder(closed', j - 1, Innermost'.first)
    <3>1. args.pos \in Nat /\ args.pos + 4 \in Nat /\ args.pos <= args.pos + 4 /\ j - 1 \in Nat
      BY <1>1, Sizes
    <3> QED BY <1>5, <1>7, <1>8, <3>1, InOrderBelow
  <2>3. Len(Innermost'.put) = 0
    BY <1>7, <1>8
  <2> QED BY <1>5, <1>7, <1>8, <1>9, <2>1, <2>2, <2>3 DEF InsideAt
<1>12. Progress'
  <2>1. 0 \in 0 .. Given[j]
    BY <1>4
  <2> QED BY <1>11, <2>1 DEF Progress
<1>13. TagsFit'
  BY <1>4, <1>7, <1>8 DEF TagsFit
<1> QED BY <1>6, <1>10, <1>12, <1>13 DEF ScriptInv

LEMMA PutsArgument ==
  ASSUME ScriptArgs, ScriptInv, step \in 1 .. NumCoefficients + 29, step' = step + 1,
         Calls[step].op = "put", PutArg(Calls[step].arg)
  PROVE  ScriptInv'
<1>1. args.ok = TRUE /\ PacketInv /\ messageOpen
  BY Sizes DEF ScriptInv, PutArg
<1>2. PICK j \in 1 .. 6 : \E k \in 0 .. (Given[j] - 1) :
        InsideAt(j, k) /\ Calls[step].arg \in {Int32, Float32}
  BY <1>1, Standing
<1>3. PICK k \in 0 .. (Given[j] - 1) : InsideAt(j, k) /\ Calls[step].arg \in {Int32, Float32}
  BY <1>2
<1>4. PICK arg \in {Int32, Float32} : arg = Calls[step].arg
  BY <1>3
<1>5. arg \in Args /\ Len(arg.head) + Len(arg.data) = 1
  BY DEF ScriptArgs
<1>6. /\ Opening[j] \in Nat /\ Given[j] \in Nat /\ Announced[j] \in Nat
      /\ Given[j] <= Announced[j]
  BY Table
<1>7. /\ open \in Seq(Element) /\ open # << >>
      /\ inBundle' = inBundle /\ closed' = closed
      /\ open' = [open EXCEPT ![Len(open)].put = Append(@, arg)]
      /\ needed' = needed + 4 * (Len(arg.head) + Len(arg.data))
  BY <1>1, <1>4 DEF PutArg, PacketInv, Places, OpenNest, messageOpen
<1>8. PacketInv'
  BY <1>1, <1>4, <1>5, PutArgKeeps
<1>9. /\ Innermost' = [Innermost EXCEPT !.put = Append(Innermost.put, arg)]
      /\ Len(Innermost'.put) = Len(Innermost.put) + 1
      /\ Innermost'.numTags = Innermost.numTags
      /\ messageOpen' <=> messageOpen
  BY <1>5, <1>7, PutAppends
<1>10. Innermost'.addr = Innermost.addr /\ Innermost'.first = Innermost.first
  BY <1>7, <1>9, InnermostIsElement DEF Element
<1>11. At(step', needed')
  <2>1. SizeOfCall(Calls[step]) = 4
    BY <1>3, CallSizes, CallsAre
  <2>2. needed' = needed + 4
    <3>1. PICK words : words = Len(arg.head) + Len(arg.data)
      OBVIOUS
    <3>2. words = 1 /\ needed' = needed + 4 * words
      BY <1>5, <1>7, <3>1
    <3> QED BY <3>2
  <2> QED BY <2>1, <2>2, AtNext
<1>12. /\ step = Opening[j] + 1 + k /\ inBundle = 1
       /\ Innermost.addr = Names[j] /\ Innermost.numTags = Announced[j]
       /\ Len(Innermost.put) = k
       /\ InOrder(closed, j - 1, Innermost.first)
  BY <1>3 DEF InsideAt
<1>13. InsideAt(j, k + 1)'
  <2>1. step' = Opening[j] + 1 + (k + 1)
    BY <1>6, <1>12
  <2> QED BY <1>1, <1>7, <1>9, <1>10, <1>12, <2>1 DEF InsideAt
<1>14. k + 1 \in 0 .. Given[j]
  BY <1>6
<1>15. TagsFit'
  <2>1. k + 1 \in 0 .. Announced[j]
    BY <1>6, <1>14
  <2> QED BY <1>6, <1>9, <1>12, <2>1 DEF TagsFit
<1> QED BY <1>8, <1>11, <1>13, <1>14, <1>15 DEF ScriptInv, Progress

(* What is open of the packet of the program.                              *)
LEMMA NestOfTwo ==
  ASSUME PacketInv, args.ok = TRUE, inBundle = 1
  PROVE  /\ open \in Seq(Element)
         /\ open[1].kind = "bundle" /\ open[1].first = 0
         /\ messageOpen => Len(open) = 2 /\ Innermost = open[2] /\ Innermost.kind = "message"
                           /\ Innermost.first \in Nat /\ Innermost.first < args.pos
         /\ ~messageOpen => Len(open) = 1 /\ Innermost = open[1]
         /\ args.pos \in Nat
<1>1. /\ open \in Seq(Element)
      /\ Len(open) \in {1, 2}
      /\ \A i \in 1 .. Len(open) :
           /\ open[i].kind = IF i <= 1 THEN "bundle" ELSE "message"
           /\ i = 1 => open[i].first = 0
           /\ open[i].first + (IF i <= 1 THEN SizeBundle ELSE 8) <= args.pos
  BY DEF PacketInv, Places, OpenNest
<1>2. args.pos \in Nat
  BY Sizes
<1>3. open[1].kind = "bundle" /\ open[1].first = 0 /\ open # << >>
  <2>1. \A n \in {1, 2} : 1 \in 1 .. n /\ n # 0
    OBVIOUS
  <2>2. Len(open) \in {1, 2}
    BY <1>1
  <2>3. 1 \in 1 .. Len(open) /\ Len(open) # 0
    BY <2>1, <2>2
  <2>4. open # << >>
    BY <2>3
  <2> QED BY <1>1, <2>3, <2>4
<1>4. CASE Len(open) = 1
  <2>1. Innermost = open[1]
    BY <1>4 DEF Innermost
  <2> QED BY <1>1, <1>2, <1>3, <1>4, <2>1 DEF messageOpen
<1>5. CASE Len(open) = 2
  <2>1. Innermost = open[2]
    BY <1>5 DEF Innermost
  <2>2. open[2].kind = "message" /\ open[2].first + 8 <= args.pos /\ open[2].first \in Nat
    <3>1. 2 \in 1 .. Len(open) /\ ~(2 <= 1)
      BY <1>5
    <3>2. open[2] \in Element
      BY <1>1, <3>1
    <3>3. open[2].first \in Nat
      BY <3>2 DEF Element
    <3> QED BY <1>1, <3>1, <3>3
  <2>3. open[2].first < args.pos
    BY <1>2, <2>2
  <2> QED BY <1>1, <1>2, <1>3, <1>5, <2>1, <2>2, <2>3 DEF messageOpen
<1> QED BY <1>1, <1>4, <1>5

LEMMA ClosesMessage ==
  ASSUME ScriptArgs, ScriptInv, step \in 1 .. NumCoefficients + 29, step' = step + 1,
         Calls[step].op = "closeMessage", CloseMessage
  PROVE  ScriptInv'
<1>1. args.ok = TRUE /\ PacketInv /\ messageOpen
  BY Sizes DEF ScriptInv, CloseMessage
<1>2. PICK j \in 1 .. 6 : InsideAt(j, Given[j])
  BY <1>1, Standing
<1>3. /\ Opening[j] \in Nat /\ Given[j] \in Nat
      /\ Opening[j + 1] = Opening[j] + Given[j] + 2
  BY Table
<1>4. /\ step = Opening[j] + 1 + Given[j] /\ inBundle = 1
      /\ Innermost.addr = Names[j]
      /\ InOrder(closed, j - 1, Innermost.first)
  BY <1>2 DEF InsideAt
<1>5. PacketInv'
  BY <1>1, CloseMessageKeeps
<1>6. /\ args' = PutSize(args, sizePosM)
      /\ inBundle' = inBundle /\ needed' = needed
      /\ IF args'.ok THEN Close ELSE UNCHANGED <<open, closed>>
  BY <1>4 DEF CloseMessage
<1>7. At(step', needed')
  <2>1. SizeOfCall(Calls[step]) = 0
    BY CallSizes, CallsAre
  <2>2. needed' = needed + 0
    BY <1>1, <1>6, Needed
  <2> QED BY <2>1, <2>2, AtNext
<1>8. CASE args'.ok = TRUE
  <2> DEFINE m == [Innermost EXCEPT !.last = args.pos]
  <2>1. /\ open' = SubSeq(open, 1, Len(open) - 1)
        /\ closed' = closed \cup {m}
    BY <1>6, <1>8 DEF Close
  <2>2. args'.pos = args.pos
    BY <1>1, <1>6, <1>8, Sizes DEF PutSize, IsStream
  <2>3. /\ open \in Seq(Element) /\ Len(open) = 2 /\ Innermost \in Element
        /\ Innermost.kind = "message" /\ open[1].kind = "bundle"
        /\ Innermost.first \in Nat /\ Innermost.first < args.pos /\ args.pos \in Nat
    <3>1. open # << >>
      BY <1>1 DEF messageOpen
    <3> QED BY <1>1, <1>4, <3>1, NestOfTwo, InnermostIsElement
  <2>4. m.kind = "message" /\ m.addr = Names[j] /\ m.first = Innermost.first
    BY <1>4, <2>3 DEF Element
  <2>5. open' = SubSeq(open, 1, 1)
    BY <2>1, <2>3
  <2>6. Len(open') = 1 /\ open'[1] = open[1]
    BY <2>3, <2>5
  <2>7. ~messageOpen'
    <3>1. Innermost' = open[1]
      BY <2>6 DEF Innermost
    <3> QED BY <2>3, <3>1 DEF messageOpen
  <2> HIDE DEF m
  <2>8. InOrder(closed', j, args'.pos)
    <3>1. PICK n \in Nat : n = j - 1
      OBVIOUS
    <3>2. n + 1 = j
      BY <3>1
    <3>3. InOrder(closed, n, m.first) /\ m.first \in Nat /\ m.first < args.pos
      BY <1>4, <2>3, <2>4, <3>1
    <3>4. InOrder(closed \cup {m}, n + 1, args.pos)
      BY <2>3, <2>4, <3>2, <3>3, InOrderGrows
    <3> QED BY <2>1, <2>2, <3>2, <3>4
  <2>9. j + 1 \in 1 .. 7 /\ j + 1 - 1 = j /\ step' = Opening[j + 1]
    BY <1>3, <1>4
  <2>10. BetweenAt(j + 1)'
    BY <1>4, <1>6, <2>7, <2>8, <2>9 DEF BetweenAt
  <2> QED BY <1>5, <1>7, <2>7, <2>9, <2>10 DEF ScriptInv, TagsFit, Progress
<1>9. CASE args'.ok # TRUE
  <2>1. UNCHANGED <<open, closed>>
    <3>1. args'.ok \in BOOLEAN
      BY <1>5 DEF PacketInv, Types, TypeOK
    <3> QED BY <1>6, <1>9, <3>1
  <2>2. TagsFit'
    BY <2>1 DEF ScriptInv, TagsFit, messageOpen, Innermost
  <2> QED BY <1>5, <1>7, <1>9, <2>2 DEF ScriptInv
<1> QED BY <1>8, <1>9

LEMMA ClosesBundle ==
  ASSUME ScriptArgs, ScriptInv, step \in 1 .. NumCoefficients + 29, step' = step + 1,
         Calls[step].op = "closeBundle", CloseBundle
  PROVE  ScriptInv'
<1>1. args.ok = TRUE /\ PacketInv
  BY Sizes DEF ScriptInv, CloseBundle
<1>2. BetweenAt(7)
  BY <1>1, Standing
<1>3. /\ step = NumCoefficients + 29 /\ inBundle = 1 /\ ~messageOpen
      /\ InOrder(closed, 6, args.pos) /\ NumCoefficients \in Nat
  <2>1. 7 - 1 = 6
    OBVIOUS
  <2> QED BY <1>2, <2>1, Table DEF BetweenAt
<1>4. PacketInv'
  BY <1>1, CloseBundleKeeps
<1> DEFINE b == [Innermost EXCEPT !.last = args.pos]
<1>5. /\ args' = args /\ inBundle' = inBundle - 1 /\ needed' = needed
      /\ open' = SubSeq(open, 1, Len(open) - 1)
      /\ closed' = closed \cup {b}
  BY <1>1, <1>3 DEF CloseBundle, Close
<1>6. At(step', needed')
  <2>1. SizeOfCall(Calls[step]) = 0
    BY CallSizes, CallsAre
  <2>2. needed' = needed + 0
    BY <1>1, <1>5, Needed
  <2> QED BY <2>1, <2>2, AtNext
<1>7. /\ open \in Seq(Element) /\ Len(open) = 1 /\ Innermost = open[1]
      /\ open[1].kind = "bundle" /\ open[1].first = 0 /\ open[1] \in Element
  <2>1. /\ open \in Seq(Element) /\ Len(open) = 1 /\ Innermost = open[1]
        /\ open[1].kind = "bundle" /\ open[1].first = 0
    BY <1>1, <1>3, NestOfTwo
  <2>2. open[1] \in Element
    BY <2>1
  <2> QED BY <2>1, <2>2
<1>8. b.kind = "bundle" /\ b.first = 0 /\ b.last = args.pos
  BY <1>7 DEF Element
<1>9. open' = << >>
  <2>1. open' = SubSeq(open, 1, 0)
    BY <1>5, <1>7
  <2> QED BY <2>1, SubSeqEmpty
<1> HIDE DEF b
<1>10. \A m \in closed : m.kind = "message"
  BY <1>3 DEF InOrder
<1>11. closed' \ {b} = closed
  BY <1>5, <1>8, <1>10
<1>12. Finished'
  <2>1. step' = NumCoefficients + 30 /\ inBundle' = 0
    BY <1>3, <1>5
  <2> QED BY <1>3, <1>5, <1>8, <1>9, <1>11, <2>1 DEF Finished
<1>13. TagsFit'
  BY <1>9 DEF TagsFit, messageOpen
<1> QED BY <1>4, <1>6, <1>12, <1>13 DEF ScriptInv, Progress

LEMMA NextBegins ==
  ASSUME ScriptArgs, ScriptInv, NextPacket
  PROVE  ScriptInv'
<1>1. capacity \in Capacities /\ aligned \in Alignments
  BY DEF ScriptInv, PacketInv, Types, TypeOK
<1>2. PacketInv'
  BY <1>1, ResetKeeps DEF ScriptInv, NextPacket
<1>3. /\ step' = 1 /\ open' = << >> /\ closed' = {} /\ inBundle' = 0 /\ needed' = 0
  BY DEF NextPacket, Reset
<1> QED BY <1>2, <1>3 DEF ScriptInv, TagsFit, messageOpen, At, Progress, Begun

LEMMA InitScript == ScriptInit => ScriptInv
<1> SUFFICES ASSUME ScriptInit PROVE ScriptInv
  OBVIOUS
<1>1. PacketInv
  BY InitPacket DEF ScriptInit
<1>2. step = 1 /\ open = << >> /\ closed = {} /\ inBundle = 0 /\ needed = 0
  BY DEF ScriptInit, Init
<1> QED BY <1>1, <1>2 DEF ScriptInv, TagsFit, messageOpen, At, Progress, Begun

LEMMA StepScript ==
  ASSUME ScriptArgs
  PROVE  ScriptInv /\ [ScriptNext]_scriptVars => ScriptInv'
<1> SUFFICES ASSUME ScriptInv, [ScriptNext]_scriptVars PROVE ScriptInv'
  OBVIOUS
<1>1. CASE NextPacket
  BY <1>1, NextBegins
<1>2. CASE MakeCall
  <2>1. step \in 1 .. NumCoefficients + 29 /\ step' = step + 1
    <3>1. DOMAIN Calls = 1 .. NumCoefficients + 29
      BY CallsAre
    <3> QED BY <1>2, <3>1 DEF MakeCall
  <2>2. \/ Calls[step].op = "openBundle" /\ OpenBundle
        \/ Calls[step].op = "openMessage" /\ OpenMessage(Calls[step].addr, Calls[step].numTags)
        \/ Calls[step].op = "put" /\ PutArg(Calls[step].arg)
        \/ Calls[step].op = "closeMessage" /\ CloseMessage
        \/ Calls[step].op = "closeBundle" /\ CloseBundle
    BY <1>2 DEF MakeCall
  <2> QED BY <2>1, <2>2, OpensBundle, OpensMessage, PutsArgument, ClosesMessage, ClosesBundle
<1>3. CASE UNCHANGED scriptVars
  <2>1. UNCHANGED vars /\ step' = step
    BY <1>3 DEF scriptVars
  <2>2. PacketInv'
    BY <2>1, StepPacket DEF ScriptInv
  <2>3. /\ open' = open /\ closed' = closed /\ inBundle' = inBundle /\ args' = args
        /\ needed' = needed
    BY <2>1 DEF vars
  <2>4. (messageOpen' <=> messageOpen) /\ Innermost' = Innermost
    BY <2>3 DEF messageOpen, Innermost
  <2>5. TagsFit' /\ At(step', needed')
    BY <2>1, <2>3, <2>4 DEF ScriptInv, TagsFit
  <2>6. args.ok = TRUE => Progress'
    BY <2>1, <2>3, <2>4 DEF ScriptInv, Progress, Begun, BetweenAt, InsideAt, Finished
  <2> QED BY <2>2, <2>3, <2>5, <2>6 DEF ScriptInv
<1> QED BY <1>1, <1>2, <1>3 DEF ScriptNext

-----------------------------------------------------------------------------
(* No call of makeOscPacket throws on an aligned buffer of the size that   *)
(* util.hpp predicts, and MAX_OSC_PACKET_SIZE is as large for up to 65     *)
(* coefficients, in every packet that is ever built. (main.cpp:70-129)     *)
THEOREM NoCallThrows ==
  ASSUME ScriptArgs, NumCoefficients <= 65, MAX_OSC_PACKET_SIZE = 512
  PROVE  ScriptSpec => []NeverThrows
<1>1. PacketSize = Taken[7] /\ Taken[7] \in Nat /\ NumCoefficients \in Nat
  BY PacketSizeIs, Table
<1>2. PacketSize <= MAX_OSC_PACKET_SIZE
  <2>1. Align(NumCoefficients + 4) <= 72
    BY <1>1 DEF Align
  <2>2. Align(NumCoefficients + 4) \in Nat
    <3>1. PICK n \in Nat : n = NumCoefficients + 4
      BY <1>1
    <3> QED BY <3>1, AlignProperties
  <2> QED BY <1>1, <2>1, <2>2 DEF Taken
<1>3. ASSUME ScriptInv, aligned, capacity >= PacketSize
      PROVE  args.ok
  <2>1. needed \in Nat /\ needed <= Taken[7] /\ capacity \in Nat
    BY <1>3, AtBound, Sizes DEF ScriptInv
  <2>2. needed <= capacity
    BY <1>1, <1>3, <2>1
  <2>3. args.ok \/ (messageOpen /\ Len(Innermost.put) > Innermost.numTags + 1)
    BY <1>3, <2>2 DEF ScriptInv, PacketInv, SizesPredicted
  <2>4. ~(messageOpen /\ Len(Innermost.put) > Innermost.numTags + 1)
    BY <1>3 DEF ScriptInv, TagsFit
  <2> QED BY <2>3, <2>4
<1>4. ScriptInv => NeverThrows
  BY <1>2, <1>3 DEF NeverThrows
<1> QED BY InitScript, StepScript, <1>4, PTL DEF ScriptSpec

(* What makeOscPacket returns is one bundle around the six messages, in    *)
(* order, for any number of coefficients and any buffer it fits in.        *)
(* (main.cpp:78-128)                                                       *)
THEOREM PacketIsWhole ==
  ASSUME ScriptArgs
  PROVE  ScriptSpec => []PacketWhole
<1>1. ASSUME ScriptInv, step = Len(Calls) + 1, args.ok
      PROVE  Finished
  <2>1. step = NumCoefficients + 30 /\ NumCoefficients \in Nat
    <3>1. Len(Calls) = NumCoefficients + 29 /\ NumCoefficients \in Nat
      BY CallsAre, Table
    <3> QED BY <1>1, <3>1
  <2>2. Progress
    <3>1. args.ok = TRUE
      BY <1>1, Sizes DEF ScriptInv
    <3> QED BY <1>1, <3>1 DEF ScriptInv
  <2>3. ~Begun
    BY <2>1 DEF Begun
  <2>4. ASSUME NEW j \in 1 .. 7 PROVE ~BetweenAt(j)
    <3>1. Opening[j] \in 1 .. NumCoefficients + 29
      BY Table
    <3> QED BY <2>1, <3>1 DEF BetweenAt
  <2>5. ASSUME NEW j \in 1 .. 6, NEW k \in 0 .. Given[j] PROVE ~InsideAt(j, k)
    <3>1. /\ Opening[j] \in Nat /\ Given[j] \in Nat
          /\ Opening[j] + Given[j] + 2 <= NumCoefficients + 29
      BY Table
    <3>2. Opening[j] + 1 + k # NumCoefficients + 30
      BY <2>1, <3>1
    <3> QED BY <2>1, <3>2 DEF InsideAt
  <2> QED BY <2>2, <2>3, <2>4, <2>5 DEF Progress
<1>2. ASSUME ScriptInv, Finished
      PROVE  /\ inBundle = 0 /\ open = << >>
             /\ \E b \in closed :
                  /\ b.kind = "bundle" /\ b.first = 0 /\ b.last = args.pos
                  /\ Cardinality(closed \ {b}) = 6
                  /\ \A m \in closed \ {b} :
                       m.addr = Names[Cardinality({o \in closed \ {b} : o.first < m.first}) + 1]
  <2>1. PICK b \in closed :
          /\ b.kind = "bundle" /\ b.first = 0 /\ b.last = args.pos
          /\ InOrder(closed \ {b}, 6, args.pos)
    BY <1>2 DEF Finished
  <2>2. PICK C : C = closed \ {b}
    OBVIOUS
  <2>3. /\ Cardinality(C) = 6
        /\ \A m \in C : m.addr = Names[Cardinality({o \in C : o.first < m.first}) + 1]
    BY <2>1, <2>2, OrderCounts
  <2> QED BY <1>2, <2>1, <2>2, <2>3 DEF Finished
<1>3. Len(Names) = 6
  BY DEF Names
<1>4. ScriptInv => PacketWhole
  BY <1>1, <1>2, <1>3 DEF PacketWhole
<1> QED BY InitScript, StepScript, <1>4, PTL DEF ScriptSpec
=============================================================================
