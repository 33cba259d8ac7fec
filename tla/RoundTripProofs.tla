---------------------------- MODULE RoundTripProofs ----------------------------
(***************************************************************************)
(* Proofs about OscRoundTrip: a reader that follows the tags finds what    *)
(* any caller put into a packet whose messages are well-formed, also when  *)
(* the packet was cut.                                                     *)
(***************************************************************************)
EXTENDS OscRoundTrip, OscContentProofs

-----------------------------------------------------------------------------
(***************************************************************************)
(* The packet.  Closed elements lie apart from each other or one in a      *)
(* bundle, and a complete packet is one element with all others in it.     *)
(***************************************************************************)
Holding(b, e) ==
  /\ b.kind = "bundle"
  /\ e.slot # Null
  /\ e.slot >= b.first + SizeBundle
  /\ e.last <= b.last

Apart(e, o) ==
  /\ e.slot # Null
  /\ o.slot # Null
  /\ e.last <= o.slot \/ o.last <= e.slot

Laminar == \A e, o \in closed : e # o => Apart(e, o) \/ Holding(e, o) \/ Holding(o, e)

Rooted ==
  args.ok = TRUE /\ open = << >> /\ closed # {} =>
    \E r \in closed : r.slot = Null /\ r.last = args.pos

Nesting == IsFiniteSet(closed) /\ Laminar /\ Rooted

LEMMA NestingClosed ==
  ASSUME PacketInv, Nesting, Closing,
         Innermost.kind = "bundle" <=> Len(open) = inBundle
  PROVE  Nesting'
<1>1. args.ok = TRUE /\ open # << >>
  BY DEF Closing
<1>2. CASE args'.ok # TRUE
  BY <1>2 DEF Closing, Nesting, Laminar, Rooted
<1>3. CASE args'.ok = TRUE
  <2> DEFINE c == [Innermost EXCEPT !.last = args.pos]
  <2> PICK n : n = Len(open)
    OBVIOUS
  <2> PICK slot : slot = Innermost.slot
    OBVIOUS
  <2>1. /\ n \in Nat /\ n >= 1 /\ n \in 1 .. Len(open)
        /\ n = 1 => slot = Null /\ open[n].first = 0
        /\ n > 1 => slot \in Nat /\ open[n].first = slot + 4
        /\ Innermost = open[n] /\ Innermost \in Element
        /\ args'.pos = args.pos
    <3>1. ClosesAt(n, slot)
      BY ClosingPlace
    <3> QED
      BY <1>3, <3>1 DEF ClosesAt
  <2>2. closed' = closed \cup {c} /\ open' = SubSeq(open, 1, n - 1)
    BY <1>3 DEF Closing, Close
  <2>3. /\ c.first = open[n].first /\ c.slot = slot /\ c.kind = Innermost.kind
        /\ c.last = args.pos
    BY <2>1 DEF Element
  <2>4. ClosedPlaces /\ open \in Seq(Element) /\ inBundle \in Nat
        /\ args.pos \in Nat /\ n \in {inBundle, inBundle + 1}
    BY <1>1, Sizes DEF PacketInv, Places, OpenNest
  <2>5. c.kind = "bundle" <=> n = inBundle
    BY <2>3
  <2> HIDE DEF c
  <2>6. Null \notin Nat
    BY CallerAssumption
  <2>7. \A e \in closed : Apart(e, c) \/ Holding(c, e)
    <3> TAKE e \in closed
    <3>1. /\ e.first \in Nat /\ e.last \in Nat /\ e.last <= args.pos
          /\ e.slot # Null => e.slot \in Nat
          /\ e.slot # Null
      BY <1>1, ClosedSlots
    <3>2. CASE Beside(e, n)
      <4>1. n > 1 /\ e.last <= open[n].slot
        BY <3>2 DEF Beside
      <4>2. open[n].slot = slot
        BY <2>1
      <4>3. c.slot # Null
        BY <2>1, <2>3, <2>6, <4>1
      <4> QED
        BY <2>3, <3>1, <4>1, <4>2, <4>3 DEF Apart
    <3>3. CASE Within(e, n)
      <4>1. n <= inBundle /\ e.slot >= open[n].first + SizeBundle
        BY <3>3 DEF Within
      <4>2. c.kind = "bundle"
        BY <2>4, <2>5, <4>1
      <4> QED
        BY <2>3, <3>1, <4>1, <4>2 DEF Holding
    <3> QED
      BY <2>1, <2>4, <3>2, <3>3 DEF ClosedPlaces
  <2>8. Laminar'
    <3> SUFFICES ASSUME NEW e \in closed \cup {c}, NEW o \in closed \cup {c}, e # o
                 PROVE  Apart(e, o) \/ Holding(e, o) \/ Holding(o, e)
      BY <2>2 DEF Laminar
    <3>1. CASE e \in closed /\ o \in closed
      BY <3>1 DEF Nesting, Laminar
    <3>2. CASE e = c /\ o \in closed
      BY <2>7, <3>2 DEF Apart
    <3>3. CASE e \in closed /\ o = c
      BY <2>7, <3>3
    <3> QED
      BY <3>1, <3>2, <3>3
  <2>9. Rooted'
    <3>1. ASSUME open' = << >>
          PROVE  n = 1
      <4>1. Len(open') = n - 1
        BY <2>1, <2>2, <2>4
      <4>2. Len(open') = 0
        BY <3>1
      <4>3. n - 1 = 0
        BY <4>1, <4>2
      <4> QED
        BY <2>1, <4>3
    <3>2. c \in closed'
      BY <2>2
    <3> QED
      BY <2>1, <2>3, <3>1, <3>2 DEF Rooted
  <2>10. IsFiniteSet(closed')
    BY <2>2, FS_AddElement DEF Nesting
  <2> QED
    BY <2>8, <2>9, <2>10 DEF Nesting
<1> QED
  BY <1>2, <1>3

(* As long as something is open there is no root yet.                      *)
LEMMA NestingOpen ==
  ASSUME Nesting, closed' = closed, open' # << >>
  PROVE  Nesting'
BY DEF Nesting, Laminar, Rooted

LEMMA NextNesting == PacketInv /\ Nesting /\ [Next]_vars => Nesting'
<1> SUFFICES ASSUME PacketInv, Nesting, [Next]_vars PROVE Nesting'
  OBVIOUS
<1>1. ASSUME NEW size \in Capacities, NEW atFour \in Alignments, Reset(size, atFour)
      PROVE  Nesting'
  <2>1. closed' = {}
    BY <1>1 DEF Reset
  <2> QED
    BY <2>1, FS_EmptySet DEF Nesting, Laminar, Rooted
<1>2. ASSUME NEW o, mayOpen, open' = Append(open, o), closed' = closed
      PROVE  Nesting'
  <2>1. open \in Seq(Element)
    BY <1>2, Sizes, OnlyBundlesOpen DEF mayOpen
  <2>2. open' # << >>
    BY <1>2, <2>1
  <2> QED
    BY <1>2, <2>2, NestingOpen
<1>3. CASE OpenBundle
  BY <1>2, <1>3 DEF OpenBundle
<1>4. CASE CloseBundle
  BY <1>4, CloseBundleCloses, NestingClosed
<1>5. ASSUME NEW addr \in Addresses, NEW numTags \in TagCounts, OpenMessage(addr, numTags)
      PROVE  Nesting'
  BY <1>2, <1>5 DEF OpenMessage
<1>6. ASSUME NEW arg \in Args, PutArg(arg)
      PROVE  Nesting'
  <2>1. args.ok = TRUE /\ messageOpen /\ closed' = closed
        /\ open' = [open EXCEPT ![Len(open)].put = Append(@, arg)]
    BY <1>6, Sizes DEF PutArg
  <2>2. open \in Seq(Element) /\ open # << >>
    BY <2>1, BeforeTheTags
  <2>3. Len(open') = Len(open) /\ Len(open) \in Nat /\ Len(open) >= 1
    BY <2>1, <2>2, PutAppends, InnermostIsElement
  <2>4. open' # << >>
    BY <2>3
  <2> QED
    BY <2>1, <2>4, NestingOpen
<1>7. CASE CloseMessage
  <2>1. Closing /\ messageOpen /\ Len(open) = inBundle + 1
    BY <1>7, CloseMessageCloses
  <2>2. Innermost.kind = "message" /\ inBundle \in Nat
    BY <2>1, Sizes DEF messageOpen
  <2>3. Len(open) # inBundle
    BY <2>1, <2>2
  <2> QED
    BY <2>1, <2>2, <2>3, NestingClosed
<1>8. CASE UNCHANGED vars
  BY <1>8 DEF vars, Nesting, Laminar, Rooted
<1> QED
  BY <1>1, <1>3, <1>4, <1>5, <1>6, <1>7, <1>8 DEF Next

LEMMA NestingAlways == Spec => []Nesting
<1>1. Init => Nesting
  BY FS_EmptySet DEF Init, Nesting, Laminar, Rooted
<1> QED
  BY <1>1, NextNesting, PacketAlways, PTL DEF Spec

-----------------------------------------------------------------------------
(***************************************************************************)
(* A complete packet: its elements in the order of their places, the       *)
(* bundles around each of them, and the root.                              *)
(***************************************************************************)
Complete ==
  /\ args.ok = TRUE /\ open = << >> /\ closed # {}
  /\ \A m \in closed : m.kind = "message" => WellFormed(m)

Delivered == PacketInv /\ Content /\ Tiles /\ Nesting /\ Complete

ElementAt(e) ==
  /\ e.kind \in {"bundle", "message"}
  /\ e.first \in Nat /\ e.last \in Nat /\ e.first % 4 = 0
  /\ e.first + 8 <= e.last
  /\ e.kind = "bundle" => e.first + 16 <= e.last
  /\ e.last <= args.pos
  /\ e.slot # Null => /\ e.slot \in Nat /\ e.first = e.slot + 4
                      /\ args.data[e.slot \div 4] = Size(e.last - e.first)
  /\ e.slot = Null => e.first = 0

LEMMA ElementsPlaced ==
  ASSUME Delivered, NEW e \in closed
  PROVE  ElementAt(e) /\ args.pos \in Nat
<1>1. PacketInv /\ args.ok = TRUE /\ Tiles
  BY DEF Delivered, Complete
<1>2. /\ e \in Element
      /\ e.first \in Nat /\ e.last \in Nat
      /\ e.first + 8 <= e.last /\ e.last <= args.pos
      /\ e.slot # Null => e.slot \in Nat /\ e.first = e.slot + 4
  BY <1>1, ClosedSlots
<1>3. e.first % 4 = 0 /\ (e.slot = Null => e.first = 0)
  BY <1>1 DEF PacketInv, Places, ClosedPlaces
<1>4. e.slot # Null => args.data[e.slot \div 4] = Size(e.last - e.first)
  BY <1>1 DEF PacketInv, SizesMatch
<1>5. e.kind \in {"bundle", "message"}
  BY <1>2 DEF Element
<1>6. e.kind = "bundle" => e.first + 16 <= e.last
  BY <1>1, <1>2 DEF Tiles, ClosedTiles, SizeBundle
<1>7. args.pos \in Nat
  BY <1>1, Sizes
<1> QED
  BY <1>2, <1>3, <1>4, <1>5, <1>6, <1>7 DEF ElementAt

(* Of two elements the one that begins first ends before the other's slot, *)
(* or is a bundle with the other in it.                                    *)
LEMMA InOrderOfPlace ==
  ASSUME Delivered, NEW e \in closed, NEW o \in closed, e.first < o.first
  PROVE  /\ o.slot \in Nat /\ o.slot # Null /\ o.first = o.slot + 4
         /\ e.last <= o.slot \/ Holding(e, o)
<1>1. /\ e.first \in Nat /\ e.last \in Nat /\ e.first + 8 <= e.last
      /\ e.slot # Null => e.slot \in Nat /\ e.first = e.slot + 4
      /\ o.first \in Nat /\ o.last \in Nat /\ o.first + 8 <= o.last
      /\ o.slot # Null => o.slot \in Nat /\ o.first = o.slot + 4
  BY ElementsPlaced DEF ElementAt
<1>2. Apart(e, o) \/ Holding(e, o) \/ Holding(o, e)
  BY <1>1 DEF Delivered, Nesting, Laminar
<1>3. CASE Apart(e, o)
  BY <1>1, <1>3 DEF Apart
<1>4. CASE Holding(e, o)
  BY <1>1, <1>4 DEF Holding
<1>5. CASE Holding(o, e)
  BY <1>1, <1>5 DEF Holding, SizeBundle
<1> QED
  BY <1>2, <1>3, <1>4, <1>5

LEMMA FirstsDiffer ==
  ASSUME Delivered, NEW e \in closed, NEW o \in closed, e.first = o.first
  PROVE  e = o
<1> SUFFICES ASSUME e # o PROVE FALSE
  OBVIOUS
<1>1. /\ e.first \in Nat /\ e.last \in Nat /\ e.first + 8 <= e.last
      /\ e.slot # Null => e.slot \in Nat /\ e.first = e.slot + 4
      /\ o.first \in Nat /\ o.last \in Nat /\ o.first + 8 <= o.last
      /\ o.slot # Null => o.slot \in Nat /\ o.first = o.slot + 4
  BY ElementsPlaced DEF ElementAt
<1>2. Apart(e, o) \/ Holding(e, o) \/ Holding(o, e)
  BY DEF Delivered, Nesting, Laminar
<1> QED
  BY <1>1, <1>2 DEF Apart, Holding, SizeBundle

Before(pos) == {e \in closed : e.first < pos}
UpTo(e) == {o \in closed : o.first <= e.first}

LEMMA RankFinite ==
  ASSUME Delivered
  PROVE  /\ IsFiniteSet(closed) /\ Cardinality(closed) \in Nat
         /\ \A pos : IsFiniteSet(Before(pos)) /\ Cardinality(Before(pos)) \in Nat
         /\ \A e : /\ IsFiniteSet(UpTo(e)) /\ Rank(e) = Cardinality(UpTo(e))
                   /\ Rank(e) \in Nat /\ Rank(e) <= Cardinality(closed)
         /\ \A e : IsFiniteSet(Around(e)) /\ Cardinality(Around(e)) \in Nat
<1>1. IsFiniteSet(closed)
  BY DEF Delivered, Nesting
<1>2. \A S \in SUBSET closed :
        IsFiniteSet(S) /\ Cardinality(S) \in Nat /\ Cardinality(S) <= Cardinality(closed)
  BY <1>1, FS_Subset, FS_CardinalityType
<1>3. \A pos : Before(pos) \in SUBSET closed
  BY DEF Before
<1>4. \A e : UpTo(e) \in SUBSET closed /\ Rank(e) = Cardinality(UpTo(e))
  BY DEF UpTo, Rank
<1>5. \A e : Around(e) \in SUBSET closed
  BY DEF Around
<1>6. Cardinality(closed) \in Nat
  BY <1>1, FS_CardinalityType
<1> QED
  BY <1>1, <1>2, <1>3, <1>4, <1>5, <1>6

(* The element with a number is the one with that rank.                    *)
LEMMA NthIs ==
  ASSUME Delivered, NEW e \in closed
  PROVE  Nth(Rank(e)) = e /\ Rank(e) <= Cardinality(closed)
<1>1. ASSUME NEW o \in closed, NEW p \in closed, o.first < p.first
      PROVE  Rank(o) # Rank(p)
  <2>1. o.first \in Nat /\ p.first \in Nat
    BY ElementsPlaced DEF ElementAt
  <2>2. UpTo(o) \subseteq UpTo(p)
    <3> SUFFICES ASSUME NEW x \in closed, x.first <= o.first PROVE x.first <= p.first
      BY DEF UpTo
    <3>1. x.first \in Nat
      BY ElementsPlaced DEF ElementAt
    <3> QED
      BY <1>1, <2>1, <3>1
  <2>3. UpTo(o) # UpTo(p)
    <3>1. p \in UpTo(p) /\ p \notin UpTo(o)
      BY <1>1, <2>1 DEF UpTo
    <3> QED
      BY <3>1
  <2>4. IsFiniteSet(UpTo(p)) /\ Rank(o) = Cardinality(UpTo(o)) /\ Rank(p) = Cardinality(UpTo(p))
    BY RankFinite
  <2> QED
    BY <2>2, <2>3, <2>4, FS_Subset
<1>2. ASSUME NEW o \in closed, Rank(o) = Rank(e)
      PROVE  o = e
  <2>1. o.first \in Nat /\ e.first \in Nat
    BY ElementsPlaced DEF ElementAt
  <2>2. o.first = e.first
    BY <1>1, <1>2, <2>1
  <2> QED
    BY <2>2, FirstsDiffer
<1>3. Nth(Rank(e)) = e
  BY <1>2 DEF Nth
<1> QED
  BY <1>3, RankFinite

(* How many elements begin before the slot of one, before the first        *)
(* element of a bundle, and before the end of a message.                   *)
LEMMA RanksAt ==
  ASSUME Delivered, NEW e \in closed
  PROVE  /\ e.slot # Null => Rank(e) = Cardinality(Before(e.slot)) + 1
         /\ e.kind = "bundle" => Cardinality(Before(e.first + 16)) = Rank(e)
         /\ e.kind = "message" => Cardinality(Before(e.last)) = Rank(e)
<1>1. ElementAt(e) /\ Rank(e) = Cardinality(UpTo(e))
  BY ElementsPlaced, RankFinite
<1>2. ASSUME e.slot # Null
      PROVE  Rank(e) = Cardinality(Before(e.slot)) + 1
  <2>1. e \notin Before(e.slot)
    BY <1>1, <1>2 DEF Before, ElementAt
  <2>2. \A o \in closed : o.first <= e.first <=> o.first < e.slot \/ o = e
    <3> TAKE o \in closed
    <3>1. o.first \in Nat
      BY ElementsPlaced DEF ElementAt
    <3>2. CASE o.first < e.first
      <4>1. o.last <= e.slot \/ e.slot >= o.first + 16
        BY <3>2, InOrderOfPlace DEF Holding, SizeBundle
      <4>2. o.last \in Nat /\ o.first + 8 <= o.last
        BY ElementsPlaced DEF ElementAt
      <4> QED
        BY <1>1, <1>2, <3>1, <3>2, <4>1, <4>2 DEF ElementAt
    <3>3. CASE o.first = e.first
      BY <1>1, <3>3, FirstsDiffer DEF ElementAt
    <3>4. CASE o.first > e.first
      BY <1>1, <1>2, <3>1, <3>4 DEF ElementAt
    <3> QED
      BY <1>1, <3>1, <3>2, <3>3, <3>4 DEF ElementAt
  <2>3. UpTo(e) = Before(e.slot) \cup {e}
    BY <2>2 DEF UpTo, Before
  <2> QED
    BY <1>1, <2>1, <2>3, RankFinite, FS_AddElement
<1>3. ASSUME e.kind = "bundle"
      PROVE  Cardinality(Before(e.first + 16)) = Rank(e)
  <2>1. \A o \in closed : o.first <= e.first <=> o.first < e.first + 16
    <3> TAKE o \in closed
    <3>1. o.first \in Nat /\ e.first \in Nat /\ e.last \in Nat /\ e.first + 16 <= e.last
      BY <1>1, <1>3, ElementsPlaced DEF ElementAt
    <3>2. CASE o.first > e.first
      BY <3>1, <3>2, InOrderOfPlace DEF Holding, SizeBundle
    <3> QED
      BY <3>1, <3>2
  <2>2. UpTo(e) = Before(e.first + 16)
    BY <2>1 DEF UpTo, Before
  <2> QED
    BY <1>1, <2>2
<1>4. ASSUME e.kind = "message"
      PROVE  Cardinality(Before(e.last)) = Rank(e)
  <2>1. \A o \in closed : o.first <= e.first <=> o.first < e.last
    <3> TAKE o \in closed
    <3>1. o.first \in Nat /\ e.first \in Nat /\ e.last \in Nat /\ e.first + 8 <= e.last
      BY <1>1, ElementsPlaced DEF ElementAt
    <3>2. CASE o.first > e.first
      BY <1>4, <3>1, <3>2, InOrderOfPlace DEF Holding
    <3> QED
      BY <3>1, <3>2
  <2>2. UpTo(e) = Before(e.last)
    BY <2>1 DEF UpTo, Before
  <2> QED
    BY <1>1, <2>2
<1> QED
  BY <1>2, <1>3, <1>4

(* Around the root there is nothing, and around an element of a bundle the *)
(* bundle and what is around that.  The reader is at the element's slot:   *)
(* what the bundle holds is before it or behind it.                        *)
LEMMA AroundRoot ==
  ASSUME Delivered, NEW r \in closed, r.slot = Null
  PROVE  Around(r) = {} /\ Cardinality(Around(r)) = 0
<1>1. r.first = 0
  BY ElementsPlaced DEF ElementAt
<1>2. ASSUME NEW b \in closed, b # r, b.first <= r.first
      PROVE  FALSE
  <2>1. b.first \in Nat
    BY ElementsPlaced DEF ElementAt
  <2>2. b.first = r.first
    BY <1>1, <1>2, <2>1
  <2> QED
    BY <1>2, <2>2, FirstsDiffer
<1>3. Around(r) = {}
  BY <1>2 DEF Around
<1> QED
  BY <1>3, FS_EmptySet

LEMMA AroundInside ==
  ASSUME Delivered, NEW b \in closed, NEW e \in closed, Holding(b, e),
         \A f \in closed : Holding(b, f) => f.last <= e.slot \/ e.slot <= f.slot
  PROVE  Cardinality(Around(e)) = Cardinality(Around(b)) + 1
<1>1. ElementAt(b) /\ ElementAt(e)
  BY ElementsPlaced
<1>2. b.kind = "bundle" /\ e.slot # Null /\ e.slot >= b.first + 16 /\ e.last <= b.last
  BY DEF Holding, SizeBundle
<1>3. b # e
  BY <1>1, <1>2 DEF ElementAt
<1>4. Around(e) = Around(b) \cup {b}
  <2>1. ASSUME NEW o \in Around(e), o # b
        PROVE  o \in Around(b)
    <3>1. /\ o \in closed /\ o.kind = "bundle" /\ o # e
          /\ o.first <= e.first /\ e.last <= o.last
      BY DEF Around
    <3>2. ElementAt(o)
      BY <3>1, ElementsPlaced
    <3>3. Apart(o, b) \/ Holding(o, b) \/ Holding(b, o)
      BY <2>1, <3>1 DEF Delivered, Nesting, Laminar
    <3>4. CASE Apart(o, b)
      BY <1>1, <1>2, <3>1, <3>2, <3>4 DEF Apart, ElementAt
    <3>5. CASE Holding(o, b)
      <4>1. b.slot # Null /\ b.slot >= o.first + 16 /\ b.last <= o.last
        BY <3>5 DEF Holding, SizeBundle
      <4>2. o.first <= b.first
        BY <1>1, <3>2, <4>1 DEF ElementAt
      <4> QED
        BY <2>1, <3>1, <4>1, <4>2 DEF Around
    <3>6. CASE Holding(b, o)
      <4>1. o.slot # Null /\ (o.last <= e.slot \/ e.slot <= o.slot)
        BY <3>1, <3>6 DEF Holding
      <4>2. o.first = e.first
        BY <1>1, <1>2, <3>1, <3>2, <4>1 DEF ElementAt
      <4> QED
        BY <3>1, <4>2, FirstsDiffer
    <3> QED
      BY <3>3, <3>4, <3>5, <3>6
  <2>2. b \in Around(e)
    BY <1>1, <1>2, <1>3 DEF Around, ElementAt
  <2>3. ASSUME NEW o \in Around(b)
        PROVE  o \in Around(e)
    <3>1. /\ o \in closed /\ o.kind = "bundle"
          /\ o.first <= b.first /\ b.last <= o.last
      BY DEF Around
    <3>2. ElementAt(o)
      BY <3>1, ElementsPlaced
    <3>3. o.first < e.first /\ e.last <= o.last
      BY <1>1, <1>2, <3>1, <3>2 DEF ElementAt
    <3>4. o # e /\ o.first <= e.first
      BY <1>1, <3>2, <3>3 DEF ElementAt
    <3> QED
      BY <3>1, <3>3, <3>4 DEF Around
  <2> QED
    BY <2>1, <2>2, <2>3
<1>5. b \notin Around(b)
  BY DEF Around
<1> QED
  BY <1>4, <1>5, RankFinite, FS_AddElement

(* The packet is its root.                                                 *)
LEMMA RootOf ==
  ASSUME Delivered
  PROVE  \E r \in closed :
           /\ r.slot = Null /\ r.first = 0 /\ r.last = args.pos
           /\ Cardinality(Around(r)) = 0
           /\ Rank(r) = 1
           /\ r.kind = "message" => closed = {r}
<1>1. PICK r \in closed : r.slot = Null /\ r.last = args.pos
  BY DEF Delivered, Nesting, Rooted, Complete
<1>2. r.first = 0 /\ Cardinality(Around(r)) = 0
  BY <1>1, ElementsPlaced, AroundRoot DEF ElementAt
<1>3. Rank(r) = 1
  <2>1. UpTo(r) = {r}
    <3>1. ASSUME NEW o \in UpTo(r)
          PROVE  o = r
      <4>1. o \in closed /\ o.first <= r.first
        BY DEF UpTo
      <4>2. o.first \in Nat
        BY <4>1, ElementsPlaced DEF ElementAt
      <4>3. o.first = r.first
        BY <1>2, <4>1, <4>2
      <4> QED
        BY <4>1, <4>3, FirstsDiffer
    <3> QED
      BY <1>2, <3>1 DEF UpTo
  <2> QED
    BY <2>1, RankFinite, FS_Singleton
<1>4. ASSUME r.kind = "message", NEW o \in closed
      PROVE  o = r
  <2>1. Apart(r, o) \/ Holding(r, o) \/ Holding(o, r) \/ o = r
    BY DEF Delivered, Nesting, Laminar
  <2> QED
    BY <1>1, <1>4, <2>1 DEF Apart, Holding
<1> QED
  BY <1>1, <1>2, <1>3, <1>4

-----------------------------------------------------------------------------
(***************************************************************************)
(* What the reader sees at a place of the packet.                          *)
(***************************************************************************)
LEMMA SameSizes ==
  /\ Reader!NUL = NUL /\ Reader!BundleWords = BundleWords /\ Reader!TimeWords = TimeWords
  /\ Reader!SizeBundle = SizeBundle
  /\ \A n : Reader!Align(n) = Align(n)
  /\ \A s : Reader!SizeString(s) = SizeString(s)
BY DEF Reader!NUL, NUL, Reader!BundleWords, BundleWords, Reader!TimeWords, TimeWords,
       Reader!SizeBundle, SizeBundle, Reader!Align, Align, Reader!SizeString, SizeString

LEMMA WordsHeld ==
  ASSUME NEW p \in Nat, p % 4 = 0, NEW W, NEW ws \in Seq(W), Holds(args, p, ws)
  PROVE  Reader!Words(p, 4 * Len(ws)) = ws
<1> PICK n \in Nat : n = Len(ws)
  OBVIOUS
<1>1. (4 * n) \div 4 = n
  OBVIOUS
<1>2. \A i \in 1 .. n : Reader!Word(p + 4 * (i - 1)) = ws[i]
  <2> TAKE i \in 1 .. n
  <2>1. (p + 4 * (i - 1)) \div 4 = p \div 4 + i - 1
    BY WordOf
  <2>2. args.data[p \div 4 + i - 1] = ws[i]
    BY DEF Holds
  <2> QED
    BY <2>1, <2>2 DEF Reader!Word
<1>3. Reader!Words(p, 4 * n) = [i \in 1 .. n |-> ws[i]]
  BY <1>1, <1>2 DEF Reader!Words
<1> QED
  BY <1>3

LEMMA WordAt ==
  ASSUME NEW p \in Nat, p % 4 = 0, NEW k \in Nat, k % 4 = 0, k >= 4
  PROVE  /\ k \div 4 \in Nat /\ k \div 4 >= 1 /\ k = 4 * (k \div 4)
         /\ Reader!Word(p + k - 4) = args.data[p \div 4 + k \div 4 - 1]
<1>1. k \div 4 \in Nat /\ k = 4 * (k \div 4) /\ p \div 4 \in Nat /\ p = 4 * (p \div 4)
  BY WordOf
<1>2. (p + k - 4) \div 4 = p \div 4 + k \div 4 - 1
  BY <1>1
<1> QED
  BY <1>1, <1>2 DEF Reader!Word

(* getString ends with the first word whose last byte is zero.             *)
LEMMA StringLengthIs ==
  ASSUME NEW p \in Nat, p % 4 = 0, NEW end \in Nat, NEW n \in Nat, n >= 1,
         Reader!EndsString(args.data[p \div 4 + n - 1]),
         \A j \in 1 .. n - 1 : ~Reader!EndsString(args.data[p \div 4 + j - 1])
  PROVE  Reader!StringLength(p, end) = IF p + 4 * n <= end THEN 4 * n ELSE Null
<1> DEFINE Ended(k) == k % 4 = 0 /\ Reader!EndsString(Reader!Word(p + k - 4))
<1> PICK L : L = {k \in 4 .. (end - p) : Ended(k)}
  OBVIOUS
<1>1. Reader!StringLength(p, end) = IF L = {} THEN Null ELSE Reader!Min(L)
  BY DEF Reader!StringLength
<1>2. \A k \in Nat : k >= 4 /\ Ended(k) => k >= 4 * n
  <2> TAKE k \in Nat
  <2> HAVE k >= 4 /\ Ended(k)
  <2>1. /\ k \div 4 \in Nat /\ k \div 4 >= 1 /\ k = 4 * (k \div 4)
        /\ Reader!EndsString(args.data[p \div 4 + k \div 4 - 1])
    BY WordAt
  <2>2. k \div 4 \notin 1 .. n - 1
    BY <2>1
  <2> QED
    BY <2>1, <2>2
<1>3. 4 * n \in Nat /\ 4 * n >= 4 /\ Ended(4 * n)
  <2>1. 4 * n \in Nat /\ 4 * n >= 4 /\ (4 * n) % 4 = 0 /\ (4 * n) \div 4 = n
    OBVIOUS
  <2>2. Reader!Word(p + 4 * n - 4) = args.data[p \div 4 + n - 1]
    BY <2>1, WordAt
  <2> QED
    BY <2>1, <2>2
<1> HIDE DEF Ended
<1>4. CASE p + 4 * n <= end
  <2>1. 4 * n \in L /\ \A y \in L : 4 * n <= y
    BY <1>2, <1>3, <1>4
  <2>2. \A x \in L : (\A y \in L : x <= y) => x = 4 * n
    BY <2>1
  <2>3. Reader!Min(L) = 4 * n
    BY <2>1, <2>2 DEF Reader!Min
  <2> QED
    BY <1>1, <1>4, <2>1, <2>3
<1>5. CASE ~(p + 4 * n <= end)
  <2>1. L = {}
    BY <1>2, <1>5
  <2> QED
    BY <1>1, <1>5, <2>1
<1> QED
  BY <1>4, <1>5

LEMMA StringEnds ==
  ASSUME NEW s \in Strings, NEW p \in Nat, p % 4 = 0, Holds(args, p, StringWords(s)),
         NEW end \in Nat
  PROVE  /\ Reader!StringLength(p, end) = IF p + SizeString(s) <= end THEN SizeString(s) ELSE Null
         /\ Reader!Words(p, SizeString(s)) = StringWords(s)
<1> PICK n : n = SizeString(s) \div 4
  OBVIOUS
<1>1. /\ n \in Nat /\ n >= 1 /\ SizeString(s) = 4 * n
      /\ Len(StringWords(s)) = n
      /\ StringWords(s) \in Seq(TextWords)
  <2>1. /\ SizeString(s) \in Nat /\ SizeString(s) % 4 = 0 /\ SizeString(s) >= 4
        /\ StringWords(s) \in Seq(TextWords)
        /\ 4 * Len(StringWords(s)) = SizeString(s)
    BY StringRow
  <2>2. n \in Nat /\ SizeString(s) = 4 * n
    BY <2>1, WordOf
  <2>3. Len(StringWords(s)) \in Nat
    BY <2>1
  <2> QED
    BY <2>1, <2>2, <2>3
<1>2. \A j \in 1 .. n : args.data[p \div 4 + j - 1] = <<"string", s, j>>
  <2> TAKE j \in 1 .. n
  <2>1. args.data[p \div 4 + j - 1] = StringWords(s)[j]
    BY <1>1 DEF Holds
  <2> QED
    BY <2>1 DEF StringWords
<1>3. \A j \in 1 .. n : Reader!EndsString(<<"string", s, j>>) <=> j = n
  <2> TAKE j \in 1 .. n
  <2> PICK w : w = <<"string", s, j>>
    OBVIOUS
  <2>1. w[1] = "string" /\ w[2] = s /\ w[3] = j
    OBVIOUS
  <2>2. BundleWords[2][1] = "#bundle" /\ TimeWords[1][1] = "time"
    BY DEF BundleWords, TimeWords
  <2>3. w[1] # "chars" /\ w # BundleWords[2] /\ w # TimeWords[1]
    BY <2>1, <2>2
  <2>4. Reader!EndsString(w) <=> w[3] = SizeString(w[2]) \div 4
    BY <2>1, <2>3, SameSizes DEF Reader!EndsString
  <2> QED
    BY <2>1, <2>4
<1>4. Reader!StringLength(p, end) = IF p + 4 * n <= end THEN 4 * n ELSE Null
  <2>1. n \in 1 .. n /\ n - 1 \in Int /\ \A j \in 1 .. n - 1 : j \in 1 .. n /\ j # n
    BY <1>1
  <2>2. Reader!EndsString(args.data[p \div 4 + n - 1])
    BY <1>2, <1>3, <2>1
  <2>3. \A j \in 1 .. n - 1 : ~Reader!EndsString(args.data[p \div 4 + j - 1])
    BY <1>2, <1>3, <2>1
  <2> QED
    BY <1>1, <2>2, <2>3, StringLengthIs
<1>5. Reader!Words(p, 4 * n) = StringWords(s)
  BY <1>1, WordsHeld
<1> QED
  BY <1>1, <1>4, <1>5

LEMMA HeaderRead ==
  ASSUME Delivered, NEW b \in closed, b.kind = "bundle"
  PROVE  /\ Reader!Words(b.first, 8) = BundleWords
         /\ Reader!Words(b.first + 8, 8) = TimeWords
         /\ \A last \in Nat :
              Reader!StringLength(b.first, last) = IF b.first + 8 <= last THEN 8 ELSE Null
         /\ ~Reader!IsChars(b.first + 8)
<1> PICK p : p = b.first
  OBVIOUS
<1>1. p \in Nat /\ p % 4 = 0
  BY ElementsPlaced DEF ElementAt
<1>2. /\ BundleWords \in Seq({"#bundle"} \X Int) /\ Len(BundleWords) = 2
      /\ TimeWords \in Seq({"time"} \X Int) /\ Len(TimeWords) = 2
  BY FixedRows
<1>3. HasHeader(args, p)
  BY DEF Delivered, Tiles, ClosedTiles
<1>4. p + 8 \in Nat /\ (p + 8) % 4 = 0 /\ (p + 8) \div 4 = p \div 4 + 2
  BY <1>1
<1>5. /\ args.data[p \div 4] = BundleWords[1] /\ args.data[p \div 4 + 1] = BundleWords[2]
      /\ args.data[p \div 4 + 2] = TimeWords[1] /\ args.data[p \div 4 + 3] = TimeWords[2]
  <2>1. p \div 4 \in Int
    BY <1>1
  <2>2. /\ p \div 4 + 1 - 1 = p \div 4 /\ p \div 4 + 2 - 1 = p \div 4 + 1
        /\ p \div 4 + 1 + 1 = p \div 4 + 2 /\ p \div 4 + 2 + 1 = p \div 4 + 3
    BY <2>1
  <2> QED
    BY <1>3, <2>2 DEF HasHeader
<1>6. Holds(args, p, BundleWords) /\ Holds(args, p + 8, TimeWords)
  <2>1. p \div 4 \in Int
    BY <1>1
  <2>2. \A k \in 1 .. 2 : k = 1 \/ k = 2
    OBVIOUS
  <2> PICK q : q = p \div 4
    OBVIOUS
  <2>3. /\ q \in Int /\ (p + 8) \div 4 = q + 2
        /\ q + 1 - 1 = q /\ q + 2 - 1 = q + 1 /\ q + 2 + 1 - 1 = q + 2 /\ q + 2 + 2 - 1 = q + 3
    BY <1>4, <2>1
  <2>4. \A k \in 1 .. 2 : args.data[q + k - 1] = BundleWords[k]
    BY <1>5, <2>2, <2>3
  <2>5. \A k \in 1 .. 2 : args.data[q + 2 + k - 1] = TimeWords[k]
    BY <1>5, <2>2, <2>3
  <2>6. Holds(args, p, BundleWords)
    BY <1>2, <2>4 DEF Holds
  <2>7. Holds(args, p + 8, TimeWords)
    BY <1>2, <2>3, <2>5 DEF Holds
  <2> QED
    BY <2>6, <2>7
<1>7. Reader!Words(p, 8) = BundleWords /\ Reader!Words(p + 8, 8) = TimeWords
  <2>1. Reader!Words(p, 4 * Len(BundleWords)) = BundleWords
    BY <1>1, <1>2, <1>6, WordsHeld
  <2>2. Reader!Words(p + 8, 4 * Len(TimeWords)) = TimeWords
    BY <1>2, <1>4, <1>6, WordsHeld
  <2>3. 4 * Len(BundleWords) = 8 /\ 4 * Len(TimeWords) = 8
    BY <1>2
  <2> QED
    BY <2>1, <2>2, <2>3
<1>8. /\ BundleWords[1][1] = "#bundle" /\ BundleWords[2][1] = "#bundle"
      /\ BundleWords[1][2] = 1 /\ BundleWords[2][2] = 2
      /\ TimeWords[1][1] = "time"
  BY DEF BundleWords, TimeWords
<1>9. Reader!EndsString(BundleWords[2]) /\ ~Reader!EndsString(BundleWords[1])
  <2>1. BundleWords[1] # BundleWords[2] /\ BundleWords[1] # TimeWords[1]
    BY <1>8
  <2> QED
    BY <1>8, <2>1, SameSizes DEF Reader!EndsString
<1>10. ASSUME NEW last \in Nat
       PROVE  Reader!StringLength(p, last) = IF p + 8 <= last THEN 8 ELSE Null
  <2> PICK n \in Nat : n = 2
    OBVIOUS
  <2>1. /\ p \div 4 + n - 1 = p \div 4 + 1
        /\ \A j \in 1 .. n - 1 : p \div 4 + j - 1 = p \div 4
    BY <1>1
  <2>2. Reader!EndsString(args.data[p \div 4 + n - 1])
    BY <1>5, <1>9, <2>1
  <2>3. \A j \in 1 .. n - 1 : ~Reader!EndsString(args.data[p \div 4 + j - 1])
    BY <1>5, <1>9, <2>1
  <2>4. n >= 1 /\ 4 * n = 8
    OBVIOUS
  <2>5. Reader!StringLength(p, last) = IF p + 4 * n <= last THEN 4 * n ELSE Null
    BY <1>1, <2>2, <2>3, <2>4, StringLengthIs
  <2> QED
    BY <2>4, <2>5
<1>11. ~Reader!IsChars(p + 8)
  BY <1>4, <1>5, <1>8 DEF Reader!IsChars, Reader!Word
<1> QED
  BY <1>7, <1>10, <1>11

(***************************************************************************)
(* A message: its address is a string, so is the row of its tags, and the  *)
(* characters of that are a comma, the tags and zeros.                     *)
(***************************************************************************)
LEMMA MessageHeld ==
  ASSUME Delivered, NEW m \in closed, m.kind = "message"
  PROVE  /\ IsMessage(m) /\ MessageSizes(m) /\ HoldsMessage(args, m, m.last)
         /\ WellFormed(m) /\ Len(m.put) = m.numTags
         /\ \A k \in 1 .. m.numTags : m.put[k] \in Args /\ m.put[k].tag \in ArgTags
<1>1. IsMessage(m) /\ HoldsMessage(args, m, m.last)
  BY DEF Delivered, Content, ClosedContent
<1>2. WellFormed(m)
  BY DEF Delivered, Complete
<1>3. m.put \in Seq(Args) /\ Len(m.put) = m.numTags
  BY <1>1, <1>2 DEF IsMessage, WellFormed
<1>4. \A arg \in Args : arg.tag \in ArgTags
  BY CallerAssumption
<1> QED
  BY <1>1, <1>2, <1>3, <1>4, MessageSized

LEMMA CharsAre ==
  ASSUME Delivered, NEW m \in closed, m.kind = "message",
         NEW n \in Nat, n < Align(m.numTags + 2)
  PROVE  /\ Reader!CharAt(TagsStart(m) + n) = TagAt(m, n + 1)
         /\ Reader!IsChars(TagsStart(m) + n)
<1>1. /\ MessageSizes(m) /\ HoldsTags(args, m) /\ m.numTags \in Nat
  BY MessageHeld DEF HoldsMessage, IsMessage
<1> PICK p : p = TagsStart(m)
  OBVIOUS
<1> PICK size : size = Align(m.numTags + 2)
  OBVIOUS
<1>2. /\ p \in Nat /\ p % 4 = 0 /\ p = 4 * (p \div 4) /\ p \div 4 \in Nat
      /\ size \in Nat /\ size = 4 * (size \div 4) /\ size \div 4 \in Nat
  BY <1>1, WordOf DEF MessageSizes
<1>3. n \div 4 \in Nat /\ n % 4 \in 0 .. 3 /\ n = 4 * (n \div 4) + (n % 4)
  BY WordAndByte
<1> PICK w : w = n \div 4 + 1
  OBVIOUS
<1>4. /\ (p + n) \div 4 = p \div 4 + w - 1 /\ (p + n) % 4 = n % 4
      /\ w \in Nat /\ w >= 1 /\ w <= size \div 4
      /\ 4 * (w - 1) + (n % 4) + 1 = n + 1
  BY <1>2, <1>3
<1>5. args.data[p \div 4 + w - 1] = TagWords(m)[w]
  BY <1>1, <1>2, <1>4 DEF HoldsTags, TagRow
<1>6. /\ TagWords(m)[w][1] = "chars"
      /\ \A k \in 1 .. 4 : TagWords(m)[w][k + 1] = TagAt(m, 4 * (w - 1) + k)
  BY <1>4, TagWordIs
<1>7. (n % 4) + 1 \in 1 .. 4 /\ (n % 4) + 1 + 1 = 2 + (n % 4) /\ 4 * (w - 1) + ((n % 4) + 1) = n + 1
  BY <1>3, <1>4
<1>8. TagWords(m)[w][2 + (n % 4)] = TagAt(m, n + 1)
  BY <1>6, <1>7
<1> QED
  BY <1>4, <1>5, <1>6, <1>8 DEF Reader!CharAt, Reader!IsChars, Reader!Word

LEMMA TagsAre ==
  ASSUME Delivered, NEW m \in closed, m.kind = "message"
  PROVE  /\ TagAt(m, 1) = ","
         /\ \A k \in 1 .. m.numTags : TagAt(m, k + 1) = m.put[k].tag /\ TagAt(m, k + 1) # NUL
         /\ \A k \in Nat : k > m.numTags + 1 => TagAt(m, k) = NUL
<1>1. Len(m.put) = m.numTags /\ m.numTags \in Nat
  BY MessageHeld DEF IsMessage
<1>2. \A k \in 1 .. m.numTags : TagAt(m, k + 1) = m.put[k].tag
  <2> TAKE k \in 1 .. m.numTags
  <2>1. k + 1 # 1 /\ k + 1 - 1 = k /\ k <= Len(m.put)
    BY <1>1
  <2> QED
    BY <2>1 DEF TagAt
<1>3. \A c \in ArgTags : c # NUL
  BY DEF ArgTags, NUL
<1>4. \A k \in 1 .. m.numTags : m.put[k].tag \in ArgTags
  BY MessageHeld
<1>5. \A k \in Nat : k > m.numTags + 1 => TagAt(m, k) = NUL
  <2> TAKE k \in Nat
  <2> HAVE k > m.numTags + 1
  <2>1. k # 1 /\ ~(k - 1 <= Len(m.put))
    BY <1>1
  <2> QED
    BY <2>1 DEF TagAt
<1>6. TagAt(m, 1) = ","
  BY DEF TagAt
<1> QED
  BY <1>2, <1>3, <1>4, <1>5, <1>6

LEMMA MessageRead ==
  ASSUME Delivered, NEW m \in closed, m.kind = "message", NEW last \in Nat
  PROVE  /\ Reader!Words(m.first, 8) # BundleWords
         /\ Reader!StringLength(m.first, last)
              = IF TagsStart(m) <= last THEN SizeString(m.addr) ELSE Null
         /\ Reader!Words(m.first, SizeString(m.addr)) = StringWords(m.addr)
         /\ Reader!StringLength(TagsStart(m), last)
              = IF ArgsStart(m) <= last THEN Align(m.numTags + 2) ELSE Null
         /\ Reader!IsChars(TagsStart(m)) /\ Reader!CharAt(TagsStart(m)) = ","
         /\ Reader!Min({n \in 0 .. (Align(m.numTags + 2) - 1) :
                          Reader!CharAt(TagsStart(m) + n) = NUL}) = m.numTags + 1
<1>1. /\ IsMessage(m) /\ MessageSizes(m) /\ HoldsMessage(args, m, m.last)
      /\ m.addr \in Strings /\ m.first \in Nat /\ m.first % 4 = 0 /\ m.numTags \in Nat
  BY MessageHeld, CallerAssumption DEF IsMessage
<1>2. Holds(args, m.first, StringWords(m.addr))
  BY <1>1 DEF HoldsMessage
<1>3. /\ Reader!StringLength(m.first, last)
           = IF m.first + SizeString(m.addr) <= last THEN SizeString(m.addr) ELSE Null
      /\ Reader!Words(m.first, SizeString(m.addr)) = StringWords(m.addr)
  BY <1>1, <1>2, StringEnds
<1>4. Reader!Words(m.first, 8) # BundleWords
  <2>1. 1 \in 1 .. Len(StringWords(m.addr))
    BY <1>1 DEF MessageSizes
  <2>2. args.data[m.first \div 4] = StringWords(m.addr)[1]
    <3>1. m.first \div 4 + 1 - 1 = m.first \div 4
      BY <1>1
    <3> QED
      BY <1>2, <2>1, <3>1 DEF Holds
  <2>3. StringWords(m.addr)[1] = <<"string", m.addr, 1>>
    <3>1. SizeString(m.addr) \div 4 = Len(StringWords(m.addr))
      BY <1>1 DEF MessageSizes
    <3> QED
      BY <2>1, <3>1 DEF StringWords
  <2>4. Reader!Words(m.first, 8)[1] = args.data[m.first \div 4]
    <3>1. 8 \div 4 = 2 /\ m.first + 4 * (1 - 1) = m.first /\ 1 \in 1 .. 2
      BY <1>1
    <3> QED
      BY <3>1 DEF Reader!Words, Reader!Word
  <2>5. BundleWords[1][1] = "#bundle" /\ <<"string", m.addr, 1>>[1] = "string"
    BY DEF BundleWords
  <2> QED
    BY <2>2, <2>3, <2>4, <2>5
<1> PICK p : p = TagsStart(m)
  OBVIOUS
<1> PICK size : size = Align(m.numTags + 2)
  OBVIOUS
<1>5. /\ p \in Nat /\ p % 4 = 0 /\ p = m.first + SizeString(m.addr)
      /\ size \in Nat /\ size >= m.numTags + 2 /\ size = 4 * (size \div 4) /\ size \div 4 \in Nat
      /\ size < m.numTags + 6 /\ 0 < size /\ size \div 4 >= 1
      /\ ArgsStart(m) = p + size
  <2>1. /\ p \in Nat /\ p % 4 = 0
        /\ size \in Nat /\ size >= m.numTags + 2 /\ size = 4 * (size \div 4)
        /\ size \div 4 \in Nat
    BY <1>1 DEF MessageSizes
  <2>2. p = m.first + SizeString(m.addr) /\ ArgsStart(m) = p + size
    BY DEF TagsStart, ArgsStart
  <2>3. m.numTags + 2 \in Nat
    BY <1>1
  <2>4. size < m.numTags + 2 + 4
    BY <2>3, AlignProperties
  <2>5. size < m.numTags + 6
    BY <1>1, <2>1, <2>4
  <2>6. \A a, b \in Nat : a >= b + 2 /\ a = 4 * (a \div 4) => 0 < a /\ a \div 4 >= 1
    OBVIOUS
  <2>7. 0 < size /\ size \div 4 >= 1
    BY <1>1, <2>1, <2>6
  <2> QED
    BY <2>1, <2>2, <2>5, <2>7
<1>6. Reader!IsChars(p) /\ Reader!CharAt(p) = ","
  <2>1. 0 \in Nat /\ 0 < size /\ p + 0 = p /\ 0 + 1 = 1
    BY <1>5
  <2>2. Reader!CharAt(p + 0) = TagAt(m, 0 + 1) /\ Reader!IsChars(p + 0)
    BY <2>1, CharsAre
  <2> QED
    BY <2>1, <2>2, TagsAre
<1>7. \A n \in 0 .. (size - 1) : Reader!CharAt(p + n) = NUL <=> n > m.numTags
  <2> TAKE n \in 0 .. (size - 1)
  <2>1. Reader!CharAt(p + n) = TagAt(m, n + 1)
    <3>1. n \in Nat /\ n < size
      BY <1>5
    <3> QED
      BY <3>1, CharsAre
  <2>2. CASE n = 0
    <3>1. n + 1 = 1 /\ ~(n > m.numTags)
      BY <1>1, <2>2
    <3>2. TagAt(m, n + 1) = ","
      BY <3>1, TagsAre
    <3>3. Reader!CharAt(p + n) # NUL
      BY <2>1, <3>2 DEF NUL
    <3> QED
      BY <3>1, <3>3
  <2>3. CASE n \in 1 .. m.numTags
    <3>1. TagAt(m, n + 1) # NUL
      BY <2>3, TagsAre
    <3> QED
      BY <1>1, <2>1, <2>3, <3>1
  <2>4. CASE n > m.numTags
    <3>1. n + 1 \in Nat /\ n + 1 > m.numTags + 1
      BY <1>1, <1>5, <2>4
    <3> QED
      BY <2>1, <2>4, <3>1, TagsAre
  <2> QED
    BY <1>1, <1>5, <2>2, <2>3, <2>4
<1>8. Reader!Min({n \in 0 .. (size - 1) : Reader!CharAt(p + n) = NUL}) = m.numTags + 1
  <2> PICK L : L = {n \in 0 .. (size - 1) : Reader!CharAt(p + n) = NUL}
    OBVIOUS
  <2>1. L = {n \in 0 .. (size - 1) : n > m.numTags}
    BY <1>7
  <2>2. m.numTags + 1 \in L /\ \A y \in L : m.numTags + 1 <= y
    BY <1>1, <1>5, <2>1
  <2>3. \A x \in L : (\A y \in L : x <= y) => x = m.numTags + 1
    BY <1>1, <2>1, <2>2
  <2>4. Reader!Min(L) = m.numTags + 1
    BY <2>2, <2>3 DEF Reader!Min
  <2> QED
    BY <2>4
<1>9. Reader!StringLength(p, last) = IF p + size <= last THEN size ELSE Null
  <2> PICK n : n = size \div 4
    OBVIOUS
  <2>1. n \in Nat /\ size = 4 * n
    BY <1>5
  <2>7. n >= 1
    BY <1>5
  <2>2. \A w \in 1 .. n : Reader!EndsString(args.data[p \div 4 + w - 1]) <=> w = n
    <3> TAKE w \in 1 .. n
    <3>1. args.data[p \div 4 + w - 1] = TagWords(m)[w]
      <4>1. w \in TagRow(m)
        BY <2>1 DEF TagRow
      <4> QED
        BY <1>1, <4>1 DEF HoldsMessage, HoldsTags
    <3>2. /\ TagWords(m)[w][1] = "chars"
          /\ TagWords(m)[w][4 + 1] = TagAt(m, 4 * (w - 1) + 4)
      <4>1. w \in Nat /\ w >= 1 /\ w <= Align(m.numTags + 2) \div 4
        BY <2>1
      <4>2. 4 \in 1 .. 4
        OBVIOUS
      <4>3. \A k \in 1 .. 4 : TagWords(m)[w][k + 1] = TagAt(m, 4 * (w - 1) + k)
        BY ONLY <4>1, TagWordIs
      <4>4. TagWords(m)[w][1] = "chars"
        BY ONLY <4>1, TagWordIs
      <4> QED
        BY <4>2, <4>3, <4>4
    <3>3. 4 * (w - 1) + 4 = 4 * w
      BY <2>1
    <3>4. TagWords(m)[w][5] = TagAt(m, 4 * w)
      BY <3>2, <3>3
    <3>5. TagAt(m, 4 * w) = NUL <=> w = n
      <4>1. CASE w = n
        <5>1. 4 * w \in Nat /\ 4 * w > m.numTags + 1
          BY <1>1, <1>5, <2>1, <4>1
        <5> QED
          BY <4>1, <5>1, TagsAre
      <4>2. CASE w # n
        <5>1. 4 * w - 1 \in 1 .. m.numTags /\ 4 * w - 1 + 1 = 4 * w
          BY <1>1, <1>5, <2>1, <4>2
        <5>2. TagAt(m, 4 * w - 1 + 1) # NUL
          BY <5>1, TagsAre
        <5> QED
          BY <4>2, <5>1, <5>2
      <4> QED
        BY <4>1, <4>2
    <3>6. BundleWords[2][1] = "#bundle" /\ TimeWords[1][1] = "time"
      BY DEF BundleWords, TimeWords
    <3>7. TagWords(m)[w] # BundleWords[2] /\ TagWords(m)[w] # TimeWords[1]
      BY <3>2, <3>6
    <3>8. Reader!EndsString(TagWords(m)[w]) <=> TagWords(m)[w][5] = NUL
      BY <3>2, <3>7, SameSizes DEF Reader!EndsString
    <3> QED
      BY <3>1, <3>4, <3>5, <3>8
  <2>3. n \in 1 .. n /\ \A j \in 1 .. n - 1 : j \in 1 .. n /\ j # n
    BY <2>1, <2>7
  <2>4. Reader!EndsString(args.data[p \div 4 + n - 1])
    BY <2>2, <2>3
  <2>5. \A j \in 1 .. n - 1 : ~Reader!EndsString(args.data[p \div 4 + j - 1])
    BY <2>2, <2>3
  <2>6. Reader!StringLength(p, last) = IF p + 4 * n <= last THEN 4 * n ELSE Null
    BY <1>5, <2>1, <2>4, <2>5, <2>7, StringLengthIs
  <2> QED
    BY <2>1, <2>6
<1> QED
  BY <1>3, <1>4, <1>5, <1>6, <1>8, <1>9

-----------------------------------------------------------------------------
(***************************************************************************)
(* The arguments of a message: where each of them begins, and that its     *)
(* words are there.                                                        *)
(***************************************************************************)
Upto(m, k) == [put |-> SubSeq(m.put, 1, k)]
ArgPos(m, k) == ArgsStart(m) + 4 * Len(ArgWords(Upto(m, k)))
ArgOf(m, k) == m.put[k].head \o m.put[k].data

LEMMA UptoTyped ==
  ASSUME NEW m, m.put \in Seq(Args), NEW k \in 0 .. Len(m.put)
  PROVE  /\ Upto(m, k).put \in Seq(Args) /\ Len(Upto(m, k).put) = k
         /\ ArgWords(Upto(m, k)) \in Seq(AnyArgWord) /\ Len(ArgWords(Upto(m, k))) \in Nat
<1>1. SubSeq(m.put, 1, k) \in Seq(Args) /\ Len(SubSeq(m.put, 1, k)) = k
  OBVIOUS
<1>2. Upto(m, k).put = SubSeq(m.put, 1, k)
  BY DEF Upto
<1> QED
  BY <1>1, <1>2, ArgWordsTyped

LEMMA UptoNext ==
  ASSUME NEW m, m.put \in Seq(Args), NEW k \in 1 .. Len(m.put)
  PROVE  /\ k - 1 \in 0 .. Len(m.put)
         /\ ArgOf(m, k) \in Seq(AnyArgWord)
         /\ Len(ArgOf(m, k)) \in Nat
         /\ Len(ArgOf(m, k)) = Len(m.put[k].head) + Len(m.put[k].data)
         /\ ArgWords(Upto(m, k)) = ArgWords(Upto(m, k - 1)) \o ArgOf(m, k)
<1>1. k - 1 \in 0 .. Len(m.put) /\ m.put[k] \in Args
  OBVIOUS
<1>2. m.put[k].head \in Seq(NumberWords) /\ m.put[k].data \in Seq(TextWords)
  BY <1>1, ArgParts
<1>3. m.put[k].head \in Seq(AnyArgWord) /\ m.put[k].data \in Seq(AnyArgWord)
  BY <1>2 DEF AnyArgWord
<1>4. /\ ArgOf(m, k) \in Seq(AnyArgWord)
      /\ Len(ArgOf(m, k)) \in Nat
      /\ Len(ArgOf(m, k)) = Len(m.put[k].head) + Len(m.put[k].data)
  <2>1. ArgOf(m, k) \in Seq(AnyArgWord)
    BY <1>3 DEF ArgOf
  <2>2. Len(ArgOf(m, k)) = Len(m.put[k].head) + Len(m.put[k].data)
    BY <1>3 DEF ArgOf
  <2>3. Len(ArgOf(m, k)) \in Nat
    BY <2>1
  <2> QED
    BY <2>1, <2>2, <2>3
<1>5. SubSeq(m.put, 1, k) = Append(SubSeq(m.put, 1, k - 1), m.put[k])
  <2> DEFINE s == SubSeq(m.put, 1, k - 1)
             t == SubSeq(m.put, 1, k)
  <2>1. s \in Seq(Args) /\ Len(s) = k - 1 /\ \A i \in 1 .. k - 1 : s[i] = m.put[i]
    OBVIOUS
  <2>2. t \in Seq(Args) /\ Len(t) = k /\ \A i \in 1 .. k : t[i] = m.put[i]
    OBVIOUS
  <2> HIDE DEF s, t
  <2>3. k - 1 \in Nat
    BY <1>1
  <2>4. /\ Append(s, m.put[k]) \in Seq(Args)
        /\ Len(Append(s, m.put[k])) = k - 1 + 1
        /\ \A i \in 1 .. k - 1 : Append(s, m.put[k])[i] = s[i]
        /\ Append(s, m.put[k])[k - 1 + 1] = m.put[k]
    BY <1>1, <2>1, <2>3, AppendIndex
  <2>5. k - 1 + 1 = k /\ \A i \in 1 .. k : i \in 1 .. k - 1 \/ i = k
    OBVIOUS
  <2>6. \A i \in 1 .. k : t[i] = Append(s, m.put[k])[i]
    BY <2>1, <2>2, <2>4, <2>5
  <2> PICK u : u = Append(s, m.put[k])
    OBVIOUS
  <2>7. u \in Seq(Args) /\ Len(u) = k /\ \A i \in 1 .. k : t[i] = u[i]
    BY <2>4, <2>5, <2>6
  <2>8. t = u
    BY <2>2, <2>7
  <2> QED
    BY <2>8 DEF s, t
<1>6. Upto(m, k).put = Append(Upto(m, k - 1).put, m.put[k])
  BY <1>5 DEF Upto
<1>7. Upto(m, k - 1).put \in Seq(Args)
  BY <1>1, UptoTyped
<1>8. ArgWords(Upto(m, k)) = ArgWords(Upto(m, k - 1)) \o (m.put[k].head \o m.put[k].data)
  BY <1>1, <1>6, <1>7, ArgWordsAppend
<1> QED
  BY <1>1, <1>4, <1>8 DEF ArgOf

LEMMA UptoAll ==
  ASSUME NEW m, m.put \in Seq(Args)
  PROVE  /\ ArgWords(Upto(m, 0)) = << >>
         /\ ArgWords(Upto(m, Len(m.put))) = ArgWords(m)
<1>1. Upto(m, 0).put = << >>
  BY DEF Upto
<1>2. Upto(m, Len(m.put)).put = m.put
  BY DEF Upto
<1>3. ArgWords(Upto(m, Len(m.put))) = ArgWords(m)
  BY <1>2 DEF ArgWords
<1> QED
  BY <1>1, <1>3, NoArgWords

(* The words of one argument stay where they are when more are put.        *)
LEMMA ArgStands ==
  ASSUME NEW m, m.put \in Seq(Args), NEW k \in 1 .. Len(m.put)
  PROVE  StandsAt(ArgOf(m, k), ArgWords(m), Len(ArgWords(Upto(m, k - 1))))
<1> DEFINE at == Len(ArgWords(Upto(m, k - 1)))
           Stands(i) == k + i <= Len(m.put) => StandsAt(ArgOf(m, k), ArgWords(Upto(m, k + i)), at)
           S == {i \in Nat : Stands(i)}
<1>1. at \in Nat /\ ArgOf(m, k) \in Seq(AnyArgWord) /\ k - 1 \in 0 .. Len(m.put)
  BY UptoNext, UptoTyped
<1>2. 0 \in S
  <2>1. ArgWords(Upto(m, k)) = ArgWords(Upto(m, k - 1)) \o ArgOf(m, k)
    BY UptoNext
  <2>2. ArgWords(Upto(m, k - 1)) \in Seq(AnyArgWord)
    BY <1>1, UptoTyped
  <2>3. StandsAt(ArgOf(m, k), ArgWords(Upto(m, k - 1)) \o ArgOf(m, k), at)
    BY <1>1, <2>2, Concatenated
  <2>4. k + 0 = k
    OBVIOUS
  <2> QED
    BY <2>1, <2>3, <2>4
<1>3. \A i \in Nat : i \in S => i + 1 \in S
  <2> SUFFICES ASSUME NEW i \in Nat, i \in S, k + (i + 1) <= Len(m.put)
               PROVE  StandsAt(ArgOf(m, k), ArgWords(Upto(m, k + (i + 1))), at)
    OBVIOUS
  <2> PICK j : j = k + (i + 1)
    OBVIOUS
  <2>1. j \in 1 .. Len(m.put) /\ k + i = j - 1 /\ k + i <= Len(m.put)
    OBVIOUS
  <2>2. StandsAt(ArgOf(m, k), ArgWords(Upto(m, j - 1)), at)
    BY <2>1
  <2>3. /\ ArgWords(Upto(m, j)) = ArgWords(Upto(m, j - 1)) \o ArgOf(m, j)
        /\ ArgOf(m, j) \in Seq(AnyArgWord) /\ j - 1 \in 0 .. Len(m.put)
    BY <2>1, UptoNext
  <2>4. ArgWords(Upto(m, j - 1)) \in Seq(AnyArgWord)
    BY <2>3, UptoTyped
  <2> HIDE DEF at
  <2>5. StandsAt(ArgOf(m, k), ArgWords(Upto(m, j - 1)) \o ArgOf(m, j), at)
    BY <1>1, <2>2, <2>3, <2>4, Concatenated
  <2> QED
    BY <2>3, <2>5
<1> HIDE DEF S
<1>4. Nat \subseteq S
  BY <1>2, <1>3, AllNumbers
<1> USE DEF S
<1>5. Len(m.put) - k \in Nat /\ k + (Len(m.put) - k) = Len(m.put)
  OBVIOUS
<1>6. Stands(Len(m.put) - k)
  BY <1>4, <1>5
<1>7. StandsAt(ArgOf(m, k), ArgWords(Upto(m, Len(m.put))), at)
  BY <1>5, <1>6
<1> QED
  BY <1>7, UptoAll

LEMMA WordsFrom ==
  ASSUME NEW s \in Nat, s % 4 = 0, NEW a \in Nat, NEW b \in Nat
  PROVE  /\ s + 4 * a \in Nat /\ (s + 4 * a) % 4 = 0
         /\ (s + 4 * a) \div 4 = s \div 4 + a
         /\ s + 4 * (a + b) = s + 4 * a + 4 * b
OBVIOUS

LEMMA ArgPlaced ==
  ASSUME Delivered, NEW m \in closed, m.kind = "message", NEW k \in 1 .. m.numTags
  PROVE  /\ ArgOf(m, k) \in Seq(AnyArgWord) /\ Len(ArgOf(m, k)) \in Nat
         /\ Len(ArgOf(m, k)) = Len(m.put[k].head) + Len(m.put[k].data)
         /\ ArgPos(m, k - 1) \in Nat /\ ArgPos(m, k - 1) % 4 = 0
         /\ ArgPos(m, k) = ArgPos(m, k - 1) + 4 * Len(ArgOf(m, k))
         /\ Holds(args, ArgPos(m, k - 1), ArgOf(m, k))
<1>1. /\ m.put \in Seq(Args) /\ Len(m.put) = m.numTags /\ MessageSizes(m)
      /\ HoldsMessage(args, m, m.last)
  BY MessageHeld DEF IsMessage
<1>2. k \in 1 .. Len(m.put)
  BY <1>1
<1>3. /\ k - 1 \in 0 .. Len(m.put) /\ ArgOf(m, k) \in Seq(AnyArgWord)
      /\ Len(ArgOf(m, k)) = Len(m.put[k].head) + Len(m.put[k].data)
      /\ ArgWords(Upto(m, k)) = ArgWords(Upto(m, k - 1)) \o ArgOf(m, k)
  BY <1>1, <1>2, UptoNext
<1> PICK at : at = Len(ArgWords(Upto(m, k - 1)))
  OBVIOUS
<1>4. ArgWords(Upto(m, k - 1)) \in Seq(AnyArgWord) /\ at \in Nat
  BY <1>1, <1>3, UptoTyped
<1> PICK n : n = Len(ArgOf(m, k))
  OBVIOUS
<1>8. n \in Nat
  BY <1>1, <1>2, UptoNext
<1>5. Len(ArgWords(Upto(m, k))) = at + n
  <2>1. Len(ArgWords(Upto(m, k - 1)) \o ArgOf(m, k)) = at + n
    BY <1>3, <1>4, Concatenated
  <2> QED
    BY <1>3, <2>1
<1> PICK start : start = ArgsStart(m)
  OBVIOUS
<1>6. start \in Nat /\ start % 4 = 0 /\ start \div 4 \in Nat /\ start = 4 * (start \div 4)
  BY <1>1, WordOf DEF MessageSizes
<1>7. ArgPos(m, k - 1) = start + 4 * at /\ ArgPos(m, k) = start + 4 * (at + n)
  BY <1>5 DEF ArgPos
<1>9. /\ start + 4 * at \in Nat /\ (start + 4 * at) % 4 = 0
      /\ (start + 4 * at) \div 4 = start \div 4 + at
      /\ start + 4 * (at + n) = start + 4 * at + 4 * n
  <2>1. start \in Nat /\ start % 4 = 0
    BY <1>6
  <2>2. at \in Nat
    BY <1>4
  <2> QED
    BY ONLY <1>8, <2>1, <2>2, WordsFrom
<1>10. StandsAt(ArgOf(m, k), ArgWords(m), at)
  BY <1>1, <1>2, ArgStands
<1>11. Holds(args, start, ArgWords(m)) /\ Len(ArgWords(m)) \in Nat
  BY <1>1 DEF HoldsMessage, MessageSizes
<1>12. ASSUME NEW i \in 1 .. Len(ArgOf(m, k))
       PROVE  args.data[start \div 4 + at + i - 1] = ArgOf(m, k)[i]
  <2>1. ArgWords(m)[at + i] = ArgOf(m, k)[i] /\ at + Len(ArgOf(m, k)) <= Len(ArgWords(m))
    BY <1>10 DEF StandsAt
  <2>2. at + i \in 1 .. Len(ArgWords(m))
    BY <1>4, <1>8, <1>11, <2>1
  <2>3. args.data[start \div 4 + (at + i) - 1] = ArgWords(m)[at + i]
    BY <1>11, <2>2 DEF Holds
  <2>4. start \div 4 + (at + i) - 1 = start \div 4 + at + i - 1
    <3>1. \A x, y, z \in Int : x + (y + z) - 1 = x + y + z - 1
      OBVIOUS
    <3>2. start \div 4 \in Int /\ at \in Int /\ i \in Int
      BY <1>4, <1>6
    <3> QED
      BY ONLY <3>1, <3>2, Zenon
  <2> QED
    BY <2>1, <2>3, <2>4
<1>13. Holds(args, start + 4 * at, ArgOf(m, k))
  BY <1>9, <1>12 DEF Holds
<1>14. ArgPos(m, k) = ArgPos(m, k - 1) + 4 * Len(ArgOf(m, k))
  BY <1>7, <1>9
<1> QED
  BY <1>3, <1>7, <1>8, <1>9, <1>13, <1>14

LEMMA ArgEnds ==
  ASSUME Delivered, NEW m \in closed, m.kind = "message"
  PROVE  /\ ArgPos(m, 0) = ArgsStart(m) /\ ArgPos(m, m.numTags) = m.last
         /\ \A k \in 0 .. m.numTags : ArgPos(m, k) \in Nat /\ ArgPos(m, k) % 4 = 0
<1>1. /\ m.put \in Seq(Args) /\ Len(m.put) = m.numTags /\ m.numTags \in Nat /\ MessageSizes(m)
      /\ HoldsMessage(args, m, m.last)
  BY MessageHeld DEF IsMessage
<1>2. ArgPos(m, m.numTags) = m.last
  BY <1>1, UptoAll DEF ArgPos, HoldsMessage
<1>3. ArgPos(m, 0) = ArgsStart(m)
  <2>1. Len(<< >>) = 0 /\ ArgsStart(m) \in Nat
    BY <1>1 DEF MessageSizes
  <2>2. ArgWords(Upto(m, 0)) = << >>
    BY <1>1, UptoAll
  <2> QED
    BY <2>1, <2>2 DEF ArgPos
<1>4. \A k \in 0 .. m.numTags : ArgPos(m, k) \in Nat /\ ArgPos(m, k) % 4 = 0
  <2> TAKE k \in 0 .. m.numTags
  <2> PICK n : n = Len(ArgWords(Upto(m, k)))
    OBVIOUS
  <2> PICK start : start = ArgsStart(m)
    OBVIOUS
  <2>1. n \in Nat
    BY <1>1, UptoTyped
  <2>2. start \in Nat /\ start % 4 = 0
    BY <1>1 DEF MessageSizes
  <2>3. start + 4 * n \in Nat /\ (start + 4 * n) % 4 = 0
    BY <2>1, <2>2
  <2> QED
    BY <2>3 DEF ArgPos
<1> QED
  BY <1>2, <1>3, <1>4

LEMMA ArgsInOrder ==
  ASSUME Delivered, NEW m \in closed, m.kind = "message",
         NEW j \in 0 .. m.numTags, NEW k \in 0 .. m.numTags, j <= k
  PROVE  ArgPos(m, j) <= ArgPos(m, k)
<1> DEFINE S == {i \in Nat : j + i <= m.numTags => ArgPos(m, j) <= ArgPos(m, j + i)}
<1>1. m.numTags \in Nat /\ \A i \in 0 .. m.numTags : ArgPos(m, i) \in Nat
  BY MessageHeld, ArgEnds DEF IsMessage
<1>2. 0 \in S
  <2>1. j + 0 = j
    OBVIOUS
  <2> QED
    BY <1>1, <2>1
<1>3. \A i \in Nat : i \in S => i + 1 \in S
  <2> SUFFICES ASSUME NEW i \in Nat, i \in S, j + (i + 1) <= m.numTags
               PROVE  ArgPos(m, j) <= ArgPos(m, j + (i + 1))
    OBVIOUS
  <2> PICK h : h = j + (i + 1)
    OBVIOUS
  <2>1. h \in 1 .. m.numTags /\ j + i = h - 1 /\ j + i <= m.numTags /\ h - 1 \in 0 .. m.numTags
    BY <1>1
  <2>2. ArgPos(m, j) <= ArgPos(m, h - 1)
    BY <2>1
  <2>3. ArgPos(m, h) = ArgPos(m, h - 1) + 4 * Len(ArgOf(m, h)) /\ Len(ArgOf(m, h)) \in Nat
    BY <2>1, ArgPlaced
  <2> QED
    BY <1>1, <2>1, <2>2, <2>3
<1> HIDE DEF S
<1>4. Nat \subseteq S
  BY <1>2, <1>3, AllNumbers
<1>5. k - j \in Nat /\ j + (k - j) = k /\ k <= m.numTags
  BY <1>1
<1>6. k - j \in S
  BY <1>4, <1>5
<1> QED
  BY <1>5, <1>6 DEF S

-----------------------------------------------------------------------------
(***************************************************************************)
(* The next argument ends where the one behind it begins, if the bytes the *)
(* reader has go as far.                                                   *)
(***************************************************************************)
LEMMA FirstOfTwo ==
  ASSUME NEW S, NEW s \in Seq(S), NEW t \in Seq(S), Len(s) = 1
  PROVE  (s \o t)[1] = s[1]
<1>1. Len(s \o t) = Len(s) + Len(t)
      /\ \A i \in 1 .. Len(s) + Len(t) : (s \o t)[i] = IF i <= Len(s) THEN s[i] ELSE t[i - Len(s)]
  BY ConcatProperties
<1>2. 1 \in 1 .. Len(s) + Len(t)
  OBVIOUS
<1> QED
  BY <1>1, <1>2

LEMMA ArgSizes ==
  ASSUME Delivered, NEW m \in closed, m.kind = "message", NEW k \in 1 .. m.numTags,
         NEW tag, tag = m.put[k].tag
  PROVE  /\ tag \in {"i", "f"} => Len(ArgOf(m, k)) = 1
         /\ tag = "s" => \E s \in Strings : ArgOf(m, k) = StringWords(s)
         /\ tag = "b" => /\ ArgOf(m, k)[1][2] \in Nat
                         /\ 4 * Len(ArgOf(m, k)) = 4 + Align(ArgOf(m, k)[1][2])
                         /\ 1 <= Len(ArgOf(m, k))
         /\ tag \in {"[", "]"} => ArgOf(m, k) = << >> /\ Len(ArgOf(m, k)) = 0
<1> PICK arg : arg = m.put[k]
  OBVIOUS
<1>1. arg \in Args /\ arg.head \in Seq(NumberWords) /\ arg.data \in Seq(TextWords)
  BY MessageHeld, ArgParts
<1>2. /\ ArgOf(m, k) = arg.head \o arg.data
      /\ Len(ArgOf(m, k)) = Len(arg.head) + Len(arg.data)
  BY ArgPlaced DEF ArgOf
<1>3. /\ tag \in {"i", "f"} => Len(arg.head) = 1 /\ arg.data = << >>
      /\ tag = "s" => arg.head = << >> /\ \E s \in Strings : arg.data = StringWords(s)
      /\ tag = "b" => /\ Len(arg.head) = 1
                      /\ arg.head[1][2] \in Nat
                      /\ 4 * Len(arg.data) = Align(arg.head[1][2])
      /\ tag \in {"[", "]"} => arg.head = << >> /\ arg.data = << >>
  BY <1>1, ArgsAssumption
<1>4. Len(<< >>) = 0
  OBVIOUS
<1>5. CASE tag \in {"i", "f"}
  <2>1. Len(arg.head) = 1 /\ Len(arg.data) = 0
    BY <1>3, <1>4, <1>5
  <2>2. Len(ArgOf(m, k)) = 1
    BY <1>2, <2>1
  <2> QED
    BY <1>5, <2>2
<1>6. CASE tag = "s"
  <2>1. << >> \o arg.data = arg.data
    BY <1>1
  <2> QED
    BY <1>2, <1>3, <1>6, <2>1
<1>7. CASE tag = "b"
  <2>1. Len(arg.head) = 1 /\ Len(arg.data) \in Nat
    BY <1>1, <1>3, <1>7
  <2>2. (arg.head \o arg.data)[1] = arg.head[1]
    <3>1. arg.head \in Seq(AnyArgWord) /\ arg.data \in Seq(AnyArgWord)
      BY <1>1 DEF AnyArgWord
    <3> QED
      BY <2>1, <3>1, FirstOfTwo
  <2>3. arg.head[1][2] \in Nat /\ 4 * Len(arg.data) = Align(arg.head[1][2])
    BY <1>3, <1>7
  <2>4. Len(ArgOf(m, k)) = 1 + Len(arg.data)
    BY <1>2, <2>1
  <2>5. 4 * Len(ArgOf(m, k)) = 4 + 4 * Len(arg.data) /\ 1 <= Len(ArgOf(m, k))
    BY <2>1, <2>4
  <2>6. ArgOf(m, k)[1] = arg.head[1]
    BY <1>2, <2>2
  <2> QED
    BY <1>7, <2>3, <2>5, <2>6
<1>8. CASE tag \in {"[", "]"}
  <2>1. arg.head = << >> /\ arg.data = << >>
    BY <1>3, <1>8
  <2>2. ArgOf(m, k) = << >> \o << >>
    BY <1>2, <2>1
  <2>3. << >> \o << >> = << >>
    OBVIOUS
  <2>4. ArgOf(m, k) = << >> /\ Len(ArgOf(m, k)) = 0
    BY <1>4, <2>2, <2>3
  <2> QED
    BY <1>8, <2>4
<1>9. tag \in ArgTags
  BY MessageHeld
<1> QED
  BY <1>5, <1>6, <1>7, <1>8, <1>9 DEF ArgTags

LEMMA AfterAtomIs ==
  ASSUME Delivered, NEW m \in closed, m.kind = "message", NEW k \in 1 .. m.numTags,
         NEW end \in Nat, ArgPos(m, k - 1) <= end
  PROVE  Reader!AfterAtom(m.put[k].tag, ArgPos(m, k - 1), end)
           = IF ArgPos(m, k) <= end THEN ArgPos(m, k) ELSE Null
<1> PICK tag : tag = m.put[k].tag
  OBVIOUS
<1> PICK p : p = ArgPos(m, k - 1)
  OBVIOUS
<1> PICK n : n = Len(ArgOf(m, k))
  OBVIOUS
<1>1. /\ p \in Nat /\ p % 4 = 0 /\ n \in Nat
      /\ ArgPos(m, k) = p + 4 * n
      /\ Holds(args, p, ArgOf(m, k))
      /\ ArgOf(m, k) \in Seq(AnyArgWord)
  BY ArgPlaced
<1>2. tag \in ArgTags
  BY MessageHeld
<1>3. CASE tag \in {"i", "f"}
  <2>1. n = 1
    BY <1>3, ArgSizes
  <2>2. Reader!AfterAtom(tag, p, end) = IF p + 4 <= end THEN p + 4 ELSE Null
    BY <1>3 DEF Reader!AfterAtom, Reader!Readable
  <2> QED
    BY <1>1, <2>1, <2>2
<1>4. CASE tag = "s"
  <2>1. PICK s \in Strings : ArgOf(m, k) = StringWords(s)
    BY <1>4, ArgSizes
  <2>2. 4 * n = SizeString(s) /\ SizeString(s) \in Nat
    BY <2>1, StringRow
  <2>3. Reader!StringLength(p, end) = IF p + SizeString(s) <= end THEN SizeString(s) ELSE Null
    BY <1>1, <2>1, StringEnds
  <2>4. SizeString(s) # Null
    BY <2>2, CallerAssumption
  <2>5. Reader!AfterAtom(tag, p, end) = IF Reader!StringLength(p, end) = Null
                                        THEN Null ELSE p + Reader!StringLength(p, end)
    BY <1>4 DEF Reader!AfterAtom
  <2> QED
    BY <1>1, <2>2, <2>3, <2>4, <2>5
<1>5. CASE tag = "b"
  <2> PICK size : size = ArgOf(m, k)[1][2]
    OBVIOUS
  <2>1. size \in Nat /\ 4 * n = 4 + Align(size) /\ 1 <= n
    BY <1>5, ArgSizes
  <2>2. Align(size) \in Nat
    BY <2>1, AlignProperties
  <2>3. Reader!Number(p) = size
    <3>1. 1 \in 1 .. Len(ArgOf(m, k)) /\ p \div 4 + 1 - 1 = p \div 4
      BY <1>1, <2>1
    <3>2. args.data[p \div 4] = ArgOf(m, k)[1]
      BY <1>1, <3>1 DEF Holds
    <3> QED
      BY <3>2 DEF Reader!Number, Reader!Word
  <2>4. Reader!AfterBlob(p) = p + 4 + Align(size)
    BY <2>3, SameSizes DEF Reader!AfterBlob
  <2>5. Reader!AfterAtom(tag, p, end) = IF p + 4 <= end /\ Reader!AfterBlob(p) <= end
                                        THEN Reader!AfterBlob(p) ELSE Null
    BY <1>5 DEF Reader!AfterAtom, Reader!Readable
  <2>6. Reader!AfterBlob(p) = ArgPos(m, k) /\ p + 4 <= Reader!AfterBlob(p)
    BY ONLY <1>1, <2>1, <2>2, <2>4
  <2> QED
    BY <1>1, <2>2, <2>4, <2>5, <2>6
<1>6. CASE tag \in {"[", "]"}
  <2>1. n = 0
    BY <1>6, ArgSizes
  <2>2. Reader!AfterAtom(tag, p, end) = p
    BY <1>6 DEF Reader!AfterAtom
  <2> QED
    BY <1>1, <2>1, <2>2
<1> QED
  BY <1>2, <1>3, <1>4, <1>5, <1>6 DEF ArgTags

(***************************************************************************)
(* Nesting of arrays: one bracket more or less from argument to argument.  *)
(***************************************************************************)
Depth(m, i) == Count(m.put, "[", i) - Count(m.put, "]", i)

LEMMA CountNext ==
  ASSUME NEW put, NEW c, NEW i \in Nat
  PROVE  /\ Count(put, c, i) \in Nat
         /\ Count(put, c, i + 1) = Count(put, c, i) + (IF put[i + 1].tag = c THEN 1 ELSE 0)
<1> DEFINE T(n) == {j \in 1 .. n : put[j].tag = c}
<1>1. IsFiniteSet(T(i)) /\ Cardinality(T(i)) \in Nat
  <2>1. IsFiniteSet(1 .. i)
    BY FS_Interval
  <2> QED
    BY <2>1, FS_Subset, FS_CardinalityType
<1>2. i + 1 \notin T(i)
  OBVIOUS
<1>3. T(i + 1) = IF put[i + 1].tag = c THEN T(i) \cup {i + 1} ELSE T(i)
  <2>1. 1 .. i + 1 = (1 .. i) \cup {i + 1}
    OBVIOUS
  <2> QED
    BY <2>1
<1>4. Count(put, c, i) = Cardinality(T(i)) /\ Count(put, c, i + 1) = Cardinality(T(i + 1))
  BY DEF Count
<1> HIDE DEF T
<1>5. Cardinality(T(i) \cup {i + 1}) = Cardinality(T(i)) + 1
  BY <1>1, <1>2, FS_AddElement
<1> QED
  BY <1>1, <1>3, <1>4, <1>5

LEMMA DepthNext ==
  ASSUME NEW m, NEW i \in Nat
  PROVE  /\ Depth(m, i) \in Int
         /\ Depth(m, i + 1) = Reader!Brackets(Depth(m, i), m.put[i + 1].tag)
         /\ m.put[i + 1].tag = "[" => Depth(m, i + 1) = Depth(m, i) + 1
         /\ m.put[i + 1].tag = "]" => Depth(m, i + 1) = Depth(m, i) - 1
         /\ m.put[i + 1].tag \notin {"[", "]"} => Depth(m, i + 1) = Depth(m, i)
<1> PICK tag : tag = m.put[i + 1].tag
  OBVIOUS
<1> PICK a : a = Count(m.put, "[", i)
  OBVIOUS
<1> PICK b : b = Count(m.put, "]", i)
  OBVIOUS
<1>1. /\ a \in Nat /\ Count(m.put, "[", i + 1) = a + (IF tag = "[" THEN 1 ELSE 0)
      /\ b \in Nat /\ Count(m.put, "]", i + 1) = b + (IF tag = "]" THEN 1 ELSE 0)
  BY CountNext
<1>2. /\ Depth(m, i) = a - b
      /\ Depth(m, i + 1) = (a + (IF tag = "[" THEN 1 ELSE 0)) - (b + (IF tag = "]" THEN 1 ELSE 0))
  BY <1>1 DEF Depth
<1> QED
  BY <1>1, <1>2 DEF Reader!Brackets

-----------------------------------------------------------------------------
(***************************************************************************)
(* Over an array: dropArray reads the tags one by one, up to the bracket   *)
(* that closes it.                                                         *)
(***************************************************************************)
Drops(f, start, count, end) ==
  f = [i \in 0 .. count |-> IF i = 0 THEN start
                            ELSE Reader!Dropped(f[i - 1], start.tag + i - 1, end)]

LEMMA DropsExist ==
  ASSUME NEW start, NEW count \in Nat, NEW end
  PROVE  \E f : Drops(f, start, count, end)
<1> DEFINE S == {n \in Nat : \E f : Drops(f, start, n, end)}
<1>1. 0 \in S
  <2> DEFINE f == [i \in 0 .. 0 |-> start]
  <2>1. Drops(f, start, 0, end)
    BY DEF Drops
  <2> QED
    BY <2>1
<1>2. ASSUME NEW n \in Nat, n \in S
      PROVE  n + 1 \in S
  <2>1. PICK f : Drops(f, start, n, end)
    BY <1>2
  <2> DEFINE last == Reader!Dropped(f[n], start.tag + (n + 1) - 1, end)
             g == [i \in 0 .. n + 1 |-> IF i = n + 1 THEN last ELSE f[i]]
  <2>2. \A i \in 0 .. n : f[i] = IF i = 0 THEN start
                                 ELSE Reader!Dropped(f[i - 1], start.tag + i - 1, end)
    BY <2>1 DEF Drops
  <2>3. \A i \in 0 .. n + 1 : g[i] = IF i = 0 THEN start
                                     ELSE Reader!Dropped(g[i - 1], start.tag + i - 1, end)
    <3> TAKE i \in 0 .. n + 1
    <3>1. CASE i = n + 1
      <4>1. i # 0 /\ i - 1 = n /\ g[i - 1] = f[n] /\ g[i] = last
        BY <3>1
      <4> QED
        BY <3>1, <4>1
    <3>2. CASE i # n + 1
      <4>1. i \in 0 .. n /\ g[i] = f[i]
        BY <3>2
      <4>2. i # 0 => g[i - 1] = f[i - 1]
        BY <4>1
      <4> QED
        BY <2>2, <4>1, <4>2
    <3> QED
      BY <3>1, <3>2
  <2>4. g = [i \in 0 .. n + 1 |-> g[i]]
    OBVIOUS
  <2> HIDE DEF g, last
  <2>5. Drops(g, start, n + 1, end)
    BY <2>3, <2>4 DEF Drops
  <2> QED
    BY <2>5
<1>3. Nat \subseteq S
  <2> HIDE DEF S
  <2> QED
    BY <1>1, <1>2, AllNumbers
<1> QED
  BY <1>3

TagPos(m, k) == TagsStart(m) + 1 + k

LEMMA AfterArrayDrops ==
  ASSUME NEW stream, NEW start,
         start = [level |-> 0, tag |-> stream.tags.pos + 1, arg |-> stream.args.pos],
         NEW count \in Nat, count = stream.tags.end - start.tag
  PROVE  \E f : /\ Drops(f, start, count, stream.args.end)
                /\ Reader!AfterArray(stream) = f[count]
<1> DEFINE f == CHOOSE h : h = [i \in 0 .. count |->
                                  IF i = 0 THEN start
                                  ELSE Reader!Dropped(h[i - 1], start.tag + i - 1, stream.args.end)]
<1> PICK end : end = stream.args.end
  OBVIOUS
<1>1. Drops(f, start, count, stream.args.end)
  <2>1. \E h : Drops(h, start, count, end)
    BY DropsExist
  <2> DEFINE g == CHOOSE h : Drops(h, start, count, end)
  <2>2. Drops(g, start, count, end)
    BY <2>1
  <2>3. g = f
    BY DEF Drops
  <2> QED
    BY <2>2, <2>3
<1>2. Reader!AfterArray(stream) = f[count]
  BY DEF Reader!AfterArray
<1> QED
  BY <1>1, <1>2

(***************************************************************************)
(* From frame b .. e, an array opened by argument k + 1 is closed by       *)
(* argument j.                                                             *)
(***************************************************************************)
Balanced(m, b, e) ==
  Depth(m, e) = Depth(m, b) /\ \A j \in b .. e : Depth(m, j) >= Depth(m, b)

OpenTo(m, k, n) == \A h \in k .. n : Depth(m, h) >= Depth(m, k)

(* How far dropArray is after n tags of an array whose first is k + 1.     *)
StillOpen(m, k, n, end, s) ==
  /\ OpenTo(m, k, n)
  /\ ArgPos(m, n) <= end
  /\ s = [level |-> Depth(m, n) - Depth(m, k), tag |-> TagPos(m, n), arg |-> ArgPos(m, n)]

ClosedBy(m, k, j, end, s) ==
  /\ OpenTo(m, k, j - 1) /\ Depth(m, j) = Depth(m, k) - 1
  /\ ArgPos(m, j) <= end
  /\ s = [level |-> -1, tag |-> TagPos(m, j), arg |-> ArgPos(m, j)]

CutOff(m, n, end, s) == s.arg = Null /\ end < ArgPos(m, n)

LEMMA Drop ==
  ASSUME Delivered, NEW m \in closed, m.kind = "message", NEW k \in 0 .. m.numTags,
         NEW n \in 0 .. m.numTags, n + 1 <= m.numTags, k <= n, NEW end \in Nat,
         NEW s, StillOpen(m, k, n, end, s), NEW t, t = Reader!Dropped(s, TagPos(m, n), end)
  PROVE  \/ StillOpen(m, k, n + 1, end, t)
         \/ ClosedBy(m, k, n + 1, end, t)
         \/ CutOff(m, n + 1, end, t)
<1> PICK j : j = n + 1
  OBVIOUS
<1>1. /\ m.numTags \in Nat /\ j \in 1 .. m.numTags /\ j \in 0 .. m.numTags /\ n = j - 1
      /\ MessageSizes(m)
  BY MessageHeld DEF IsMessage
<1> PICK tag : tag = m.put[j].tag
  OBVIOUS
<1>2. Reader!CharAt(TagPos(m, n)) = tag
  <2>1. j \in Nat /\ j < Align(m.numTags + 2)
    <3>1. Align(m.numTags + 2) \in Nat /\ Align(m.numTags + 2) >= m.numTags + 2
      BY <1>1 DEF MessageSizes
    <3> QED
      BY ONLY <1>1, <3>1
  <2>2. Reader!CharAt(TagsStart(m) + j) = TagAt(m, j + 1)
    BY <2>1, CharsAre
  <2>3. TagAt(m, j + 1) = tag
    BY <1>1, TagsAre
  <2>4. TagPos(m, n) = TagsStart(m) + j
    <3>1. TagsStart(m) \in Int
      BY <1>1 DEF MessageSizes
    <3> QED
      BY <1>1, <3>1 DEF TagPos
  <2> QED
    BY <2>2, <2>3, <2>4
<1>3. /\ s = [level |-> Depth(m, n) - Depth(m, k), tag |-> TagPos(m, n), arg |-> ArgPos(m, n)]
      /\ OpenTo(m, k, n) /\ ArgPos(m, n) <= end
  BY DEF StillOpen
<1>4. /\ ArgPos(m, n) \in Nat /\ ArgPos(m, j) \in Nat
      /\ ArgPos(m, n) # Null /\ ArgPos(m, j) # Null
  <2>1. ArgPos(m, n) \in Nat /\ ArgPos(m, j) \in Nat
    BY <1>1, ArgEnds
  <2>2. Null \notin Nat
    BY CallerAssumption
  <2> QED
    BY ONLY <2>1, <2>2
<1>5. /\ Depth(m, n) \in Int /\ Depth(m, k) \in Int /\ Depth(m, j) \in Int
      /\ Depth(m, j) = Reader!Brackets(Depth(m, n), tag)
      /\ tag # "]" => Depth(m, j) >= Depth(m, n)
      /\ tag = "]" => Depth(m, j) = Depth(m, n) - 1
  <2>1. k \in Nat /\ n \in Nat /\ j \in Nat
    BY <1>1
  <2> QED
    BY <2>1, DepthNext
<1>6. Depth(m, n) >= Depth(m, k)
  BY <1>1, <1>3 DEF OpenTo
<1> PICK after : after = IF ArgPos(m, j) <= end THEN ArgPos(m, j) ELSE Null
  OBVIOUS
<1>7. (IF tag \in {"[", "]"} THEN ArgPos(m, n) ELSE Reader!AfterAtom(tag, ArgPos(m, n), end))
        = after
  <2>1. Reader!AfterAtom(tag, ArgPos(m, n), end) = after
    BY <1>1, <1>3, AfterAtomIs
  <2>2. tag \in {"[", "]"} => Reader!AfterAtom(tag, ArgPos(m, n), end) = ArgPos(m, n)
    BY DEF Reader!AfterAtom
  <2> QED
    BY <2>1, <2>2
<1>8. t = [level |-> Depth(m, j) - Depth(m, k), tag |-> TagPos(m, j), arg |-> after]
  <2>1. /\ s.level = Depth(m, n) - Depth(m, k) /\ s.arg = ArgPos(m, n)
        /\ ~(s.level < 0) /\ s.arg # Null
    BY <1>3, <1>4, <1>5, <1>6
  <2>2. t = [level |-> Reader!Brackets(s.level, tag), tag |-> TagPos(m, n) + 1, arg |-> after]
    BY <1>2, <1>7, <2>1 DEF Reader!Dropped
  <2>3. Reader!Brackets(s.level, tag) = Depth(m, j) - Depth(m, k)
    BY <1>5, <2>1 DEF Reader!Brackets
  <2>4. TagPos(m, n) + 1 = TagPos(m, j)
    <3>1. TagsStart(m) \in Int
      BY <1>1 DEF MessageSizes
    <3> QED
      BY <1>1, <3>1 DEF TagPos
  <2> QED
    BY <2>2, <2>3, <2>4
<1>9. CASE ~(ArgPos(m, j) <= end)
  BY <1>4, <1>8, <1>9 DEF CutOff
<1>10. CASE ArgPos(m, j) <= end /\ Depth(m, j) >= Depth(m, k)
  <2>1. OpenTo(m, k, j)
    BY <1>1, <1>3, <1>10 DEF OpenTo
  <2>2. StillOpen(m, k, j, end, t)
    BY <1>8, <1>10, <2>1 DEF StillOpen
  <2> QED
    BY <2>2
<1>11. CASE ArgPos(m, j) <= end /\ ~(Depth(m, j) >= Depth(m, k))
  <2>1. Depth(m, j) = Depth(m, k) - 1
    BY <1>5, <1>6, <1>11
  <2>2. Depth(m, j) - Depth(m, k) = -1
    BY <1>5, <2>1
  <2>3. ClosedBy(m, k, j, end, t)
    BY <1>1, <1>3, <1>8, <1>11, <2>1, <2>2 DEF ClosedBy
  <2> QED
    BY <2>3
<1> QED
  BY <1>9, <1>10, <1>11

(* The tags up to K + i have been dropped, or fewer.                       *)
DroppedTo(m, k, i, end, s) ==
  \/ StillOpen(m, k, k + i, end, s)
  \/ \E j \in k + 1 .. k + i : ClosedBy(m, k, j, end, s)
  \/ \E j \in k + 1 .. k + i : CutOff(m, j, end, s)

LEMMA DropOn ==
  ASSUME Delivered, NEW m \in closed, m.kind = "message", NEW k \in 0 .. m.numTags,
         NEW i \in Nat, k + i + 1 <= m.numTags, NEW end \in Nat,
         NEW s, DroppedTo(m, k, i, end, s),
         NEW t, t = Reader!Dropped(s, TagPos(m, k + i), end)
  PROVE  DroppedTo(m, k, i + 1, end, t)
<1>1. m.numTags \in Nat /\ k \in Nat
  BY MessageHeld DEF IsMessage
<1> PICK n : n = k + i
  OBVIOUS
<1>2. /\ n \in 0 .. m.numTags /\ n + 1 <= m.numTags /\ k <= n
      /\ k + (i + 1) = n + 1
      /\ n + 1 \in k + 1 .. n + 1
      /\ \A j \in k + 1 .. n : j \in k + 1 .. n + 1
  BY <1>1
<1>3. CASE StillOpen(m, k, n, end, s)
  <2>1. \/ StillOpen(m, k, n + 1, end, t)
        \/ ClosedBy(m, k, n + 1, end, t)
        \/ CutOff(m, n + 1, end, t)
    BY <1>2, <1>3, Drop
  <2> QED
    BY <1>2, <2>1 DEF DroppedTo
<1>4. CASE \E j \in k + 1 .. n : ClosedBy(m, k, j, end, s)
  <2>1. s.level < 0
    BY <1>4 DEF ClosedBy
  <2>2. t = s
    BY <2>1 DEF Reader!Dropped
  <2> QED
    BY <1>2, <1>4, <2>2 DEF DroppedTo
<1>5. CASE \E j \in k + 1 .. n : CutOff(m, j, end, s)
  <2>1. s.arg = Null
    BY <1>5 DEF CutOff
  <2>2. t = s
    BY <2>1 DEF Reader!Dropped
  <2> QED
    BY <1>2, <1>5, <2>2 DEF DroppedTo
<1> QED
  BY <1>3, <1>4, <1>5 DEF DroppedTo

LEMMA DropsAll ==
  ASSUME Delivered, NEW m \in closed, m.kind = "message", NEW k \in 0 .. m.numTags,
         NEW e \in 0 .. m.numTags, k <= e, NEW end \in Nat, ArgPos(m, k) <= end,
         NEW start, start = [level |-> 0, tag |-> TagPos(m, k), arg |-> ArgPos(m, k)],
         NEW f, Drops(f, start, e - k, end)
  PROVE  DroppedTo(m, k, e - k, end, f[e - k])
<1>1. m.numTags \in Nat /\ k \in Nat /\ e \in Nat /\ e - k \in Nat /\ TagsStart(m) \in Int
  <2>1. IsMessage(m) /\ MessageSizes(m)
    BY MessageHeld
  <2>2. m.numTags \in Nat
    BY <2>1 DEF IsMessage
  <2>3. TagsStart(m) \in Nat
    BY <2>1 DEF MessageSizes
  <2>4. k \in 0 .. m.numTags /\ e \in 0 .. m.numTags /\ k <= e
    OBVIOUS
  <2> QED
    BY ONLY <2>2, <2>3, <2>4
<1> DEFINE S == {i \in Nat : i <= e - k => DroppedTo(m, k, i, end, f[i])}
<1>2. \A i \in 0 .. e - k : f[i] = IF i = 0 THEN start
                                  ELSE Reader!Dropped(f[i - 1], start.tag + i - 1, end)
  BY DEF Drops
<1>3. 0 \in S
  <2>1. f[0] = start
    BY <1>1, <1>2
  <2>2. Depth(m, k) \in Int
    BY <1>1, DepthNext
  <2>3. OpenTo(m, k, k)
    <3>1. \A h \in k .. k : h = k
      BY <1>1
    <3> QED
      BY <2>2, <3>1 DEF OpenTo
  <2>4. Depth(m, k) - Depth(m, k) = 0
    BY <2>2
  <2>5. StillOpen(m, k, k, end, start)
    BY <2>3, <2>4 DEF StillOpen
  <2>6. k + 0 = k
    BY <1>1
  <2> QED
    BY <2>1, <2>5, <2>6 DEF DroppedTo
<1>4. ASSUME NEW i \in Nat, i \in S
      PROVE  i + 1 \in S
  <2> SUFFICES ASSUME i + 1 <= e - k
               PROVE  DroppedTo(m, k, i + 1, end, f[i + 1])
    OBVIOUS
  <2>1. i <= e - k /\ k + i + 1 <= m.numTags /\ i + 1 \in 0 .. e - k /\ (i + 1) - 1 = i
        /\ i + 1 # 0
    BY <1>1
  <2>2. DroppedTo(m, k, i, end, f[i])
    BY <1>4, <2>1
  <2>3. f[i + 1] = Reader!Dropped(f[i], start.tag + (i + 1) - 1, end)
    BY <1>2, <2>1
  <2>4. start.tag + (i + 1) - 1 = TagPos(m, k + i)
    BY <1>1 DEF TagPos
  <2>5. f[i + 1] = Reader!Dropped(f[i], TagPos(m, k + i), end)
    BY <2>3, <2>4
  <2> QED
    BY <2>1, <2>2, <2>5, DropOn
<1>5. Nat \subseteq S
  <2> HIDE DEF S
  <2> QED
    BY <1>3, <1>4, AllNumbers
<1> QED
  BY <1>1, <1>5

(* From frame b .. e, an array is opened by argument k + 1.                *)
LEMMA AfterArrayIs ==
  ASSUME Delivered, NEW m \in closed, m.kind = "message",
         NEW b \in 0 .. m.numTags, NEW k \in 0 .. m.numTags, NEW e \in 0 .. m.numTags,
         b <= k, k < e, Balanced(m, b, e), m.put[k + 1].tag = "[",
         NEW end \in Nat, ArgPos(m, k) <= end,
         NEW stream, stream.tags.pos = TagPos(m, k), stream.tags.end = TagPos(m, e),
         stream.args.pos = ArgPos(m, k), stream.args.end = end,
         NEW after, after = Reader!AfterArray(stream)
  PROVE  \/ after.arg = Null /\ end < ArgPos(m, e)
         \/ /\ after.level < 0 /\ after.arg # Null
            /\ \E j \in k + 2 .. e : ClosedBy(m, k + 1, j, end, after)
<1>1. /\ m.numTags \in Nat /\ k \in Nat /\ e \in Nat /\ b \in Nat
      /\ TagsStart(m) \in Int
  BY MessageHeld DEF IsMessage, MessageSizes
<1> PICK h : h = k + 1
  OBVIOUS
<1>2. /\ h \in 1 .. m.numTags /\ h \in 0 .. m.numTags /\ h <= e /\ h - 1 = k /\ e - h \in Nat
      /\ h + 1 = k + 2 /\ h + (e - h) = e
  BY <1>1
<1>3. ArgPos(m, h) = ArgPos(m, k) /\ ArgPos(m, h) \in Nat
  <2>1. Len(ArgOf(m, h)) = 0
    BY <1>2, ArgSizes
  <2>2. ArgPos(m, h) = ArgPos(m, k) + 4 * Len(ArgOf(m, h)) /\ ArgPos(m, k) \in Nat
    BY <1>2, ArgPlaced
  <2> QED
    BY <2>1, <2>2
<1> PICK start : start = [level |-> 0, tag |-> stream.tags.pos + 1, arg |-> stream.args.pos]
  OBVIOUS
<1>4. start = [level |-> 0, tag |-> TagPos(m, h), arg |-> ArgPos(m, h)]
  <2>1. stream.tags.pos + 1 = TagPos(m, h)
    BY <1>1, <1>2 DEF TagPos
  <2> QED
    BY <1>3, <2>1
<1> PICK count : count = e - h
  OBVIOUS
<1>5. count \in Nat /\ count = stream.tags.end - start.tag
  BY <1>1, <1>2, <1>4 DEF TagPos
<1>6. PICK f : Drops(f, start, count, stream.args.end) /\ Reader!AfterArray(stream) = f[count]
  BY <1>5, AfterArrayDrops
<1>7. DroppedTo(m, h, e - h, end, after)
  <2>1. Drops(f, start, e - h, end) /\ after = f[e - h]
    BY <1>6
  <2> QED
    BY <1>2, <1>3, <1>4, <2>1, DropsAll
<1>8. CASE StillOpen(m, h, e, end, after)
  <2>1. Depth(m, e) >= Depth(m, h)
    BY <1>2, <1>8 DEF StillOpen, OpenTo
  <2>2. Depth(m, h) = Depth(m, k) + 1 /\ Depth(m, k) \in Int
    BY <1>1, DepthNext
  <2>3. Depth(m, e) = Depth(m, b) /\ Depth(m, k) >= Depth(m, b) /\ Depth(m, b) \in Int
    BY <1>1, DepthNext DEF Balanced
  <2> QED
    BY <2>1, <2>2, <2>3
<1>9. CASE \E j \in h + 1 .. e : ClosedBy(m, h, j, end, after)
  <2>1. PICK j \in h + 1 .. e : ClosedBy(m, h, j, end, after)
    BY <1>9
  <2>2. after.level < 0 /\ after.arg = ArgPos(m, j)
    BY <2>1 DEF ClosedBy
  <2>3. j \in 0 .. m.numTags
    BY <1>1, <1>2
  <2>4. ArgPos(m, j) # Null
    BY <2>3, ArgEnds, CallerAssumption
  <2> QED
    BY <1>2, <2>1, <2>2, <2>4
<1>10. CASE \E j \in h + 1 .. e : CutOff(m, j, end, after)
  <2>1. PICK j \in h + 1 .. e : CutOff(m, j, end, after)
    BY <1>10
  <2>2. j \in 0 .. m.numTags /\ j <= e
    BY <1>1, <1>2
  <2>3. ArgPos(m, j) <= ArgPos(m, e)
    BY <2>2, ArgsInOrder
  <2>4. ArgPos(m, j) \in Nat /\ ArgPos(m, e) \in Nat
    BY <2>2, ArgEnds
  <2>5. after.arg = Null /\ end < ArgPos(m, j)
    BY <2>1 DEF CutOff
  <2> QED
    BY <2>3, <2>4, <2>5
<1> QED
  BY <1>2, <1>7, <1>8, <1>9, <1>10 DEF DroppedTo

(* What is inside: the arguments up to the bracket that closes it.         *)
LEMMA InsideArray ==
  ASSUME Delivered, NEW m \in closed, m.kind = "message",
         NEW k \in 0 .. m.numTags, NEW j \in 0 .. m.numTags, k + 2 <= j,
         m.put[k + 1].tag = "[", NEW end, NEW after, ClosedBy(m, k + 1, j, end, after)
  PROVE  /\ Balanced(m, k + 1, j - 1)
         /\ ArgPos(m, k + 1) = ArgPos(m, k) /\ ArgPos(m, j - 1) = ArgPos(m, j)
         /\ Depth(m, j) = Depth(m, k)
         /\ m.put[j].tag = "]"
<1>1. m.numTags \in Nat /\ k \in Nat /\ j \in Nat
  BY MessageHeld DEF IsMessage
<1> PICK h : h = k + 1
  OBVIOUS
<1> PICK i : i = j - 1
  OBVIOUS
<1>2. /\ h \in 1 .. m.numTags /\ h - 1 = k /\ h \in Nat
      /\ i \in Nat /\ i + 1 = j /\ j \in 1 .. m.numTags /\ i \in h .. i /\ k + 1 = h
  BY <1>1
<1>3. /\ \A g \in h .. i : Depth(m, g) >= Depth(m, h)
      /\ Depth(m, j) = Depth(m, h) - 1
  BY <1>2 DEF ClosedBy, OpenTo
<1>4. Depth(m, i) >= Depth(m, h)
  BY <1>2, <1>3
<1>5. /\ Depth(m, i) \in Int /\ Depth(m, h) \in Int /\ Depth(m, k) \in Int
      /\ Depth(m, h) = Depth(m, k) + 1
  BY <1>1, <1>2, DepthNext
<1> PICK tag : tag = m.put[j].tag
  OBVIOUS
<1>6. /\ tag = "[" => Depth(m, j) = Depth(m, i) + 1
      /\ tag = "]" => Depth(m, j) = Depth(m, i) - 1
      /\ tag \notin {"[", "]"} => Depth(m, j) = Depth(m, i)
  BY <1>2, DepthNext
<1>7. tag = "]" /\ Depth(m, i) = Depth(m, h) /\ Depth(m, j) = Depth(m, k)
  BY <1>3, <1>4, <1>5, <1>6
<1>8. Balanced(m, h, i)
  BY <1>3, <1>7 DEF Balanced
<1>9. Len(ArgOf(m, h)) = 0 /\ Len(ArgOf(m, j)) = 0
  BY <1>2, <1>7, ArgSizes
<1>10. /\ ArgPos(m, h) = ArgPos(m, k) + 4 * Len(ArgOf(m, h)) /\ ArgPos(m, k) \in Nat
  BY <1>2, ArgPlaced
<1>11. ArgPos(m, j) = ArgPos(m, i) + 4 * Len(ArgOf(m, j)) /\ ArgPos(m, i) \in Nat
  BY <1>2, ArgPlaced
<1>12. ArgPos(m, h) = ArgPos(m, k)
  BY <1>9, <1>10
<1>13. ArgPos(m, i) = ArgPos(m, j)
  BY <1>9, <1>11
<1> QED
  BY <1>7, <1>8, <1>12, <1>13

-----------------------------------------------------------------------------
(***************************************************************************)
(* The reader.  The inductive invariant says where in the packet it is:    *)
(* each PacketStream is on a bundle, at the end of an element in it, and   *)
(* each ArgStream on arguments b + 1 .. e of the message, before argument  *)
(* k + 1, with as many brackets opened as closed between b and e.          *)
(***************************************************************************)

Streams == [begin : Nat, pos : Nat, end : Nat]

(* Where the reader is, outside the messages.                              *)
Cursor(bs, n) == IF bs = << >> THEN n ELSE bs[Len(bs)].pos

(* No element of bundle b lies across pos.                                 *)
Between(pos, b) == \A e \in closed : Holding(b, e) => e.last <= pos \/ pos <= e.slot

ReadsBundle(bs, n, i, b) ==
  /\ b.kind = "bundle"
  /\ Cardinality(Around(b)) = i - 1
  /\ bs[i].begin = b.first + SizeBundle
  /\ bs[i].pos \in Ends(b.first, b.last, closed)
  /\ Between(bs[i].pos, b)
  /\ bs[i].pos <= bs[i].end
  /\ bs[i].end <= b.last
  /\ i > 1 => bs[i].end = b.last
  /\ bs[i].end = IF i = 1 THEN n ELSE bs[i - 1].pos

InBundles(bs, n) ==
  /\ bs \in Seq(Streams)
  /\ \A i \in 1 .. Len(bs) : \E b \in closed : ReadsBundle(bs, n, i, b)

ArgStream(m, b, k, e, end) ==
  [tags |-> [begin |-> TagPos(m, b), pos |-> TagPos(m, k), end |-> TagPos(m, e)],
   args |-> [begin |-> ArgPos(m, b), pos |-> ArgPos(m, k), end |-> end]]

(* The stream is before argument k + 1 of those from b + 1 to e.           *)
ArgsBetween(ms, cursor, m, i, b, k, e) ==
  /\ b <= k /\ k <= e
  /\ Balanced(m, b, e)
  /\ IF i = 1 THEN /\ b = 0 /\ e = m.numTags
                   /\ ms[i] = ArgStream(m, b, k, e, cursor)
                   /\ ArgPos(m, k) <= cursor
              ELSE /\ ms[i] = ArgStream(m, b, k, e, ArgPos(m, e))
                   /\ ms[i - 1].tags.pos = TagPos(m, e + 1)
                   /\ ms[i - 1].args.pos = ArgPos(m, e)

ReadsArgs(ms, cursor, m, i) ==
  \E b \in 0 .. m.numTags : \E k \in 0 .. m.numTags : \E e \in 0 .. m.numTags :
    ArgsBetween(ms, cursor, m, i, b, k, e)

ReadsMessage(ms, bs, n, seen, m) ==
  /\ m.kind = "message"
  /\ Rank(m) = seen
  /\ IF bs = << >> THEN m.slot = Null ELSE m.last = Cursor(bs, n)
  /\ \A i \in 1 .. Len(ms) : ReadsArgs(ms, Cursor(bs, n), m, i)

InMessage(ms, bs, n, seen) ==
  /\ ms \in Seq([tags : Streams, args : Streams])
  /\ ms # << >> => \E m \in closed : ReadsMessage(ms, bs, n, seen, m)

Returned(r, bs, e) ==
  /\ r.element = Rank(e)
  /\ IF r.index > 0
     THEN /\ r.index <= Len(e.put)
          /\ r.tag = e.put[r.index].tag
          /\ r.value = e.put[r.index].head \o e.put[r.index].data
     ELSE /\ r.tag = e.kind
          /\ r.value = Heading(e)
          /\ Len(bs) = Cardinality(Around(e)) + (IF e.kind = "bundle" THEN 1 ELSE 0)

Reads(n, bs, ms, good, seen, r) ==
  /\ n \in Nat /\ n <= args.pos
  /\ InBundles(bs, n)
  /\ InMessage(ms, bs, n, seen)
  /\ good \in BOOLEAN
  /\ good = TRUE => seen = Cardinality(Before(Cursor(bs, n)))
  /\ n = args.pos => good = TRUE
  /\ r # Null => \E e \in closed : Returned(r, bs, e)

TripInv ==
  IF length = Null THEN Reader!Idle
  ELSE Complete /\ Reads(length, bundles, message, ok, elements, result)

-----------------------------------------------------------------------------
(* Streams are entered, moved and left.                                    *)
LEMMA FrontIs ==
  ASSUME NEW S, NEW s \in Seq(S), NEW n, n = Len(s), n >= 1, NEW t, t = SubSeq(s, 1, n - 1)
  PROVE  /\ t \in Seq(S) /\ Len(t) = n - 1
         /\ \A i \in 1 .. n - 1 : t[i] = s[i]
         /\ t = << >> <=> n = 1
<1>1. n \in Nat /\ n - 1 \in Nat /\ 1 - 1 = 0
  OBVIOUS
<1>2. \A i \in 1 .. n - 1 : s[i] \in S
  <2>1. \A i \in 1 .. n - 1 : i \in 1 .. Len(s)
    BY <1>1
  <2> QED
    BY <2>1
<1>3. t \in Seq(S) /\ Len(t) = n - 1 /\ \A i \in 1 .. n - 1 : t[i] = s[i]
  BY <1>1, <1>2, SubSeqProperties
<1>4. t = << >> <=> Len(t) = 0
  BY <1>3, EmptySeq
<1> QED
  BY <1>1, <1>3, <1>4

LEMMA LastIs ==
  ASSUME NEW S, NEW s \in Seq(S), s # << >>
  PROVE  Len(s) \in Nat /\ Len(s) >= 1 /\ s[Len(s)] \in S
<1>1. Len(s) \in Nat /\ Len(s) # 0
  BY EmptySeq
<1> QED
  BY <1>1, ElementOfSeq

LEMMA CursorAt ==
  ASSUME NEW bs \in Seq(Streams), NEW n, NEW k, k = Len(bs)
  PROVE  Cursor(bs, n) = IF k = 0 THEN n ELSE bs[k].pos
<1>1. bs = << >> <=> k = 0
  BY EmptySeq
<1> QED
  BY <1>1 DEF Cursor

(* The ends of the elements of a bundle lie behind its header.             *)
LEMMA EndsBehind ==
  ASSUME Delivered, NEW b \in closed, b.kind = "bundle",
         NEW e \in closed, e.slot # Null, e.slot >= b.first, e.last <= b.last
  PROVE  Holding(b, e)
<1>1. ElementAt(b) /\ ElementAt(e)
  BY ElementsPlaced
<1>2. b.first \in Nat /\ e.slot \in Nat /\ e.first = e.slot + 4 /\ e.first + 8 <= e.last
      /\ e.last \in Nat
  BY <1>1 DEF ElementAt
<1>3. b.first < e.first /\ ~(b.last <= e.slot)
  BY <1>1, <1>2 DEF ElementAt
<1> QED
  BY <1>3, InOrderOfPlace

LEMMA EndsNat ==
  ASSUME Delivered, NEW b \in closed, b.kind = "bundle",
         NEW p \in Ends(b.first, b.last, closed)
  PROVE  /\ p \in Nat /\ b.first + SizeBundle <= p
         /\ b.first \in Nat /\ b.last \in Nat /\ SizeBundle = 16 /\ b.last <= args.pos
<1>1. ElementAt(b) /\ SizeBundle = 16
  BY ElementsPlaced DEF SizeBundle
<1>2. b.first \in Nat /\ b.first + SizeBundle \in Nat /\ b.last \in Nat /\ b.last <= args.pos
  BY <1>1 DEF ElementAt
<1>3. CASE p = b.first + SizeBundle
  BY <1>1, <1>2, <1>3
<1>4. ASSUME NEW e \in Inside(b.first, b.last, closed), p = e.last
      PROVE  p \in Nat /\ b.first + SizeBundle <= p
  <2>1. e \in closed /\ e.slot # Null /\ e.slot >= b.first /\ e.last <= b.last
    BY DEF Inside
  <2>2. Holding(b, e)
    BY <2>1, EndsBehind
  <2>3. ElementAt(e)
    BY <2>1, ElementsPlaced
  <2>4. e.slot \in Nat /\ e.first = e.slot + 4 /\ e.first + 8 <= e.last /\ e.last \in Nat
    BY <2>1, <2>3 DEF ElementAt
  <2>5. e.slot >= b.first + SizeBundle
    BY <2>2 DEF Holding
  <2> QED
    BY <1>2, <1>4, <2>4, <2>5
<1> QED
  BY <1>1, <1>2, <1>3, <1>4 DEF Ends

(* Where a stream of a bundle is not at its end, an element begins.        *)
LEMMA ElementFound ==
  ASSUME Delivered, NEW bs, NEW n \in Nat, InBundles(bs, n), NEW k, k = Len(bs), k >= 1,
         bs[k].pos # bs[k].end
  PROVE  \E b, e \in closed :
           /\ ReadsBundle(bs, n, k, b)
           /\ Holding(b, e)
           /\ e.slot = bs[k].pos /\ e.slot \in Nat /\ e.first = e.slot + 4
           /\ Reader!Number(e.slot) = e.last - e.first
           /\ e.first \in Nat /\ e.last \in Nat /\ e.first + 8 <= e.last
           /\ n = args.pos => e.last <= bs[k].end
<1>1. bs \in Seq(Streams) /\ k \in Nat /\ k \in 1 .. Len(bs) /\ bs[k] \in Streams
  BY ElementOfSeq DEF InBundles
<1>2. PICK b \in closed : ReadsBundle(bs, n, k, b)
  BY <1>1 DEF InBundles
<1> PICK pos : pos = bs[k].pos
  OBVIOUS
<1> PICK end : end = bs[k].end
  OBVIOUS
<1>3. /\ pos \in Nat /\ end \in Nat /\ pos # end
  BY <1>1 DEF Streams
<1>4. /\ b.kind = "bundle" /\ pos \in Ends(b.first, b.last, closed)
      /\ pos <= end /\ end <= b.last
      /\ k > 1 => end = b.last
      /\ end = IF k = 1 THEN n ELSE bs[k - 1].pos
  BY <1>2 DEF ReadsBundle
<1>5. b.last \in Nat /\ b.last <= args.pos /\ args.pos \in Nat
  BY <1>4, EndsNat, ElementsPlaced
<1>6. pos < b.last
  BY <1>3, <1>4, <1>5
<1>7. PICK e \in Inside(b.first, b.last, closed) : e.slot = pos
  <2>1. Tiled(b.first, b.last, closed)
    BY <1>4 DEF Delivered, Tiles, ClosedTiles
  <2> QED
    BY <1>4, <1>6, <2>1 DEF Tiled
<1>8. e \in closed /\ e.slot # Null /\ e.slot >= b.first /\ e.last <= b.last
  BY <1>7 DEF Inside
<1>9. Holding(b, e)
  BY <1>4, <1>8, EndsBehind
<1>10. /\ e.slot \in Nat /\ e.first = e.slot + 4 /\ args.data[e.slot \div 4] = Size(e.last - e.first)
       /\ e.first \in Nat /\ e.last \in Nat /\ e.first + 8 <= e.last
  <2>1. ElementAt(e)
    BY <1>8, ElementsPlaced
  <2> QED
    BY <1>8, <2>1 DEF ElementAt
<1>11. Reader!Number(e.slot) = e.last - e.first
  BY <1>10 DEF Reader!Number, Reader!Word, Size
<1>12. n = args.pos => e.last <= end
  <2>1. n = args.pos => end = b.last
    BY <1>1, <1>3, <1>4, <1>5
  <2> QED
    BY <1>8, <2>1
<1> QED
  BY <1>2, <1>7, <1>8, <1>9, <1>10, <1>11, <1>12

(* A stream is moved to position p.                                        *)
Moved(as, bs, k, p) ==
  /\ as \in Seq(Streams) /\ Len(as) = k
  /\ \A i \in 1 .. k - 1 : as[i] = bs[i]
  /\ as[k].begin = bs[k].begin /\ as[k].pos = p /\ as[k].end = bs[k].end

LEMMA MovedIs ==
  ASSUME NEW bs \in Seq(Streams), NEW k, k = Len(bs), k >= 1, NEW p \in Nat
  PROVE  Moved([bs EXCEPT ![k].pos = p], bs, k, p)
<1> PICK x : x = [bs[k] EXCEPT !.pos = p]
  OBVIOUS
<1> PICK as : as = [bs EXCEPT ![k] = x]
  OBVIOUS
<1>1. k \in Nat /\ k \in 1 .. Len(bs) /\ bs[k] \in Streams
  BY ElementOfSeq
<1>2. as = [bs EXCEPT ![k].pos = p]
  OBVIOUS
<1>3. x \in Streams /\ x.begin = bs[k].begin /\ x.pos = p /\ x.end = bs[k].end
  BY <1>1 DEF Streams
<1>4. /\ as \in Seq(Streams) /\ Len(as) = Len(bs)
      /\ \A j \in 1 .. Len(bs) : as[j] = IF j = k THEN x ELSE bs[j]
  BY <1>1, <1>3, ExceptSeq
<1>5. \A i \in 1 .. k - 1 : i \in 1 .. Len(bs) /\ i # k
  BY <1>1
<1>6. \A i \in 1 .. k - 1 : as[i] = bs[i]
  BY <1>4, <1>5
<1>7. as[k] = x
  BY <1>1, <1>4
<1>8. Moved(as, bs, k, p)
  BY <1>3, <1>4, <1>6, <1>7 DEF Moved
<1> QED
  BY <1>2, <1>8

(* PacketStream::next moves the stream behind the element.                 *)
LEMMA BundlesMoved ==
  ASSUME Delivered, NEW bs, NEW n \in Nat, InBundles(bs, n), NEW k, k = Len(bs), k >= 1,
         NEW b \in closed, ReadsBundle(bs, n, k, b),
         NEW e \in closed, Holding(b, e), e.slot = bs[k].pos, e.last <= bs[k].end,
         NEW as, Moved(as, bs, k, e.last)
  PROVE  InBundles(as, n)
<1>0. bs \in Seq(Streams) /\ k \in Nat
  BY DEF InBundles
<1>1. /\ as \in Seq(Streams) /\ Len(as) = k
      /\ \A i \in 1 .. k - 1 : as[i] = bs[i]
      /\ as[k].begin = bs[k].begin /\ as[k].pos = e.last /\ as[k].end = bs[k].end
  BY DEF Moved
<1>2. ASSUME NEW i \in 1 .. k, i # k
      PROVE  \E c \in closed : ReadsBundle(as, n, i, c)
  <2>1. PICK c \in closed : ReadsBundle(bs, n, i, c)
    BY DEF InBundles
  <2>2. i \in 1 .. k - 1 /\ (i # 1 => i - 1 \in 1 .. k - 1)
    BY <1>1, <1>2
  <2>3. as[i] = bs[i] /\ (i # 1 => as[i - 1] = bs[i - 1])
    BY <1>1, <2>2
  <2>4. ReadsBundle(as, n, i, c)
    BY <2>1, <2>3 DEF ReadsBundle
  <2> QED
    BY <2>4
<1>3. /\ b.kind = "bundle" /\ Cardinality(Around(b)) = k - 1
      /\ bs[k].begin = b.first + SizeBundle /\ Between(bs[k].pos, b)
      /\ bs[k].end <= b.last
      /\ k > 1 => bs[k].end = b.last
      /\ bs[k].end = IF k = 1 THEN n ELSE bs[k - 1].pos
  BY DEF ReadsBundle
<1>4. /\ e.slot # Null /\ e.slot >= b.first + SizeBundle /\ e.last <= b.last
  BY DEF Holding
<1>5. /\ b.first \in Nat /\ SizeBundle = 16 /\ e.slot \in Nat /\ e.last \in Nat
      /\ e.first = e.slot + 4 /\ e.first + 8 <= e.last
  <2>1. ElementAt(b) /\ ElementAt(e)
    BY ElementsPlaced
  <2> QED
    BY <1>4, <2>1 DEF ElementAt, SizeBundle
<1>6. e.last \in Ends(b.first, b.last, closed)
  <2>1. e.slot >= b.first
    BY <1>4, <1>5
  <2>2. e \in Inside(b.first, b.last, closed)
    BY <1>4, <2>1 DEF Inside
  <2> QED
    BY <2>2 DEF Ends
<1>7. Between(e.last, b)
  <2> SUFFICES ASSUME NEW f \in closed, Holding(b, f)
               PROVE  f.last <= e.last \/ e.last <= f.slot
    BY DEF Between
  <2>1. ElementAt(f)
    BY ElementsPlaced
  <2>2. f.last \in Nat /\ f.slot \in Nat
    BY <2>1 DEF Holding, ElementAt
  <2>3. f.last <= e.slot \/ e.slot <= f.slot
    BY <1>3 DEF Between
  <2>4. CASE f = e
    BY <1>5, <2>4
  <2>5. CASE Apart(f, e)
    BY <1>5, <2>2, <2>5 DEF Apart
  <2>6. CASE Holding(f, e)
    <3>1. e.slot >= f.first + SizeBundle /\ e.last <= f.last /\ f.first = f.slot + 4
      BY <2>1, <2>6 DEF Holding, ElementAt
    <3> QED
      BY ONLY <1>5, <2>2, <2>3, <3>1
  <2>7. CASE Holding(e, f)
    BY <1>5, <2>2, <2>7 DEF Holding
  <2> QED
    BY <2>4, <2>5, <2>6, <2>7 DEF Delivered, Nesting, Laminar
<1>8. ReadsBundle(as, n, k, b)
  <2>1. k # 1 => as[k - 1] = bs[k - 1]
    <3>1. k # 1 => k - 1 \in 1 .. k - 1
      BY <1>1
    <3> QED
      BY <1>1, <3>1
  <2> QED
    BY <1>1, <1>3, <1>6, <1>7, <2>1 DEF ReadsBundle
<1>9. \A i \in 1 .. k : \E c \in closed : ReadsBundle(as, n, i, c)
  BY <1>2, <1>8
<1> QED
  BY <1>1, <1>9 DEF InBundles

(* A bundle is entered: the outermost, or one in the innermost.            *)
LEMMA BundlesEntered ==
  ASSUME Delivered, NEW bs, NEW n \in Nat, InBundles(bs, n), NEW k, k = Len(bs),
         NEW e \in closed, e.kind = "bundle", Cardinality(Around(e)) = k,
         NEW last \in Nat, last <= e.last, e.first + SizeBundle <= last,
         k > 0 => last = e.last, last = Cursor(bs, n),
         NEW s, s = [begin |-> e.first + SizeBundle, pos |-> e.first + SizeBundle, end |-> last]
  PROVE  InBundles(Append(bs, s), n) /\ Len(Append(bs, s)) = k + 1
         /\ Append(bs, s) # << >>
         /\ Cursor(Append(bs, s), n) = e.first + SizeBundle
<1>1. bs \in Seq(Streams) /\ k \in Nat
  BY DEF InBundles
<1>2. e.first + SizeBundle \in Ends(e.first, e.last, closed)
  BY DEF Ends
<1>3. e.first + SizeBundle \in Nat /\ s \in Streams
  BY <1>2, EndsNat DEF Streams
<1> PICK as : as = Append(bs, s)
  OBVIOUS
<1>4. /\ as \in Seq(Streams) /\ Len(as) = k + 1
      /\ \A i \in 1 .. k : as[i] = bs[i]
      /\ as[k + 1] = s
  BY <1>1, <1>3, AppendIndex
<1>5. ASSUME NEW i \in 1 .. k
      PROVE  \E c \in closed : ReadsBundle(as, n, i, c)
  <2>1. PICK c \in closed : ReadsBundle(bs, n, i, c)
    BY DEF InBundles
  <2>2. i # 1 => i - 1 \in 1 .. k
    BY <1>1
  <2>3. as[i] = bs[i] /\ (i # 1 => as[i - 1] = bs[i - 1])
    BY <1>4, <2>2
  <2>4. ReadsBundle(as, n, i, c)
    BY <2>1, <2>3 DEF ReadsBundle
  <2> QED
    BY <2>4
<1>6. ReadsBundle(as, n, k + 1, e)
  <2> PICK j : j = k + 1
    OBVIOUS
  <2>1. j - 1 = k /\ (j = 1 <=> k = 0) /\ (j > 1 <=> k > 0) /\ (k > 0 => k \in 1 .. k)
    BY <1>1
  <2>2. last = IF j = 1 THEN n ELSE as[j - 1].pos
    <3>1. last = IF k = 0 THEN n ELSE bs[k].pos
      BY <1>1, CursorAt
    <3>2. k # 0 => as[k] = bs[k]
      BY <1>1, <1>4
    <3> QED
      BY <2>1, <3>1, <3>2
  <2>3. as[j].begin = e.first + SizeBundle /\ as[j].pos = e.first + SizeBundle /\ as[j].end = last
    BY <1>4
  <2>4. Between(e.first + SizeBundle, e)
    BY DEF Between, Holding
  <2>5. Cardinality(Around(e)) = j - 1 /\ (j > 1 => last = e.last)
    BY <1>1, <2>1
  <2>6. ReadsBundle(as, n, j, e)
    BY <1>2, <2>2, <2>3, <2>4, <2>5 DEF ReadsBundle
  <2> QED
    BY <2>6
<1>7. \A i \in 1 .. k + 1 : \E c \in closed : ReadsBundle(as, n, i, c)
  <2>1. \A i \in 1 .. k + 1 : i \in 1 .. k \/ i = k + 1
    BY <1>1
  <2> QED
    BY <1>5, <1>6, <2>1
<1>8. InBundles(as, n)
  BY <1>4, <1>7 DEF InBundles
<1>9. Cursor(as, n) = e.first + SizeBundle
  <2> PICK j : j = Len(as)
    OBVIOUS
  <2>1. as \in Seq(Streams) /\ j = Len(as) /\ j = k + 1 /\ as[j] = s
    BY <1>4
  <2>2. Cursor(as, n) = IF j = 0 THEN n ELSE as[j].pos
    BY ONLY <2>1, CursorAt
  <2>3. j # 0
    BY ONLY <1>1, <2>1
  <2>4. s.pos = e.first + SizeBundle
    OBVIOUS
  <2> QED
    BY ONLY <2>1, <2>2, <2>3, <2>4
<1>10. as # << >>
  <2>1. as = << >> <=> Len(as) = 0
    BY <1>4, EmptySeq
  <2> QED
    BY <1>1, <1>4, <2>1
<1> QED
  BY <1>4, <1>8, <1>9, <1>10

(* ... and left at its end, where the stream around it goes on.            *)
LEMMA BundlesLeft ==
  ASSUME Delivered, NEW bs, NEW n \in Nat, InBundles(bs, n), NEW k, k = Len(bs), k >= 1,
         bs[k].pos = bs[k].end, NEW as, as = SubSeq(bs, 1, k - 1)
  PROVE  InBundles(as, n) /\ Cursor(as, n) = Cursor(bs, n)
<1>1. bs \in Seq(Streams) /\ k \in Nat /\ k - 1 \in Nat
  BY DEF InBundles
<1>2. as \in Seq(Streams) /\ Len(as) = k - 1 /\ \A i \in 1 .. k - 1 : as[i] = bs[i]
  BY <1>1, FrontIs
<1>3. ASSUME NEW i \in 1 .. k - 1
      PROVE  \E c \in closed : ReadsBundle(as, n, i, c)
  <2>1. i \in 1 .. Len(bs) /\ (i # 1 => i - 1 \in 1 .. k - 1)
    BY <1>1
  <2>2. PICK c \in closed : ReadsBundle(bs, n, i, c)
    BY <2>1 DEF InBundles
  <2>3. as[i] = bs[i] /\ (i # 1 => as[i - 1] = bs[i - 1])
    BY <1>2, <2>1
  <2>4. ReadsBundle(as, n, i, c)
    BY <2>2, <2>3 DEF ReadsBundle
  <2> QED
    BY <2>4
<1>4. InBundles(as, n)
  BY <1>2, <1>3 DEF InBundles
<1>5. PICK b \in closed : ReadsBundle(bs, n, k, b)
  <2>1. k \in 1 .. Len(bs)
    BY <1>1
  <2> QED
    BY <2>1 DEF InBundles
<1>6. bs[k].end = IF k = 1 THEN n ELSE bs[k - 1].pos
  BY <1>5 DEF ReadsBundle
<1>7. Cursor(bs, n) = bs[k].pos
  BY <1>1, CursorAt
<1>8. Cursor(as, n) = IF k - 1 = 0 THEN n ELSE as[k - 1].pos
  <2> PICK j : j = Len(as)
    OBVIOUS
  <2>1. as \in Seq(Streams) /\ j = Len(as) /\ j = k - 1
    BY <1>2
  <2>2. Cursor(as, n) = IF j = 0 THEN n ELSE as[j].pos
    BY ONLY <2>1, CursorAt
  <2> QED
    BY ONLY <2>1, <2>2
<1>9. k # 1 => as[k - 1] = bs[k - 1]
  BY <1>1, <1>2
<1> QED
  BY <1>1, <1>4, <1>6, <1>7, <1>8, <1>9

(***************************************************************************)
(* An element is entered: e, in the bundles outer, up to last.             *)
(***************************************************************************)
EnteredAt(outer, n, e, last, seen) ==
  /\ InBundles(outer, n)
  /\ Len(outer) = Cardinality(Around(e))
  /\ last = Cursor(outer, n)
  /\ IF outer = << >> THEN e.slot = Null ELSE last = e.last
  /\ seen + 1 = Rank(e)

LEMMA BundleEntered ==
  ASSUME Delivered, NEW n \in Nat, NEW e \in closed, NEW last \in Nat, last <= e.last,
         NEW outer, EnteredAt(outer, n, e, last, elements),
         Reader!EnterBundle(outer, e.first, last)
  PROVE  /\ InBundles(bundles', n)
         /\ elements' = Cardinality(Before(Cursor(bundles', n)))
         /\ message' = message
         /\ ok' = TRUE
         /\ Returned(result', bundles', e)
<1>1. /\ InBundles(outer, n) /\ Len(outer) = Cardinality(Around(e))
      /\ last = Cursor(outer, n)
      /\ IF outer = << >> THEN e.slot = Null ELSE last = e.last
      /\ elements + 1 = Rank(e)
  BY DEF EnteredAt
<1>2. ElementAt(e) /\ SizeBundle = 16 /\ Reader!SizeBundle = 16
  BY ElementsPlaced, SameSizes DEF SizeBundle
<1>3. /\ last - e.first > 15
      /\ Reader!Words(e.first, 8) = BundleWords
      /\ elements' = elements + 1
      /\ bundles' = Append(outer, Reader!Stream(e.first + Reader!SizeBundle, last))
      /\ result' = [element |-> elements', index |-> 0, tag |-> "bundle",
                    value |-> Reader!Words(e.first + 8, 8)]
      /\ ok' = TRUE /\ message' = message
  BY SameSizes DEF Reader!EnterBundle, Reader!IsBundle, Reader!Return
<1>4. e.kind = "bundle"
  BY <1>2, <1>3, MessageRead DEF ElementAt
<1>5. Reader!Words(e.first + 8, 8) = TimeWords
  BY <1>4, HeaderRead
<1> PICK s : s = [begin |-> e.first + SizeBundle, pos |-> e.first + SizeBundle, end |-> last]
  OBVIOUS
<1>6. bundles' = Append(outer, s)
  BY <1>2, <1>3 DEF Reader!Stream
<1> PICK k : k = Len(outer)
  OBVIOUS
<1>7. outer \in Seq(Streams) /\ k \in Nat
  BY <1>1 DEF InBundles
<1>8. e.first + SizeBundle <= last
  BY <1>2, <1>3 DEF ElementAt
<1>9. k > 0 => last = e.last
  BY <1>1, <1>7, EmptySeq
<1>10. /\ InBundles(Append(outer, s), n) /\ Len(Append(outer, s)) = k + 1
       /\ Cursor(Append(outer, s), n) = e.first + SizeBundle
  BY <1>1, <1>4, <1>8, <1>9, BundlesEntered
<1>11. Cardinality(Before(e.first + SizeBundle)) = Rank(e)
  BY <1>2, <1>4, RanksAt
<1>12. elements' = Cardinality(Before(Cursor(bundles', n)))
  BY <1>1, <1>3, <1>6, <1>10, <1>11
<1>13. Returned(result', bundles', e)
  <2>1. result'.element = Rank(e) /\ result'.index = 0 /\ result'.tag = "bundle"
        /\ result'.value = TimeWords
    BY <1>1, <1>3, <1>5
  <2>2. Len(bundles') = Cardinality(Around(e)) + 1
    BY <1>1, <1>6, <1>10
  <2> QED
    BY <1>4, <2>1, <2>2 DEF Returned, Heading
<1> QED
  BY <1>3, <1>6, <1>10, <1>12, <1>13

(* What a message begins with fits, or the reader throws.                  *)
LEMMA MessageEnters ==
  ASSUME Delivered, NEW e \in closed, NEW last \in Nat, last <= e.last,
         NEW outer, Reader!EnterMessage(outer, e.first, last)
  PROVE  \/ Reader!Throw /\ last # e.last
         \/ /\ e.kind = "message" /\ ArgsStart(e) <= last
            /\ elements' = elements + 1
            /\ bundles' = outer
            /\ message' = << ArgStream(e, 0, 0, e.numTags, last) >>
            /\ ok' = TRUE
            /\ result' = [element |-> elements', index |-> 0, tag |-> "message",
                          value |-> StringWords(e.addr)]
<1>1. ElementAt(e)
  BY ElementsPlaced
<1> PICK named : named = Reader!StringLength(e.first, last)
  OBVIOUS
<1> PICK signature : signature = e.first + named
  OBVIOUS
<1> PICK signed : signed = Reader!StringLength(signature, last)
  OBVIOUS
<1> PICK least : least = Reader!Min({n \in 0 .. (signed - 1) : Reader!CharAt(signature + n) = NUL})
  OBVIOUS
<1>2. /\ ~Reader!IsBundle(e.first, last)
      /\ IF /\ named # Null
            /\ signed # Null
            /\ Reader!IsChars(signature)
            /\ Reader!CharAt(signature) = ","
         THEN /\ elements' = elements + 1
              /\ bundles' = outer
              /\ message' = << [tags |-> Reader!Stream(signature + 1, signature + least),
                                args |-> Reader!Stream(signature + signed, last)] >>
              /\ result' = [element |-> elements', index |-> 0, tag |-> "message",
                            value |-> Reader!Words(e.first, named)]
              /\ ok' = TRUE
         ELSE Reader!Throw
  BY SameSizes DEF Reader!EnterMessage, Reader!Return
<1>3. CASE e.kind = "bundle"
  <2>1. /\ Reader!Words(e.first, 8) = BundleWords
        /\ named = IF e.first + 8 <= last THEN 8 ELSE Null
        /\ ~Reader!IsChars(e.first + 8)
    BY <1>3, HeaderRead
  <2>2. Reader!Throw
    BY <1>2, <2>1
  <2>3. ~(last - e.first > 15)
    BY <1>2, <2>1, SameSizes DEF Reader!IsBundle
  <2>4. last # e.last
    BY <1>1, <1>3, <2>3 DEF ElementAt
  <2> QED
    BY <2>2, <2>4
<1>4. CASE e.kind = "message"
  <2>1. IsMessage(e) /\ MessageSizes(e) /\ HoldsMessage(args, e, e.last)
    BY <1>4, MessageHeld
  <2>2. named = IF TagsStart(e) <= last THEN SizeString(e.addr) ELSE Null
    BY <1>4, MessageRead
  <2>3. /\ Reader!Words(e.first, SizeString(e.addr)) = StringWords(e.addr)
        /\ Reader!IsChars(TagsStart(e)) /\ Reader!CharAt(TagsStart(e)) = ","
    BY <1>4, MessageRead
  <2>4. Reader!StringLength(TagsStart(e), last)
          = IF ArgsStart(e) <= last THEN Align(e.numTags + 2) ELSE Null
    BY <1>4, MessageRead
  <2>5. /\ TagsStart(e) \in Nat /\ ArgsStart(e) \in Nat /\ TagsStart(e) <= ArgsStart(e)
        /\ SizeString(e.addr) \in Nat /\ Align(e.numTags + 2) \in Nat
        /\ e.numTags \in Nat
    <3>1. /\ TagsStart(e) \in Nat /\ SizeString(e.addr) \in Nat
          /\ Align(e.numTags + 2) \in Nat
      BY <2>1 DEF MessageSizes
    <3>2. e.numTags \in Nat
      BY <2>1 DEF IsMessage
    <3>3. ArgsStart(e) = TagsStart(e) + Align(e.numTags + 2)
      BY DEF ArgsStart
    <3> QED
      BY ONLY <3>1, <3>2, <3>3
  <2>6. ArgsStart(e) <= e.last
    BY <2>1, <2>5 DEF HoldsMessage, MessageSizes
  <2>7. Null \notin Nat
    BY CallerAssumption
  <2>8. CASE ~(ArgsStart(e) <= last)
    <3>1. named = Null \/ signature = TagsStart(e)
      BY <2>2 DEF TagsStart
    <3>2. named = Null \/ signed = Null
      BY <2>4, <2>8, <3>1
    <3>3. Reader!Throw
      BY <1>2, <3>2
    <3> QED
      BY <2>6, <2>8, <3>3
  <2>9. CASE ArgsStart(e) <= last
    <3>1. named = SizeString(e.addr) /\ named # Null
      BY <2>2, <2>5, <2>7, <2>9
    <3>2. signature = TagsStart(e)
      BY <3>1 DEF TagsStart
    <3>3. signed = Align(e.numTags + 2) /\ signed # Null
      BY <2>4, <2>5, <2>7, <2>9, <3>2
    <3>4. least = e.numTags + 1
      BY <1>4, <3>2, <3>3, MessageRead
    <3>5. /\ elements' = elements + 1
          /\ bundles' = outer
          /\ message' = << [tags |-> Reader!Stream(signature + 1, signature + least),
                            args |-> Reader!Stream(signature + signed, last)] >>
          /\ result' = [element |-> elements', index |-> 0, tag |-> "message",
                        value |-> Reader!Words(e.first, named)]
          /\ ok' = TRUE
      BY <1>2, <2>3, <3>1, <3>2, <3>3
    <3>6. signature + 1 = TagPos(e, 0) /\ signature + least = TagPos(e, e.numTags)
      BY <2>5, <3>2, <3>4 DEF TagPos
    <3>7. signature + signed = ArgPos(e, 0)
      BY <1>4, <3>2, <3>3, ArgEnds DEF ArgsStart
    <3>8. message' = << ArgStream(e, 0, 0, e.numTags, last) >>
      BY <3>5, <3>6, <3>7 DEF ArgStream, Reader!Stream
    <3> QED
      BY <1>4, <2>3, <2>9, <3>1, <3>5, <3>8
  <2> QED
    BY <2>8, <2>9
<1> QED
  BY <1>1, <1>3, <1>4 DEF ElementAt

LEMMA MessageEntered ==
  ASSUME Delivered, NEW n \in Nat, NEW e \in closed, NEW last \in Nat, last <= e.last,
         NEW outer, EnteredAt(outer, n, e, last, elements),
         e.kind = "message", ArgsStart(e) <= last,
         NEW ms, ms = << ArgStream(e, 0, 0, e.numTags, last) >>,
         NEW seen, seen = elements + 1
  PROVE  /\ InMessage(ms, outer, n, seen)
         /\ seen = Cardinality(Before(last))
         /\ seen = Rank(e)
<1>1. /\ InBundles(outer, n) /\ Len(outer) = Cardinality(Around(e))
      /\ last = Cursor(outer, n)
      /\ IF outer = << >> THEN e.slot = Null ELSE last = e.last
      /\ seen = Rank(e)
  BY DEF EnteredAt
<1>2. IsMessage(e) /\ MessageSizes(e) /\ WellFormed(e) /\ Len(e.put) = e.numTags
  BY MessageHeld
<1>3. e.numTags \in Nat /\ TagsStart(e) \in Nat /\ ArgsStart(e) \in Nat
      /\ ArgPos(e, 0) = ArgsStart(e)
  BY <1>2, ArgEnds DEF MessageSizes, IsMessage
<1>4. 0 \in 0 .. e.numTags /\ e.numTags \in 0 .. e.numTags
  BY <1>3
<1>5. \A i \in 0 .. e.numTags : Depth(e, i) >= 0
  <2> TAKE i \in 0 .. e.numTags
  <2>1. i \in Nat
    BY <1>3
  <2>2. Count(e.put, "[", i) \in Nat /\ Count(e.put, "]", i) \in Nat
    BY <2>1, CountNext
  <2>3. CASE i = 0
    <3>1. Count(e.put, "[", 0) = 0 /\ Count(e.put, "]", 0) = 0
      BY FS_EmptySet DEF Count
    <3> QED
      BY <2>3, <3>1 DEF Depth
  <2>4. CASE i # 0
    <3>1. DOMAIN e.put = 1 .. e.numTags
      BY <1>2, LenProperties DEF IsMessage
    <3>2. i \in DOMAIN e.put
      BY <1>3, <2>4, <3>1
    <3>3. Count(e.put, "[", i) >= Count(e.put, "]", i)
      BY <1>2, <3>2 DEF WellFormed
    <3> QED
      BY <2>2, <3>3 DEF Depth
  <2> QED
    BY <2>3, <2>4
<1>6. Depth(e, 0) = 0 /\ Depth(e, e.numTags) = 0
  <2>1. Count(e.put, "[", 0) = 0 /\ Count(e.put, "]", 0) = 0
    BY FS_EmptySet DEF Count
  <2>2. Count(e.put, "[", e.numTags) = Count(e.put, "]", e.numTags)
    BY <1>2 DEF WellFormed
  <2>3. Count(e.put, "[", e.numTags) \in Nat /\ Count(e.put, "]", e.numTags) \in Nat
    BY <1>3, CountNext
  <2> QED
    BY <2>1, <2>2, <2>3 DEF Depth
<1>7. Balanced(e, 0, e.numTags)
  BY <1>5, <1>6 DEF Balanced
<1>8. ArgsBetween(ms, last, e, 1, 0, 0, e.numTags)
  <2>1. ms[1] = ArgStream(e, 0, 0, e.numTags, last)
    OBVIOUS
  <2> QED
    BY <1>3, <1>7, <2>1 DEF ArgsBetween
<1>9. ReadsArgs(ms, last, e, 1)
  BY <1>4, <1>8 DEF ReadsArgs
<1>10. Len(ms) = 1 /\ ms # << >>
  OBVIOUS
<1>11. ReadsMessage(ms, outer, n, seen, e)
  <2>1. \A i \in 1 .. Len(ms) : ReadsArgs(ms, last, e, i)
    BY <1>9, <1>10
  <2> QED
    BY <1>1, <2>1 DEF ReadsMessage
<1>12. ms \in Seq([tags : Streams, args : Streams])
  <2>1. TagPos(e, 0) \in Nat /\ TagPos(e, e.numTags) \in Nat
    BY <1>3 DEF TagPos
  <2>2. ArgStream(e, 0, 0, e.numTags, last) \in [tags : Streams, args : Streams]
    BY <1>3, <2>1 DEF ArgStream, Streams
  <2> QED
    BY <2>2
<1>13. InMessage(ms, outer, n, seen)
  BY <1>11, <1>12 DEF InMessage
<1>14. seen = Cardinality(Before(last))
  <2>1. CASE last = e.last
    BY <1>1, <2>1, RanksAt
  <2>2. CASE outer = << >>
    <3>1. e.slot = Null
      BY <1>1, <2>2
    <3>2. PICK r \in closed : r.slot = Null /\ r.first = 0 /\ r.last = args.pos
                              /\ (r.kind = "message" => closed = {r})
      BY RootOf
    <3>3. ElementAt(e)
      BY ElementsPlaced
    <3>4. e.first = 0
      BY <3>1, <3>3 DEF ElementAt
    <3>5. e = r
      BY <3>2, <3>4, FirstsDiffer
    <3>6. closed = {e}
      BY <3>2, <3>5
    <3>7. 0 < last
      <4>1. /\ ArgsStart(e) = (e.first + SizeString(e.addr)) + Align(e.numTags + 2)
            /\ ArgsStart(e) <= last
        BY DEF ArgsStart, TagsStart
      <4>2. SizeString(e.addr) \in Nat /\ SizeString(e.addr) >= 4
        BY <1>2 DEF MessageSizes
      <4>3. Align(e.numTags + 2) \in Nat
        BY <1>2 DEF MessageSizes
      <4> QED
        BY <3>4, <4>1, <4>2, <4>3
    <3>8. Before(last) = {e} /\ UpTo(e) = {e}
      BY <3>4, <3>6, <3>7 DEF Before, UpTo
    <3>9. Rank(e) = Cardinality(UpTo(e))
      BY RankFinite
    <3> QED
      BY <1>1, <3>8, <3>9
  <2> QED
    BY <1>1, <2>1, <2>2
<1> QED
  BY <1>1, <1>13, <1>14

-----------------------------------------------------------------------------
(* Arguments: where the innermost stream is in its message.                *)
ArgStreams == [tags : Streams, args : Streams]

LEMMA CursorNat ==
  ASSUME NEW bs, NEW n \in Nat, InBundles(bs, n)
  PROVE  Cursor(bs, n) \in Nat /\ Len(bs) \in Nat
<1>1. bs \in Seq(Streams)
  BY DEF InBundles
<1>2. CASE bs = << >>
  BY <1>2 DEF Cursor
<1>3. CASE bs # << >>
  <2>1. bs[Len(bs)] \in Streams
    BY <1>1, <1>3, LastIs
  <2> QED
    BY <1>1, <1>3, <2>1 DEF Cursor, Streams
<1> QED
  BY <1>1, <1>2, <1>3

LEMMA TagRead ==
  ASSUME Delivered, NEW m \in closed, m.kind = "message",
         NEW k \in 0 .. m.numTags, k < m.numTags
  PROVE  Reader!CharAt(TagPos(m, k)) = m.put[k + 1].tag
<1> PICK j : j = k + 1
  OBVIOUS
<1>1. m.numTags \in Nat /\ MessageSizes(m)
  BY MessageHeld DEF IsMessage
<1>2. j \in 1 .. m.numTags /\ j \in Nat
  BY <1>1
<1>3. j < Align(m.numTags + 2)
  <2>1. Align(m.numTags + 2) \in Nat /\ Align(m.numTags + 2) >= m.numTags + 2
    BY <1>1 DEF MessageSizes
  <2> QED
    BY ONLY <1>1, <1>2, <2>1
<1>4. Reader!CharAt(TagsStart(m) + j) = TagAt(m, j + 1)
  BY <1>2, <1>3, CharsAre
<1>5. TagAt(m, j + 1) = m.put[j].tag
  BY <1>2, TagsAre
<1>6. TagPos(m, k) = TagsStart(m) + j
  <2>1. TagsStart(m) \in Int
    BY <1>1 DEF MessageSizes
  <2> QED
    BY <1>1, <2>1 DEF TagPos
<1> QED
  BY <1>4, <1>5, <1>6

(* A message that is not in a bundle is the whole packet.                  *)
LEMMA RootMessage ==
  ASSUME Delivered, NEW m \in closed, m.slot = Null
  PROVE  m.last = args.pos
<1>1. PICK r \in closed : r.first = 0 /\ r.last = args.pos
  BY RootOf
<1>2. ElementAt(m)
  BY ElementsPlaced
<1>3. m.first = 0
  BY <1>2 DEF ElementAt
<1>4. m = r
  BY <1>1, <1>3, FirstsDiffer
<1> QED
  BY <1>1, <1>4

LEMMA StreamAt ==
  ASSUME Delivered, NEW n \in Nat, NEW bs, InBundles(bs, n), NEW ms, NEW seen,
         NEW m \in closed, ReadsMessage(ms, bs, n, seen, m), NEW i, i = Len(ms), i \in Nat, i >= 1,
         NEW b \in 0 .. m.numTags, NEW k \in 0 .. m.numTags, NEW e \in 0 .. m.numTags,
         ArgsBetween(ms, Cursor(bs, n), m, i, b, k, e)
  PROVE  /\ ms[i].tags.pos = TagPos(m, k) /\ ms[i].tags.end = TagPos(m, e)
         /\ ms[i].args.pos = ArgPos(m, k) /\ ms[i].args.end \in Nat
         /\ ArgPos(m, k) <= ms[i].args.end
         /\ ms[i].tags.pos = ms[i].tags.end <=> k = e
         /\ ms[1].tags.begin = TagPos(m, 0)
         /\ i > 1 => ms[i].args.end = ArgPos(m, e)
         /\ n = args.pos => ArgPos(m, e) <= ms[i].args.end
         /\ n = args.pos /\ k = e => ms[i].args.pos = ms[i].args.end
         /\ m.numTags \in Nat /\ TagsStart(m) \in Nat
<1>1. /\ m.kind = "message"
      /\ IF bs = << >> THEN m.slot = Null ELSE m.last = Cursor(bs, n)
      /\ \A h \in 1 .. Len(ms) : ReadsArgs(ms, Cursor(bs, n), m, h)
  BY DEF ReadsMessage
<1>2. m.numTags \in Nat /\ TagsStart(m) \in Nat
  BY <1>1, MessageHeld DEF IsMessage, MessageSizes
<1> PICK cursor : cursor = Cursor(bs, n)
  OBVIOUS
<1>3. cursor \in Nat
  BY CursorNat
<1>4. ArgPos(m, b) \in Nat /\ ArgPos(m, k) \in Nat /\ ArgPos(m, e) \in Nat
  BY <1>1, ArgEnds
<1>5. /\ b <= k /\ k <= e
      /\ IF i = 1 THEN /\ b = 0 /\ e = m.numTags
                       /\ ms[i] = ArgStream(m, b, k, e, cursor)
                       /\ ArgPos(m, k) <= cursor
                  ELSE ms[i] = ArgStream(m, b, k, e, ArgPos(m, e))
  BY DEF ArgsBetween
<1>6. ArgPos(m, k) <= ArgPos(m, e)
  BY <1>1, <1>5, ArgsInOrder
<1> PICK end : end = IF i = 1 THEN cursor ELSE ArgPos(m, e)
  OBVIOUS
<1>7. ms[i] = ArgStream(m, b, k, e, end) /\ end \in Nat /\ ArgPos(m, k) <= end
  BY <1>3, <1>4, <1>5, <1>6
<1>8. /\ ms[i].tags.pos = TagPos(m, k) /\ ms[i].tags.end = TagPos(m, e)
      /\ ms[i].args.pos = ArgPos(m, k) /\ ms[i].args.end = end
  BY <1>7 DEF ArgStream
<1>9. TagPos(m, k) = TagPos(m, e) <=> k = e
  BY <1>2 DEF TagPos
<1>10. ms[1].tags.begin = TagPos(m, 0)
  <2>1. 1 \in 1 .. Len(ms)
    BY <1>2
  <2>2. ReadsArgs(ms, cursor, m, 1)
    BY <1>1, <2>1
  <2>3. PICK c \in 0 .. m.numTags : \E g \in 0 .. m.numTags : \E f \in 0 .. m.numTags :
          ArgsBetween(ms, cursor, m, 1, c, g, f)
    BY <2>2 DEF ReadsArgs
  <2>4. PICK g \in 0 .. m.numTags : \E f \in 0 .. m.numTags :
          ArgsBetween(ms, cursor, m, 1, c, g, f)
    BY <2>3
  <2>5. PICK f \in 0 .. m.numTags : ArgsBetween(ms, cursor, m, 1, c, g, f)
    BY <2>4
  <2>6. c = 0 /\ ms[1] = ArgStream(m, c, g, f, cursor)
    BY <2>5 DEF ArgsBetween
  <2> QED
    BY <2>6 DEF ArgStream
<1>11. ASSUME n = args.pos
       PROVE  end = ArgPos(m, e)
  <2>1. CASE i = 1
    <3>1. ArgPos(m, e) = m.last
      BY <1>1, <1>5, <2>1, ArgEnds
    <3>2. m.last = cursor
      BY <1>1, <1>11, RootMessage DEF Cursor
    <3> QED
      BY <2>1, <3>1, <3>2
  <2> QED
    BY <2>1
<1>12. i > 1 => end = ArgPos(m, e)
  OBVIOUS
<1>13. n = args.pos => ArgPos(m, e) <= end
  BY <1>4, <1>11
<1>14. n = args.pos /\ k = e => ArgPos(m, k) = end
  BY <1>11
<1> QED
  BY <1>2, <1>7, <1>8, <1>9, <1>10, <1>12, <1>13, <1>14

(* The two positions of the innermost stream are moved.                    *)
ArgsAt(as, ms, i, t, a) ==
  /\ as \in Seq(ArgStreams) /\ Len(as) = i
  /\ \A h \in 1 .. i - 1 : as[h] = ms[h]
  /\ as[i] = [tags |-> [begin |-> ms[i].tags.begin, pos |-> t, end |-> ms[i].tags.end],
              args |-> [begin |-> ms[i].args.begin, pos |-> a, end |-> ms[i].args.end]]

LEMMA StreamAdvanced ==
  ASSUME NEW r \in Streams, NEW p
  PROVE  [r EXCEPT !.pos = p] = [begin |-> r.begin, pos |-> p, end |-> r.end]
BY DEF Streams

LEMMA AdvancedIs ==
  ASSUME NEW ms \in Seq(ArgStreams), NEW i, i = Len(ms), i >= 1, NEW t \in Nat, NEW a \in Nat
  PROVE  ArgsAt([ms EXCEPT ![i].tags.pos = t, ![i].args.pos = a], ms, i, t, a)
<1> PICK x : x = [ms[i] EXCEPT !.tags.pos = t, !.args.pos = a]
  OBVIOUS
<1> PICK as : as = [ms EXCEPT ![i] = x]
  OBVIOUS
<1>1. i \in Nat /\ i \in 1 .. Len(ms) /\ ms[i] \in ArgStreams
  BY ElementOfSeq
<1>2. as = [ms EXCEPT ![i].tags.pos = t, ![i].args.pos = a]
  BY <1>1
<1>3. x \in ArgStreams
  BY <1>1 DEF ArgStreams, Streams
<1>9. x = [tags |-> [begin |-> ms[i].tags.begin, pos |-> t, end |-> ms[i].tags.end],
           args |-> [begin |-> ms[i].args.begin, pos |-> a, end |-> ms[i].args.end]]
  <2>1. x = [tags |-> [ms[i].tags EXCEPT !.pos = t], args |-> [ms[i].args EXCEPT !.pos = a]]
    BY <1>1 DEF ArgStreams
  <2>2. ms[i].tags \in Streams /\ ms[i].args \in Streams
    BY <1>1 DEF ArgStreams
  <2>3. /\ [ms[i].tags EXCEPT !.pos = t]
             = [begin |-> ms[i].tags.begin, pos |-> t, end |-> ms[i].tags.end]
        /\ [ms[i].args EXCEPT !.pos = a]
             = [begin |-> ms[i].args.begin, pos |-> a, end |-> ms[i].args.end]
    BY ONLY <2>2, StreamAdvanced
  <2> QED
    BY <2>1, <2>3
<1>4. /\ as \in Seq(ArgStreams) /\ Len(as) = Len(ms)
      /\ \A j \in 1 .. Len(ms) : as[j] = IF j = i THEN x ELSE ms[j]
  BY <1>1, <1>3, ExceptSeq
<1>5. \A h \in 1 .. i - 1 : h \in 1 .. Len(ms) /\ h # i
  BY <1>1
<1>6. \A h \in 1 .. i - 1 : as[h] = ms[h]
  BY <1>4, <1>5
<1>7. as[i] = x
  BY <1>1, <1>4
<1>8. ArgsAt(as, ms, i, t, a)
  BY <1>4, <1>6, <1>7, <1>9 DEF ArgsAt
<1> QED
  BY <1>2, <1>8

(* The streams around keep their places.                                   *)
LEMMA ArgsKept ==
  ASSUME NEW ms, NEW as, NEW cursor, NEW m, NEW h \in Nat, as[h] = ms[h],
         h # 1 => as[h - 1] = ms[h - 1], ReadsArgs(ms, cursor, m, h)
  PROVE  ReadsArgs(as, cursor, m, h)
BY DEF ReadsArgs, ArgsBetween


LEMMA ArgsMoved ==
  ASSUME Delivered, NEW n \in Nat, NEW bs, InBundles(bs, n), NEW ms, NEW seen,
         InMessage(ms, bs, n, seen),
         NEW m \in closed, ReadsMessage(ms, bs, n, seen, m), NEW i, i = Len(ms), i \in Nat, i >= 1,
         NEW b \in 0 .. m.numTags, NEW k \in 0 .. m.numTags, NEW e \in 0 .. m.numTags,
         ArgsBetween(ms, Cursor(bs, n), m, i, b, k, e),
         NEW j \in 0 .. m.numTags, k <= j, j <= e, ArgPos(m, j) <= ms[i].args.end,
         NEW as, ArgsAt(as, ms, i, TagPos(m, j), ArgPos(m, j))
  PROVE  ReadsMessage(as, bs, n, seen, m) /\ InMessage(as, bs, n, seen)
<1>1. /\ as \in Seq(ArgStreams) /\ Len(as) = i
      /\ \A h \in 1 .. i - 1 : as[h] = ms[h]
      /\ as[i] = [tags |-> [begin |-> ms[i].tags.begin, pos |-> TagPos(m, j), end |-> ms[i].tags.end],
                  args |-> [begin |-> ms[i].args.begin, pos |-> ArgPos(m, j), end |-> ms[i].args.end]]
  BY DEF ArgsAt
<1> PICK cursor : cursor = Cursor(bs, n)
  OBVIOUS
<1>2. /\ m.kind = "message" /\ Rank(m) = seen
      /\ IF bs = << >> THEN m.slot = Null ELSE m.last = cursor
      /\ \A h \in 1 .. i : ReadsArgs(ms, cursor, m, h)
  BY DEF ReadsMessage
<1>3. ASSUME NEW h \in 1 .. i, h # i
      PROVE  ReadsArgs(as, cursor, m, h)
  <2>1. h \in Nat /\ h \in 1 .. i - 1 /\ (h # 1 => h - 1 \in 1 .. i - 1)
    BY <1>3
  <2>2. as[h] = ms[h] /\ (h # 1 => as[h - 1] = ms[h - 1])
    BY <1>1, <2>1
  <2>3. ReadsArgs(ms, cursor, m, h)
    BY <1>2
  <2> QED
    BY <2>1, <2>2, <2>3, ArgsKept
<1> PICK end : end = IF i = 1 THEN cursor ELSE ArgPos(m, e)
  OBVIOUS
<1>4. /\ b <= k /\ k <= e /\ Balanced(m, b, e)
      /\ ms[i] = ArgStream(m, b, k, e, end)
      /\ i = 1 => b = 0 /\ e = m.numTags
      /\ i # 1 => ms[i - 1].tags.pos = TagPos(m, e + 1) /\ ms[i - 1].args.pos = ArgPos(m, e)
  BY DEF ArgsBetween
<1>5. as[i] = ArgStream(m, b, j, e, end) /\ ArgPos(m, j) <= end
  <2>1. ms[i].args.end = end
    BY <1>4 DEF ArgStream
  <2>2. ArgPos(m, j) <= end
    BY <2>1
  <2>3. as[i] = ArgStream(m, b, j, e, end)
    <3>1. /\ ms[i].tags.begin = TagPos(m, b) /\ ms[i].tags.end = TagPos(m, e)
          /\ ms[i].args.begin = ArgPos(m, b)
      BY <1>4 DEF ArgStream
    <3> QED
      BY <1>1, <2>1, <3>1 DEF ArgStream
  <2> QED
    BY <2>2, <2>3
<1>6. b <= j
  <2>1. m.numTags \in Nat
    BY <1>2, MessageHeld DEF IsMessage
  <2> QED
    BY <1>4, <2>1
<1>7. i # 1 => as[i - 1] = ms[i - 1]
  <2>1. i # 1 => i - 1 \in 1 .. i - 1
    OBVIOUS
  <2> QED
    BY <1>1, <2>1
<1>8. ArgsBetween(as, cursor, m, i, b, j, e)
  BY <1>4, <1>5, <1>6, <1>7 DEF ArgsBetween
<1>9. ReadsArgs(as, cursor, m, i)
  BY <1>8 DEF ReadsArgs
<1>10. \A h \in 1 .. Len(as) : ReadsArgs(as, cursor, m, h)
  BY <1>1, <1>3, <1>9
<1>11. ReadsMessage(as, bs, n, seen, m)
  BY <1>2, <1>10 DEF ReadsMessage
<1> QED
  BY <1>1, <1>11 DEF InMessage, ArgStreams

LEMMA OneMore ==
  ASSUME NEW i \in Nat, i >= 1
  PROVE  /\ \A f \in 1 .. i : f \in Nat /\ (f # 1 => f - 1 \in 1 .. i)
         /\ \A f \in 1 .. i + 1 : f \in 1 .. i \/ f = i + 1
         /\ i + 1 # 1 /\ (i + 1) - 1 = i /\ i \in 1 .. i
OBVIOUS

(* An array is entered: arguments h + 1 .. j - 1, where the stream around  *)
(* goes on behind the bracket that is argument j.                          *)
LEMMA ArgsEntered ==
  ASSUME Delivered, NEW n \in Nat, NEW bs, InBundles(bs, n), NEW as, NEW seen,
         InMessage(as, bs, n, seen),
         NEW m \in closed, ReadsMessage(as, bs, n, seen, m), NEW i, i = Len(as), i \in Nat, i >= 1,
         NEW h \in 0 .. m.numTags, NEW g \in 0 .. m.numTags, h <= g, Balanced(m, h, g),
         NEW j, j = g + 1, as[i].tags.pos = TagPos(m, j), as[i].args.pos = ArgPos(m, g),
         NEW s, s = ArgStream(m, h, h, g, ArgPos(m, g))
  PROVE  InMessage(Append(as, s), bs, n, seen)
<1> PICK cursor : cursor = Cursor(bs, n)
  OBVIOUS
<1>1. /\ m.kind = "message" /\ Rank(m) = seen
      /\ IF bs = << >> THEN m.slot = Null ELSE m.last = cursor
      /\ \A f \in 1 .. i : ReadsArgs(as, cursor, m, f)
  BY DEF ReadsMessage
<1>2. as \in Seq(ArgStreams)
  BY DEF InMessage, ArgStreams
<1>3. s \in ArgStreams
  <2>1. m.numTags \in Nat /\ TagsStart(m) \in Nat
    BY <1>1, MessageHeld DEF IsMessage, MessageSizes
  <2>2. ArgPos(m, h) \in Nat /\ ArgPos(m, g) \in Nat
    BY <1>1, ArgEnds
  <2>3. TagPos(m, h) \in Nat /\ TagPos(m, g) \in Nat
    BY <2>1 DEF TagPos
  <2> QED
    BY <2>2, <2>3 DEF ArgStream, ArgStreams, Streams
<1> PICK ms : ms = Append(as, s)
  OBVIOUS
<1>4. /\ ms \in Seq(ArgStreams) /\ Len(ms) = i + 1
      /\ \A f \in 1 .. i : ms[f] = as[f]
      /\ ms[i + 1] = s
      /\ \A f \in 1 .. i : f \in Nat /\ (f # 1 => f - 1 \in 1 .. i)
      /\ \A f \in 1 .. i + 1 : f \in 1 .. i \/ f = i + 1
      /\ i + 1 # 1 /\ (i + 1) - 1 = i /\ i \in 1 .. i
  <2>1. /\ ms \in Seq(ArgStreams) /\ Len(ms) = i + 1
        /\ \A f \in 1 .. i : ms[f] = as[f]
        /\ ms[i + 1] = s
    <3>1. /\ Append(as, s) \in Seq(ArgStreams)
          /\ Append(as, s) # << >>
          /\ Len(Append(as, s)) = Len(as) + 1
          /\ \A f \in 1 .. Len(as) : Append(as, s)[f] = as[f]
          /\ Append(as, s)[Len(as) + 1] = s
      BY ONLY <1>2, <1>3, AppendProperties, Zenon
    <3> QED
      BY <3>1, Zenon
  <2>2. /\ \A f \in 1 .. i : f \in Nat /\ (f # 1 => f - 1 \in 1 .. i)
        /\ \A f \in 1 .. i + 1 : f \in 1 .. i \/ f = i + 1
        /\ i + 1 # 1 /\ (i + 1) - 1 = i /\ i \in 1 .. i
    BY OneMore
  <2> QED
    BY <2>1, <2>2
<1>5. ASSUME NEW f \in 1 .. i
      PROVE  ReadsArgs(ms, cursor, m, f)
  <2>1. f \in Nat /\ (f # 1 => f - 1 \in 1 .. i)
    BY <1>4
  <2>2. ms[f] = as[f] /\ (f # 1 => ms[f - 1] = as[f - 1])
    BY <1>4, <2>1
  <2>3. ReadsArgs(as, cursor, m, f)
    BY <1>1
  <2> QED
    BY <2>1, <2>2, <2>3, ArgsKept
<1>6. ReadsArgs(ms, cursor, m, i + 1)
  <2> PICK f : f = i + 1
    OBVIOUS
  <2>1. f # 1 /\ f - 1 = i /\ i \in 1 .. i
    BY <1>4
  <2>2. ms[f - 1] = as[i] /\ ms[f] = s
    BY <1>4, <2>1
  <2>3. h <= h
    <3>1. m.numTags \in Nat
      BY <1>1, MessageHeld DEF IsMessage
    <3> QED
      BY <3>1
  <2>4. ArgsBetween(ms, cursor, m, f, h, h, g)
    BY <2>1, <2>2, <2>3 DEF ArgsBetween
  <2>5. ReadsArgs(ms, cursor, m, f)
    BY <2>4 DEF ReadsArgs
  <2> QED
    BY <2>5
<1>7. \A f \in 1 .. Len(ms) : ReadsArgs(ms, cursor, m, f)
  BY <1>4, <1>5, <1>6
<1>8. ReadsMessage(ms, bs, n, seen, m)
  BY <1>1, <1>7 DEF ReadsMessage
<1> QED
  BY <1>4, <1>8 DEF InMessage, ArgStreams

LEMMA ArgsLeft ==
  ASSUME NEW n, NEW bs, NEW ms, NEW seen, InMessage(ms, bs, n, seen), NEW i, i = Len(ms), i >= 1,
         NEW as, as = SubSeq(ms, 1, i - 1)
  PROVE  InMessage(as, bs, n, seen)
<1>1. ms \in Seq(ArgStreams) /\ i \in Nat /\ ms # << >>
  BY DEF InMessage, ArgStreams
<1>2. as \in Seq(ArgStreams) /\ Len(as) = i - 1 /\ \A h \in 1 .. i - 1 : as[h] = ms[h]
  BY <1>1, FrontIs
<1>3. PICK m \in closed : ReadsMessage(ms, bs, n, seen, m)
  BY <1>1 DEF InMessage
<1> PICK cursor : cursor = Cursor(bs, n)
  OBVIOUS
<1>4. /\ m.kind = "message" /\ Rank(m) = seen
      /\ IF bs = << >> THEN m.slot = Null ELSE m.last = cursor
      /\ \A h \in 1 .. i : ReadsArgs(ms, cursor, m, h)
  BY <1>3 DEF ReadsMessage
<1>5. ASSUME NEW h \in 1 .. i - 1
      PROVE  ReadsArgs(as, cursor, m, h)
  <2>1. h \in Nat /\ h \in 1 .. i /\ (h # 1 => h - 1 \in 1 .. i - 1)
    BY <1>1
  <2>2. as[h] = ms[h] /\ (h # 1 => as[h - 1] = ms[h - 1])
    BY <1>2, <2>1
  <2>3. ReadsArgs(ms, cursor, m, h)
    BY <1>4, <2>1
  <2> QED
    BY <2>1, <2>2, <2>3, ArgsKept
<1>6. ReadsMessage(as, bs, n, seen, m)
  BY <1>2, <1>4, <1>5 DEF ReadsMessage
<1> QED
  BY <1>2, <1>6 DEF InMessage, ArgStreams

-----------------------------------------------------------------------------
(***************************************************************************)
(* Every call keeps the reader where the packet says.                      *)
(***************************************************************************)
ReadsNow == Reads(length, bundles, message, ok, elements, result)
ReadsNext == Reads(length', bundles', message', ok', elements', result')

LEMMA NoMessage ==
  ASSUME NEW bs, NEW n, NEW seen
  PROVE  InMessage(<< >>, bs, n, seen)
BY DEF InMessage

LEMMA NoBundles ==
  ASSUME NEW n
  PROVE  InBundles(<< >>, n) /\ Cursor(<< >>, n) = n
BY DEF InBundles, Cursor

(* What a reader in d bundles gets of the element it enters.               *)
Entered(d, e) ==
  /\ d = Cardinality(Around(e)) /\ Len(bundles') = Level(e)
  /\ elements' = Rank(e) /\ result'.tag = e.kind /\ result'.value = Heading(e)
  /\ IF e.kind = "bundle" THEN message' = << >>
     ELSE Len(message') = 1 /\ message'[1].tags.pos = TagPos(e, 0)

LEMMA EnterReads ==
  ASSUME Delivered, NEW n \in Nat, n <= args.pos, NEW e \in closed,
         NEW last \in Nat, last <= e.last,
         NEW outer, EnteredAt(outer, n, e, last, elements), message = << >>,
         Reader!EnterBundle(outer, e.first, last) \/ Reader!EnterMessage(outer, e.first, last)
  PROVE  \/ Reader!Throw /\ last # e.last
         \/ /\ Reads(n, bundles', message', ok', elements', result')
            /\ Entered(Len(outer), e)
<1>1. CASE Reader!EnterBundle(outer, e.first, last)
  <2>1. /\ InBundles(bundles', n)
        /\ elements' = Cardinality(Before(Cursor(bundles', n)))
        /\ message' = << >>
        /\ ok' = TRUE
        /\ Returned(result', bundles', e)
    BY <1>1, BundleEntered
  <2>2. InMessage(message', bundles', n, elements')
    BY <2>1, NoMessage
  <2>3. Reads(n, bundles', message', ok', elements', result')
    BY <2>1, <2>2 DEF Reads
  <2>4. result'.index = 0 /\ result'.tag = "bundle"
    BY <1>1 DEF Reader!EnterBundle, Reader!Return
  <2>5. /\ result'.element = Rank(e) /\ result'.tag = e.kind /\ result'.value = Heading(e)
        /\ Len(bundles') = Cardinality(Around(e)) + (IF e.kind = "bundle" THEN 1 ELSE 0)
    BY <2>1, <2>4 DEF Returned
  <2>6. elements' = Rank(e) /\ Len(outer) = Cardinality(Around(e))
    BY <1>1, <2>5 DEF Reader!EnterBundle, Reader!Return, EnteredAt
  <2>7. Entered(Len(outer), e)
    BY <2>1, <2>4, <2>5, <2>6 DEF Entered, Level
  <2> QED
    BY <2>3, <2>7
<1>2. CASE Reader!EnterMessage(outer, e.first, last)
  <2>1. CASE Reader!Throw /\ last # e.last
    BY <2>1
  <2>2. CASE /\ e.kind = "message" /\ ArgsStart(e) <= last
             /\ elements' = elements + 1
             /\ bundles' = outer
             /\ message' = << ArgStream(e, 0, 0, e.numTags, last) >>
             /\ ok' = TRUE
             /\ result' = [element |-> elements', index |-> 0, tag |-> "message",
                           value |-> StringWords(e.addr)]
    <3> PICK ms : ms = << ArgStream(e, 0, 0, e.numTags, last) >>
      OBVIOUS
    <3> PICK seen : seen = elements + 1
      OBVIOUS
    <3>1. /\ InMessage(ms, outer, n, seen)
          /\ seen = Cardinality(Before(last))
          /\ seen = Rank(e)
      BY <2>2, MessageEntered
    <3>2. /\ InBundles(outer, n) /\ last = Cursor(outer, n)
          /\ Len(outer) = Cardinality(Around(e))
      BY DEF EnteredAt
    <3>3. Returned(result', outer, e)
      <4>1. Cardinality(Around(e)) + 0 = Cardinality(Around(e))
        BY RankFinite
      <4> QED
        BY <2>2, <3>1, <3>2, <4>1 DEF Returned, Heading
    <3>4. seen = elements' /\ ms = message' /\ outer = bundles'
      BY <2>2
    <3>5. /\ InMessage(message', bundles', n, elements')
          /\ elements' = Cardinality(Before(Cursor(bundles', n)))
          /\ InBundles(bundles', n)
          /\ Returned(result', bundles', e)
      BY <3>1, <3>2, <3>3, <3>4
    <3>6. Reads(n, bundles', message', ok', elements', result')
      BY <2>2, <3>5 DEF Reads
    <3>7. Len(message') = 1 /\ message'[1].tags.pos = TagPos(e, 0)
      BY <2>2 DEF ArgStream
    <3>8. Len(bundles') = Level(e)
      <4>1. Cardinality(Around(e)) + 0 = Cardinality(Around(e))
        BY RankFinite
      <4> QED
        BY <2>2, <3>2, <4>1 DEF Level
    <3>9. result'.tag = e.kind /\ result'.value = Heading(e)
      BY <2>2 DEF Heading
    <3>10. Entered(Len(outer), e)
      BY <2>2, <3>1, <3>2, <3>4, <3>7, <3>8, <3>9 DEF Entered
    <3> QED
      BY <3>6, <3>10
  <2> QED
    BY <1>2, <2>1, <2>2, MessageEnters
<1> QED
  BY <1>1, <1>2

LEMMA BeginReads ==
  ASSUME Delivered, Reader!Idle, NEW n \in Nat, n <= args.pos, Reader!Begin(n)
  PROVE  /\ length' = n /\ Reads(n, bundles', message', ok', elements', result')
         /\ \/ Reader!Throw
            \/ \E e \in closed : Entered(0, e)
<1>1. bundles = << >> /\ message = << >> /\ elements = 0
  BY DEF Reader!Idle
<1>2. PICK r \in closed : /\ r.slot = Null /\ r.first = 0 /\ r.last = args.pos
                          /\ Cardinality(Around(r)) = 0
                          /\ Rank(r) = 1
  BY RootOf
<1>3. /\ length' = n
      /\ Reader!EnterBundle(<< >>, r.first, n) \/ Reader!EnterMessage(<< >>, r.first, n)
  BY <1>2 DEF Reader!Begin
<1>4. EnteredAt(<< >>, n, r, n, elements)
  BY <1>1, <1>2, NoBundles DEF EnteredAt
<1>5. CASE Reader!Throw /\ n # r.last
  <2>1. /\ bundles' = << >> /\ message' = << >> /\ ok' = FALSE /\ result' = Null
        /\ n # args.pos
    BY <1>1, <1>2, <1>5 DEF Reader!Throw
  <2>2. InBundles(bundles', n) /\ InMessage(message', bundles', n, elements')
    BY <2>1, NoBundles, NoMessage
  <2>3. Reads(n, bundles', message', ok', elements', result')
    BY <2>1, <2>2 DEF Reads
  <2> QED
    BY <1>3, <1>5, <2>3
<1>6. CASE /\ Reads(n, bundles', message', ok', elements', result')
           /\ Entered(Len(<< >>), r)
  <2>1. Entered(0, r)
    BY <1>6
  <2> QED
    BY <1>3, <1>6, <2>1
<1>7. n <= r.last
  BY <1>2
<1> QED
  BY <1>1, <1>3, <1>4, <1>5, <1>6, <1>7, EnterReads

LEMMA ThrowReads ==
  ASSUME ReadsNow, length # args.pos, length' = length, Reader!Throw
  PROVE  ReadsNext
<1>1. /\ bundles' = bundles /\ message' = message /\ elements' = elements
      /\ ok' = FALSE /\ result' = Null
  BY DEF Reader!Throw
<1>2. /\ length \in Nat /\ length <= args.pos
      /\ InBundles(bundles, length)
      /\ InMessage(message, bundles, length, elements)
  BY DEF ReadsNow, Reads
<1> QED
  BY <1>1, <1>2 DEF ReadsNext, Reads

LEMMA NextPacketReads ==
  ASSUME Delivered, ReadsNow, Reader!NextPacket
  PROVE  /\ ReadsNext
         /\ Reader!Throw \/ \E e \in closed : Entered(Len(bundles), e)
<1>1. /\ length \in Nat /\ length <= args.pos
      /\ InBundles(bundles, length)
      /\ ok \in BOOLEAN
      /\ ok = TRUE => elements = Cardinality(Before(Cursor(bundles, length)))
  BY DEF ReadsNow, Reads
<1> PICK k : k = Len(bundles)
  OBVIOUS
<1> PICK n : n = length
  OBVIOUS
<1>2. bundles \in Seq(Streams)
  BY <1>1 DEF InBundles
<1>3. /\ ok = TRUE /\ message = << >> /\ bundles # << >> /\ bundles[k].pos # bundles[k].end
      /\ length' = length
  BY <1>1 DEF Reader!NextPacket, Reader!reading, Reader!AtEnd, Reader!innermost
<1>4. k \in Nat /\ k >= 1 /\ bundles[k] \in Streams
  BY <1>2, <1>3, LastIs
<1> PICK pos : pos = bundles[k].pos
  OBVIOUS
<1> PICK end : end = bundles[k].end
  OBVIOUS
<1> PICK first : first = pos + 4
  OBVIOUS
<1> PICK last : last = first + Reader!Number(pos)
  OBVIOUS
<1> PICK as : as = [bundles EXCEPT ![k].pos = last]
  OBVIOUS
<1>5. IF Reader!Readable(pos, 4, end) /\ last <= end
      THEN Reader!EnterBundle(as, first, last) \/ Reader!EnterMessage(as, first, last)
      ELSE Reader!Throw
  BY DEF Reader!NextPacket, Reader!innermost
<1>6. \E b, e \in closed :
        /\ ReadsBundle(bundles, n, k, b)
        /\ Holding(b, e)
        /\ e.slot = bundles[k].pos /\ e.slot \in Nat /\ e.first = e.slot + 4
        /\ Reader!Number(e.slot) = e.last - e.first
        /\ e.first \in Nat /\ e.last \in Nat /\ e.first + 8 <= e.last
        /\ n = args.pos => e.last <= bundles[k].end
  BY <1>1, <1>3, <1>4, ElementFound
<1>7. PICK b, e \in closed :
        /\ ReadsBundle(bundles, n, k, b)
        /\ Holding(b, e)
        /\ e.slot = pos /\ e.slot \in Nat /\ e.first = e.slot + 4
        /\ Reader!Number(e.slot) = e.last - e.first
        /\ e.first \in Nat /\ e.last \in Nat /\ e.first + 8 <= e.last
        /\ n = args.pos => e.last <= end
  BY <1>6
<1>8. first = e.first /\ last = e.last
  <2>1. first = e.first /\ Reader!Number(pos) = e.last - e.first
    BY <1>7
  <2> QED
    BY <1>7, <2>1
<1>9. CASE ~(Reader!Readable(pos, 4, end) /\ last <= end)
  <2>1. ASSUME n = args.pos
        PROVE  FALSE
    <3>1. last <= end
      BY <1>7, <1>8, <2>1
    <3>2. end \in Nat
      BY <1>4 DEF Streams
    <3>3. pos + 4 <= end
      <4> PICK from : from = e.first
        OBVIOUS
      <4> PICK to : to = e.last
        OBVIOUS
      <4>1. from \in Nat /\ to \in Nat /\ from + 8 <= to
        BY <1>7
      <4>2. pos + 4 = from /\ to <= end
        BY <1>8, <3>1
      <4> QED
        BY ONLY <3>2, <4>1, <4>2
    <3> QED
      BY <1>9, <3>1, <3>3 DEF Reader!Readable
  <2>2. Reader!Throw
    BY <1>5, <1>9
  <2>3. ReadsNext
    BY <1>3, <2>1, <2>2, ThrowReads
  <2> QED
    BY <2>2, <2>3
<1>10. CASE Reader!Readable(pos, 4, end) /\ last <= end
  <2>1. Reader!EnterBundle(as, e.first, last) \/ Reader!EnterMessage(as, e.first, last)
    BY <1>5, <1>8, <1>10
  <2>2. Moved(as, bundles, k, e.last)
    <3>1. Moved([bundles EXCEPT ![k].pos = last], bundles, k, last)
      BY <1>2, <1>4, <1>7, <1>8, MovedIs
    <3> QED
      BY <1>8, <3>1
  <2>3. e.last <= bundles[k].end /\ e.slot = bundles[k].pos
    BY <1>7, <1>8, <1>10
  <2>4. InBundles(as, n)
    BY <1>1, <1>4, <1>7, <2>2, <2>3, BundlesMoved
  <2>5. as \in Seq(Streams) /\ Len(as) = k /\ as[k].pos = e.last
    BY <2>2 DEF Moved
  <2>6. Cursor(as, n) = e.last /\ as # << >>
    <3>1. k = Len(as)
      BY <2>5
    <3>2. Cursor(as, n) = IF k = 0 THEN n ELSE as[k].pos
      BY ONLY <2>5, <3>1, CursorAt, Zenon
    <3>3. as = << >> => Len(as) = 0
      BY EmptySeq
    <3> QED
      BY <1>4, <2>5, <3>2, <3>3
  <2>7. Cardinality(Around(e)) = k
    <3>1. Cardinality(Around(b)) = k - 1
      BY <1>7 DEF ReadsBundle
    <3>2. \A f \in closed : Holding(b, f) => f.last <= e.slot \/ e.slot <= f.slot
      BY <1>7, <2>3 DEF ReadsBundle, Between
    <3>3. Cardinality(Around(e)) = Cardinality(Around(b)) + 1
      BY <1>7, <3>2, AroundInside
    <3> QED
      BY <1>4, <3>1, <3>3
  <2>8. elements + 1 = Rank(e)
    <3>1. Cursor(bundles, length) = IF k = 0 THEN length ELSE bundles[k].pos
      BY <1>2, CursorAt
    <3>2. Cursor(bundles, length) = e.slot
      BY <1>4, <2>3, <3>1
    <3>3. e.slot # Null
      BY <1>7, CallerAssumption
    <3>4. Rank(e) = Cardinality(Before(e.slot)) + 1
      BY <3>3, RanksAt
    <3> QED
      BY <1>1, <1>3, <3>2, <3>4
  <2>9. EnteredAt(as, n, e, last, elements)
    BY <1>8, <2>4, <2>5, <2>6, <2>7, <2>8 DEF EnteredAt
  <2>10. \/ Reader!Throw /\ last # e.last
         \/ /\ Reads(n, bundles', message', ok', elements', result')
            /\ Entered(Len(as), e)
    <3>1. n \in Nat /\ n <= args.pos /\ last \in Nat /\ last <= e.last /\ message = << >>
      BY <1>1, <1>3, <1>7, <1>8
    <3> QED
      BY <2>1, <2>9, <3>1, EnterReads
  <2>11. Entered(Len(bundles), e) /\ Reads(n, bundles', message', ok', elements', result')
    BY <1>8, <2>5, <2>10
  <2> QED
    BY <1>3, <2>11 DEF ReadsNext
<1> QED
  BY <1>9, <1>10

LEMMA LeaveBundleReads ==
  ASSUME Delivered, ReadsNow, Reader!LeaveBundle
  PROVE  ReadsNext
<1>1. /\ length \in Nat /\ length <= args.pos
      /\ InBundles(bundles, length)
      /\ ok \in BOOLEAN
      /\ ok = TRUE => elements = Cardinality(Before(Cursor(bundles, length)))
      /\ length = args.pos => ok = TRUE
  BY DEF ReadsNow, Reads
<1> PICK k : k = Len(bundles)
  OBVIOUS
<1>2. bundles \in Seq(Streams)
  BY <1>1 DEF InBundles
<1>3. /\ message = << >> /\ bundles # << >> /\ bundles[k].pos = bundles[k].end
      /\ bundles' = SubSeq(bundles, 1, k - 1)
      /\ result' = Null
      /\ length' = length /\ message' = message /\ ok' = ok /\ elements' = elements
  BY DEF Reader!LeaveBundle, Reader!AtEnd, Reader!innermost
<1>4. k \in Nat /\ k >= 1
  BY <1>2, <1>3, LastIs
<1> PICK as : as = SubSeq(bundles, 1, k - 1)
  OBVIOUS
<1>5. InBundles(as, length) /\ Cursor(as, length) = Cursor(bundles, length)
  <2>1. Delivered /\ k = Len(bundles) /\ as = SubSeq(bundles, 1, k - 1)
    OBVIOUS
  <2>2. length \in Nat /\ InBundles(bundles, length) /\ k >= 1 /\ bundles[k].pos = bundles[k].end
    BY <1>1, <1>3, <1>4
  <2> QED
    BY ONLY <2>1, <2>2, BundlesLeft
<1>6. as = bundles'
  BY <1>3
<1>7. InBundles(bundles', length') /\ Cursor(bundles', length') = Cursor(bundles, length)
  BY <1>3, <1>5, <1>6
<1>8. InMessage(message', bundles', length', elements')
  BY <1>3, NoMessage
<1> QED
  BY <1>1, <1>3, <1>7, <1>8 DEF ReadsNext, Reads

(* The reader is before argument k + 1 of b + 1 .. e in message m.         *)
ReadsAt(m, b, k, e) ==
  /\ b \in 0 .. m.numTags /\ k \in 0 .. m.numTags /\ e \in 0 .. m.numTags
  /\ ReadsMessage(message, bundles, length, elements, m)
  /\ ArgsBetween(message, Cursor(bundles, length), m, Len(message), b, k, e)

LEMMA SomewhereIn ==
  ASSUME ReadsNow, message # << >>
  PROVE  /\ \E m \in closed : \E b, k, e : ReadsAt(m, b, k, e)
         /\ message \in Seq(ArgStreams) /\ Len(message) \in Nat /\ Len(message) >= 1
<1>1. InMessage(message, bundles, length, elements)
  BY DEF ReadsNow, Reads
<1>2. message \in Seq(ArgStreams)
  BY <1>1 DEF InMessage, ArgStreams
<1> PICK i : i = Len(message)
  OBVIOUS
<1>3. i \in Nat /\ i >= 1 /\ i \in 1 .. Len(message)
  BY <1>2, LastIs
<1>4. PICK m \in closed : ReadsMessage(message, bundles, length, elements, m)
  BY <1>1 DEF InMessage
<1>5. ReadsArgs(message, Cursor(bundles, length), m, i)
  BY <1>3, <1>4 DEF ReadsMessage
<1>6. PICK b \in 0 .. m.numTags : \E k \in 0 .. m.numTags : \E e \in 0 .. m.numTags :
        ArgsBetween(message, Cursor(bundles, length), m, i, b, k, e)
  BY <1>5 DEF ReadsArgs
<1>7. PICK k \in 0 .. m.numTags : \E e \in 0 .. m.numTags :
        ArgsBetween(message, Cursor(bundles, length), m, i, b, k, e)
  BY <1>6
<1>8. PICK e \in 0 .. m.numTags :
        ArgsBetween(message, Cursor(bundles, length), m, i, b, k, e)
  BY <1>7
<1>9. ReadsAt(m, b, k, e)
  BY <1>4, <1>8 DEF ReadsAt
<1> QED
  BY <1>2, <1>3, <1>9

LEMMA ArgumentHere ==
  ASSUME Delivered, ReadsNow, message # << >>, NEW m \in closed, NEW b, NEW k, NEW e,
         ReadsAt(m, b, k, e), NEW end, end = Reader!current.args.end
  PROVE  /\ m.kind = "message" /\ m.numTags \in Nat /\ Rank(m) = elements
         /\ b \in 0 .. m.numTags /\ k \in 0 .. m.numTags /\ e \in 0 .. m.numTags
         /\ b <= k /\ k <= e /\ Balanced(m, b, e)
         /\ Reader!current.tags.pos = TagPos(m, k) /\ Reader!current.tags.end = TagPos(m, e)
         /\ Reader!current.args.pos = ArgPos(m, k)
         /\ end \in Nat /\ ArgPos(m, k) <= end
         /\ length = args.pos => ArgPos(m, e) <= end
         /\ Reader!current.tags.pos = Reader!current.tags.end <=> k = e
         /\ k < e => Reader!tag = m.put[k + 1].tag
         /\ Reader!index = k + 1
<1> PICK i : i = Len(message)
  OBVIOUS
<1>1. i \in Nat /\ i >= 1 /\ i = Len(message)
  BY SomewhereIn
<1>2. /\ length \in Nat /\ InBundles(bundles, length)
  BY DEF ReadsNow, Reads
<1>3. /\ b \in 0 .. m.numTags /\ k \in 0 .. m.numTags /\ e \in 0 .. m.numTags
      /\ ReadsMessage(message, bundles, length, elements, m)
      /\ ArgsBetween(message, Cursor(bundles, length), m, i, b, k, e)
  BY DEF ReadsAt
<1>4. /\ message[i].tags.pos = TagPos(m, k) /\ message[i].tags.end = TagPos(m, e)
      /\ message[i].args.pos = ArgPos(m, k) /\ message[i].args.end \in Nat
      /\ ArgPos(m, k) <= message[i].args.end
      /\ message[i].tags.pos = message[i].tags.end <=> k = e
      /\ message[1].tags.begin = TagPos(m, 0)
      /\ length = args.pos => ArgPos(m, e) <= message[i].args.end
      /\ m.numTags \in Nat /\ TagsStart(m) \in Nat
  BY <1>1, <1>2, <1>3, StreamAt
<1>5. m.kind = "message" /\ Rank(m) = elements
  BY <1>3 DEF ReadsMessage
<1>6. b <= k /\ k <= e /\ Balanced(m, b, e)
  BY <1>3 DEF ArgsBetween
<1>7. Reader!current = message[i]
  BY DEF Reader!current
<1>8. k < e => Reader!tag = m.put[k + 1].tag
  <2>1. k < e => k < m.numTags
    BY <1>3, <1>4
  <2>2. k < m.numTags => Reader!CharAt(TagPos(m, k)) = m.put[k + 1].tag
    BY <1>3, <1>5, TagRead
  <2> QED
    BY <1>4, <1>7, <2>1, <2>2 DEF Reader!tag
<1>9. Reader!index = k + 1
  <2>1. Reader!index = TagPos(m, k) - TagPos(m, 0) + 1
    BY <1>4, <1>7 DEF Reader!index
  <2>2. TagPos(m, k) - TagPos(m, 0) = k
    BY <1>3, <1>4 DEF TagPos
  <2> QED
    BY <2>1, <2>2
<1> QED
  BY <1>3, <1>4, <1>5, <1>6, <1>7, <1>8, <1>9

(* Argument j is what was returned, and the reader is behind it.           *)
SameEnds(as) ==
  Len(as) = Len(message) /\ \A i \in 1 .. Len(as) : as[i].tags.end = message[i].tags.end

Gives(m, j) ==
  /\ m.kind = "message" /\ Rank(m) = elements /\ j \in 1 .. m.numTags
  /\ Reader!current.tags.pos = TagPos(m, j - 1)
  /\ Reader!tag = m.put[j].tag /\ result'.value = ArgOf(m, j)
  /\ message' # << >> /\ message'[Len(message')].tags.pos = TagPos(m, j)
  /\ bundles' = bundles /\ elements' = elements

(* The stream goes on before argument j + 1.                               *)
LEMMA AdvancedReads ==
  ASSUME Delivered, ReadsNow, message # << >>, NEW m \in closed, NEW b, NEW k, NEW e,
         ReadsAt(m, b, k, e), NEW j \in 0 .. m.numTags, k <= j, j <= e,
         ArgPos(m, j) <= Reader!current.args.end,
         NEW as, as = Reader!Advanced(TagPos(m, j), ArgPos(m, j))
  PROVE  /\ ReadsMessage(as, bundles, length, elements, m)
         /\ InMessage(as, bundles, length, elements)
         /\ Len(as) \in Nat /\ Len(as) >= 1
         /\ as[Len(as)].tags.pos = TagPos(m, j) /\ as[Len(as)].args.pos = ArgPos(m, j)
         /\ SameEnds(as)
<1> PICK i : i = Len(message)
  OBVIOUS
<1>1. i \in Nat /\ i >= 1 /\ i = Len(message) /\ message \in Seq(ArgStreams)
  BY SomewhereIn
<1>2. /\ length \in Nat /\ InBundles(bundles, length)
      /\ InMessage(message, bundles, length, elements)
  BY DEF ReadsNow, Reads
<1>3. /\ b \in 0 .. m.numTags /\ k \in 0 .. m.numTags /\ e \in 0 .. m.numTags
      /\ ReadsMessage(message, bundles, length, elements, m)
      /\ ArgsBetween(message, Cursor(bundles, length), m, i, b, k, e)
  BY DEF ReadsAt
<1>4. ArgPos(m, j) <= message[i].args.end
  BY DEF Reader!current
<1>5. TagPos(m, j) \in Nat /\ ArgPos(m, j) \in Nat
  <2>1. m.kind = "message"
    BY <1>3 DEF ReadsMessage
  <2>2. m.numTags \in Nat /\ TagsStart(m) \in Nat
    BY <2>1, MessageHeld DEF IsMessage, MessageSizes
  <2> QED
    BY <2>1, <2>2, ArgEnds DEF TagPos
<1> PICK t : t = TagPos(m, j)
  OBVIOUS
<1> PICK a : a = ArgPos(m, j)
  OBVIOUS
<1>6. ArgsAt([message EXCEPT ![i].tags.pos = t, ![i].args.pos = a], message, i, t, a)
  <2>1. /\ message \in Seq(ArgStreams) /\ i = Len(message) /\ i >= 1 /\ t \in Nat /\ a \in Nat
    BY <1>1, <1>5
  <2> QED
    BY <2>1, AdvancedIs
<1>7. as = [message EXCEPT ![i].tags.pos = t, ![i].args.pos = a]
  BY DEF Reader!Advanced
<1>8. ArgsAt(as, message, i, TagPos(m, j), ArgPos(m, j))
  BY <1>6, <1>7
<1>9. ReadsMessage(as, bundles, length, elements, m) /\ InMessage(as, bundles, length, elements)
  BY <1>1, <1>2, <1>3, <1>4, <1>8, ArgsMoved
<1>10. Len(as) = i /\ as[i].tags.pos = TagPos(m, j) /\ as[i].args.pos = ArgPos(m, j)
  BY <1>8 DEF ArgsAt
<1>11. SameEnds(as)
  <2>1. \A h \in 1 .. i : h \in 1 .. i - 1 \/ h = i
    BY <1>1
  <2>2. as[i].tags.end = message[i].tags.end /\ \A h \in 1 .. i - 1 : as[h] = message[h]
    BY <1>8 DEF ArgsAt
  <2> QED
    BY <1>1, <1>10, <2>1, <2>2 DEF SameEnds
<1> QED
  BY <1>1, <1>9, <1>10, <1>11

(* A call on arguments that changes nothing else.                          *)
LEMMA ArgumentsRead ==
  ASSUME ReadsNow, length' = length, bundles' = bundles, elements' = elements, ok = TRUE, ok' = TRUE,
         InMessage(message', bundles, length, elements),
         result' # Null => \E f \in closed : Returned(result', bundles, f)
  PROVE  ReadsNext
<1>1. /\ length \in Nat /\ length <= args.pos
      /\ InBundles(bundles, length)
      /\ elements = Cardinality(Before(Cursor(bundles, length)))
  BY DEF ReadsNow, Reads
<1> QED
  BY <1>1 DEF ReadsNext, Reads

LEMMA LeaveArgumentsReads ==
  ASSUME Delivered, ReadsNow, Reader!LeaveArguments
  PROVE  ReadsNext
<1> PICK i : i = Len(message)
  OBVIOUS
<1> PICK as : as = SubSeq(message, 1, i - 1)
  OBVIOUS
<1>1. ok \in BOOLEAN /\ InMessage(message, bundles, length, elements)
  BY DEF ReadsNow, Reads
<1>2. /\ message # << >> /\ ok = TRUE
      /\ message' = as /\ result' = Null
      /\ length' = length /\ bundles' = bundles /\ elements' = elements /\ ok' = TRUE
  BY <1>1 DEF Reader!LeaveArguments, Reader!reading
<1>3. i >= 1
  BY <1>2, SomewhereIn
<1>4. InMessage(as, bundles, length, elements)
  BY <1>1, <1>3, ArgsLeft
<1> QED
  BY <1>2, <1>4, ArgumentsRead

(* What a call on argument k + 1 finds there, whatever its type.           *)
LEMMA AtomHere ==
  ASSUME Delivered, ReadsNow, message # << >>, NEW m \in closed, NEW b, NEW k, NEW e,
         ReadsAt(m, b, k, e), k < e, NEW end, end = Reader!current.args.end,
         NEW j, j = k + 1
  PROVE  /\ Reader!AfterAtom(Reader!tag, Reader!current.args.pos, end)
              = IF ArgPos(m, j) <= end THEN ArgPos(m, j) ELSE Null
         /\ j \in 1 .. m.numTags /\ j \in 0 .. m.numTags /\ k <= j /\ j <= e /\ j - 1 = k
         /\ ArgPos(m, j) \in Nat /\ ArgPos(m, j) # Null
         /\ Reader!current.tags.pos + 1 = TagPos(m, j)
         /\ length = args.pos => ArgPos(m, j) <= end
<1>1. /\ m.kind = "message" /\ m.numTags \in Nat
      /\ k \in 0 .. m.numTags /\ e \in 0 .. m.numTags
      /\ Reader!current.tags.pos = TagPos(m, k)
      /\ Reader!current.args.pos = ArgPos(m, k)
      /\ end \in Nat /\ ArgPos(m, k) <= end
      /\ length = args.pos => ArgPos(m, e) <= end
      /\ Reader!tag = m.put[k + 1].tag
  BY ArgumentHere
<1>2. j \in 1 .. m.numTags /\ j \in 0 .. m.numTags /\ k <= j /\ j <= e /\ j - 1 = k
  BY <1>1
<1>3. ArgPos(m, j) \in Nat /\ ArgPos(m, e) \in Nat /\ ArgPos(m, j) # Null
  BY <1>1, <1>2, ArgEnds, CallerAssumption
<1>4. Reader!AfterAtom(m.put[j].tag, ArgPos(m, k), end)
        = IF ArgPos(m, j) <= end THEN ArgPos(m, j) ELSE Null
  BY <1>1, <1>2, AfterAtomIs
<1>5. Reader!current.tags.pos + 1 = TagPos(m, j)
  <2>1. TagsStart(m) \in Nat
    BY <1>1, MessageHeld DEF MessageSizes
  <2> QED
    BY <1>1, <2>1 DEF TagPos
<1>6. ArgPos(m, j) <= ArgPos(m, e)
  BY <1>1, <1>2, ArgsInOrder
<1>7. length = args.pos => ArgPos(m, j) <= end
  BY <1>1, <1>3, <1>6
<1> QED
  BY <1>1, <1>2, <1>3, <1>4, <1>5, <1>7

(* What is returned is argument j.                                         *)
LEMMA ArgumentReturned ==
  ASSUME Delivered, NEW m \in closed, m.kind = "message", NEW j \in 1 .. m.numTags,
         NEW r, NEW bs, r = [element |-> Rank(m), index |-> j, tag |-> m.put[j].tag,
                             value |-> ArgOf(m, j)]
  PROVE  Returned(r, bs, m)
<1>1. Len(m.put) = m.numTags /\ m.numTags \in Nat
  BY MessageHeld DEF IsMessage
<1>2. j > 0 /\ j <= Len(m.put)
  BY <1>1
<1> QED
  BY <1>2 DEF Returned, ArgOf

LEMMA ReadArgumentReads ==
  ASSUME Delivered, ReadsNow, Reader!ReadArgument
  PROVE  /\ ReadsNext
         /\ Reader!Throw \/ (SameEnds(message') /\ \E m \in closed : \E j : Gives(m, j))
<1>1. /\ ok \in BOOLEAN /\ length' = length /\ Reader!mayRead
      /\ message # << >> /\ ok = TRUE
      /\ Reader!current.tags.pos # Reader!current.tags.end
  BY DEF Reader!ReadArgument, Reader!mayRead, Reader!reading, Reader!AtEnd, ReadsNow, Reads
<1>2. PICK m \in closed : \E b, k, e : ReadsAt(m, b, k, e)
  BY <1>1, SomewhereIn
<1>3. PICK b, k, e : ReadsAt(m, b, k, e)
  BY <1>2
<1> PICK end : end = Reader!current.args.end
  OBVIOUS
<1>4. /\ m.kind = "message" /\ m.numTags \in Nat /\ Rank(m) = elements
      /\ k \in 0 .. m.numTags /\ e \in 0 .. m.numTags
      /\ k <= e /\ k # e
      /\ Reader!current.tags.pos = TagPos(m, k)
      /\ Reader!current.args.pos = ArgPos(m, k)
      /\ k < e => Reader!tag = m.put[k + 1].tag
      /\ Reader!index = k + 1
  BY <1>1, <1>3, ArgumentHere
<1>5. k < e
  BY <1>4
<1> PICK j : j = k + 1
  OBVIOUS
<1> PICK to : to = Reader!AfterAtom(Reader!tag, Reader!current.args.pos, end)
  OBVIOUS
<1>6. /\ to = IF ArgPos(m, j) <= end THEN ArgPos(m, j) ELSE Null
      /\ j \in 1 .. m.numTags /\ j \in 0 .. m.numTags /\ k <= j /\ j <= e /\ j - 1 = k
      /\ ArgPos(m, j) \in Nat /\ ArgPos(m, j) # Null
      /\ Reader!current.tags.pos + 1 = TagPos(m, j)
      /\ length = args.pos => ArgPos(m, j) <= end
  BY <1>1, <1>3, <1>5, AtomHere
<1> PICK value : value = Reader!Words(ArgPos(m, k), to - ArgPos(m, k))
  OBVIOUS
<1>7. IF to # Null
      THEN /\ message' = Reader!Advanced(TagPos(m, j), to)
           /\ bundles' = bundles /\ elements' = elements
           /\ ok' = TRUE
           /\ result' = [element |-> elements', index |-> j, tag |-> m.put[j].tag,
                         value |-> value]
      ELSE Reader!Throw
  BY <1>4, <1>5, <1>6 DEF Reader!ReadArgument, Reader!Return
<1>8. CASE ~(ArgPos(m, j) <= end)
  <2>1. to = Null
    BY <1>6, <1>8
  <2>2. length # args.pos
    BY <1>6, <1>8
  <2>3. Reader!Throw
    BY <1>7, <2>1
  <2>4. ReadsNext
    BY <1>1, <2>2, <2>3, ThrowReads
  <2> QED
    BY <2>3, <2>4
<1>9. CASE ArgPos(m, j) <= end
  <2>1. to = ArgPos(m, j) /\ to # Null
    BY <1>6, <1>9
  <2>2. /\ message' = Reader!Advanced(TagPos(m, j), ArgPos(m, j))
        /\ bundles' = bundles /\ elements' = elements
        /\ ok' = TRUE
        /\ result' = [element |-> elements, index |-> j, tag |-> m.put[j].tag, value |-> value]
    BY <1>7, <2>1
  <2> PICK as : as = Reader!Advanced(TagPos(m, j), ArgPos(m, j))
    OBVIOUS
  <2>3. /\ InMessage(as, bundles, length, elements)
        /\ Len(as) \in Nat /\ Len(as) >= 1 /\ as[Len(as)].tags.pos = TagPos(m, j)
        /\ SameEnds(as)
    BY <1>1, <1>3, <1>6, <1>9, AdvancedReads
  <2>4. value = ArgOf(m, j)
    <3> PICK w : w = ArgOf(m, j)
      OBVIOUS
    <3> PICK p : p = ArgPos(m, k)
      OBVIOUS
    <3>1. /\ w \in Seq(AnyArgWord) /\ Len(w) \in Nat
          /\ p \in Nat /\ p % 4 = 0
          /\ ArgPos(m, j) = p + 4 * Len(w)
          /\ Holds(args, p, w)
      BY <1>4, <1>6, ArgPlaced
    <3>2. to - p = 4 * Len(w)
      BY <2>1, <3>1
    <3>3. Reader!Words(p, 4 * Len(w)) = w
      BY <3>1, WordsHeld
    <3> QED
      BY <3>2, <3>3
  <2>5. Returned(result', bundles, m)
    BY <1>4, <1>6, <2>2, <2>4, ArgumentReturned
  <2>6. ReadsNext
    BY <1>1, <2>2, <2>3, <2>5, ArgumentsRead
  <2>7. message' # << >> /\ message'[Len(message')].tags.pos = TagPos(m, j)
    BY <2>2, <2>3
  <2>8. Reader!tag = m.put[j].tag /\ result'.value = ArgOf(m, j)
    BY <1>4, <1>5, <2>2, <2>4
  <2>9. Gives(m, j)
    BY <1>4, <1>6, <2>2, <2>7, <2>8 DEF Gives
  <2> QED
    BY <2>2, <2>3, <2>6, <2>9
<1> QED
  BY <1>8, <1>9

(* An array is entered or dropped: behind it is argument j.                *)
LEMMA ArrayHere ==
  ASSUME Delivered, ReadsNow, message # << >>, NEW m \in closed, NEW b, NEW k, NEW e,
         ReadsAt(m, b, k, e), k < e, Reader!tag = "[",
         NEW end, end = Reader!current.args.end,
         NEW after, after = Reader!AfterArray(Reader!current)
  PROVE  \/ after.arg = Null /\ length # args.pos
         \/ /\ after.level < 0 /\ after.arg # Null
            /\ \E j \in k + 2 .. e : ClosedBy(m, k + 1, j, end, after)
<1>1. /\ m.kind = "message" /\ m.numTags \in Nat
      /\ b \in 0 .. m.numTags /\ k \in 0 .. m.numTags /\ e \in 0 .. m.numTags
      /\ b <= k /\ Balanced(m, b, e)
      /\ Reader!current.tags.pos = TagPos(m, k) /\ Reader!current.tags.end = TagPos(m, e)
      /\ Reader!current.args.pos = ArgPos(m, k)
      /\ end \in Nat /\ ArgPos(m, k) <= end
      /\ length = args.pos => ArgPos(m, e) <= end
      /\ m.put[k + 1].tag = "["
  BY ArgumentHere
<1> PICK stream : stream = Reader!current
  OBVIOUS
<1>2. \/ after.arg = Null /\ end < ArgPos(m, e)
      \/ /\ after.level < 0 /\ after.arg # Null
         /\ \E j \in k + 2 .. e : ClosedBy(m, k + 1, j, end, after)
  BY <1>1, AfterArrayIs
<1>3. ArgPos(m, e) \in Nat
  BY <1>1, ArgEnds
<1> QED
  BY <1>1, <1>2, <1>3

LEMMA BehindArray ==
  ASSUME Delivered, ReadsNow, message # << >>, NEW m \in closed, NEW b, NEW k, NEW e,
         ReadsAt(m, b, k, e), k < e, Reader!tag = "[",
         NEW end, end = Reader!current.args.end, NEW after,
         NEW j \in k + 2 .. e, ClosedBy(m, k + 1, j, end, after)
  PROVE  /\ j \in 0 .. m.numTags /\ k <= j /\ k + 2 <= j
         /\ after.tag = TagPos(m, j) /\ after.arg = ArgPos(m, j) /\ ArgPos(m, j) <= end
         /\ k + 1 \in 0 .. m.numTags /\ j - 1 \in 0 .. m.numTags /\ k + 1 <= j - 1
         /\ (j - 1) + 1 = j
         /\ Balanced(m, k + 1, j - 1)
         /\ m.put[j].tag = "]"
         /\ ArgPos(m, k + 1) = ArgPos(m, k) /\ ArgPos(m, j - 1) = ArgPos(m, j)
         /\ TagPos(m, k) + 1 = TagPos(m, k + 1) /\ TagPos(m, j) - 1 = TagPos(m, j - 1)
<1>1. /\ m.kind = "message" /\ m.numTags \in Nat
      /\ k \in 0 .. m.numTags /\ e \in 0 .. m.numTags
      /\ m.put[k + 1].tag = "["
  BY ArgumentHere
<1>2. /\ j \in 0 .. m.numTags /\ k <= j /\ k + 2 <= j
      /\ k + 1 \in 0 .. m.numTags /\ j - 1 \in 0 .. m.numTags /\ k + 1 <= j - 1
      /\ (j - 1) + 1 = j
  BY <1>1
<1>3. after.tag = TagPos(m, j) /\ after.arg = ArgPos(m, j) /\ ArgPos(m, j) <= end
  BY DEF ClosedBy
<1>4. /\ Balanced(m, k + 1, j - 1)
      /\ m.put[j].tag = "]"
      /\ ArgPos(m, k + 1) = ArgPos(m, k) /\ ArgPos(m, j - 1) = ArgPos(m, j)
  BY <1>1, <1>2, InsideArray
<1>5. TagPos(m, k) + 1 = TagPos(m, k + 1) /\ TagPos(m, j) - 1 = TagPos(m, j - 1)
  <2> PICK start : start = TagsStart(m)
    OBVIOUS
  <2>1. start \in Nat /\ j \in Nat /\ k \in Nat
    BY <1>1, <1>2, MessageHeld DEF MessageSizes
  <2>2. \A i : TagPos(m, i) = start + 1 + i
    BY DEF TagPos
  <2> QED
    BY <2>1, <2>2
<1> QED
  BY <1>2, <1>3, <1>4, <1>5

(* Behind the array is the place behind its closing bracket.               *)
LEMMA ArrayPassed ==
  ASSUME Delivered, ReadsNow, message # << >>, NEW m \in closed, NEW b, NEW k, NEW e,
         ReadsAt(m, b, k, e), k < e, Reader!tag = "[", NEW j \in k + 2 .. e,
         NEW after, ClosedBy(m, k + 1, j, Reader!current.args.end, after),
         NEW as, as = Reader!Advanced(after.tag, after.arg)
  PROVE  /\ ReadsMessage(as, bundles, length, elements, m)
         /\ InMessage(as, bundles, length, elements)
         /\ Len(as) \in Nat /\ Len(as) >= 1
         /\ as[Len(as)].tags.pos = TagPos(m, j) /\ as[Len(as)].args.pos = ArgPos(m, j)
         /\ SameEnds(as)
<1> PICK end : end = Reader!current.args.end
  OBVIOUS
<1>1. ClosedBy(m, k + 1, j, end, after)
  OBVIOUS
<1>2. /\ j \in 0 .. m.numTags /\ k <= j
      /\ after.tag = TagPos(m, j) /\ after.arg = ArgPos(m, j) /\ ArgPos(m, j) <= end
  BY <1>1, BehindArray
<1>3. j <= e
  OBVIOUS
<1>4. as = Reader!Advanced(TagPos(m, j), ArgPos(m, j))
  BY <1>2
<1> QED
  BY <1>2, <1>3, <1>4, AdvancedReads

LEMMA ReadArrayReads ==
  ASSUME Delivered, ReadsNow, Reader!ReadArray
  PROVE  /\ ReadsNext
         /\ \/ Reader!Throw
            \/ /\ \E m \in closed : \E j : Gives(m, j)
               /\ \E as, s : /\ message' = Append(as, s) /\ message' \in Seq(ArgStreams)
                             /\ as \in Seq(ArgStreams) /\ s \in ArgStreams
                             /\ SameEnds(as) /\ Reader!CharAt(s.tags.end) = "]"
<1> PICK after : after = Reader!AfterArray(Reader!current)
  OBVIOUS
<1>1. /\ ok \in BOOLEAN /\ length' = length /\ Reader!mayRead /\ Reader!tag = "["
      /\ message # << >> /\ ok = TRUE
      /\ Reader!current.tags.pos # Reader!current.tags.end
  BY DEF Reader!ReadArray, Reader!mayRead, Reader!reading, Reader!AtEnd, ReadsNow, Reads
<1>2. PICK m \in closed : \E b, k, e : ReadsAt(m, b, k, e)
  BY <1>1, SomewhereIn
<1>3. PICK b, k, e : ReadsAt(m, b, k, e)
  BY <1>2
<1> PICK end : end = Reader!current.args.end
  OBVIOUS
<1>4. /\ m.kind = "message" /\ m.numTags \in Nat /\ Rank(m) = elements
      /\ k \in 0 .. m.numTags /\ e \in 0 .. m.numTags
      /\ k <= e /\ k # e
      /\ Reader!current.tags.pos = TagPos(m, k)
      /\ Reader!current.args.pos = ArgPos(m, k)
      /\ k < e => Reader!tag = m.put[k + 1].tag
      /\ Reader!index = k + 1
  BY <1>1, <1>3, ArgumentHere
<1>5. k < e
  BY <1>4
<1> PICK inside : inside = [tags |-> [begin |-> TagPos(m, k) + 1, pos |-> TagPos(m, k) + 1,
                                      end |-> after.tag - 1],
                            args |-> [begin |-> ArgPos(m, k), pos |-> ArgPos(m, k),
                                      end |-> after.arg]]
  OBVIOUS
<1>6. IF after.level < 0 /\ after.arg # Null
      THEN /\ message' = Append(Reader!Advanced(after.tag, after.arg), inside)
           /\ bundles' = bundles /\ elements' = elements
           /\ ok' = TRUE
           /\ result' = [element |-> elements', index |-> k + 1, tag |-> "[", value |-> << >>]
      ELSE Reader!Throw
  BY <1>1, <1>4 DEF Reader!ReadArray, Reader!Return, Reader!Stream
<1>7. \/ after.arg = Null /\ length # args.pos
      \/ /\ after.level < 0 /\ after.arg # Null
         /\ \E j \in k + 2 .. e : ClosedBy(m, k + 1, j, end, after)
  BY <1>1, <1>3, <1>5, ArrayHere
<1>8. CASE after.arg = Null /\ length # args.pos
  <2>1. Reader!Throw
    BY <1>6, <1>8
  <2>2. ReadsNext
    BY <1>1, <1>8, <2>1, ThrowReads
  <2> QED
    BY <2>1, <2>2
<1>9. CASE /\ after.level < 0 /\ after.arg # Null
           /\ \E j \in k + 2 .. e : ClosedBy(m, k + 1, j, end, after)
  <2>1. PICK j \in k + 2 .. e : ClosedBy(m, k + 1, j, end, after)
    BY <1>9
  <2> PICK as : as = Reader!Advanced(after.tag, after.arg)
    OBVIOUS
  <2> PICK h : h = k + 1
    OBVIOUS
  <2> PICK g : g = j - 1
    OBVIOUS
  <2>2. /\ j \in 0 .. m.numTags /\ k <= j
        /\ after.tag = TagPos(m, j) /\ after.arg = ArgPos(m, j)
        /\ h \in 0 .. m.numTags /\ g \in 0 .. m.numTags /\ h <= g
        /\ j = g + 1 /\ m.put[j].tag = "]"
        /\ Balanced(m, h, g)
        /\ ArgPos(m, h) = ArgPos(m, k) /\ ArgPos(m, g) = ArgPos(m, j)
        /\ TagPos(m, k) + 1 = TagPos(m, h) /\ TagPos(m, j) - 1 = TagPos(m, g)
    BY <1>1, <1>3, <1>5, <2>1, BehindArray
  <2>3. /\ ReadsMessage(as, bundles, length, elements, m)
        /\ InMessage(as, bundles, length, elements)
        /\ Len(as) \in Nat /\ Len(as) >= 1
        /\ as[Len(as)].tags.pos = TagPos(m, j) /\ as[Len(as)].args.pos = ArgPos(m, j)
        /\ SameEnds(as)
    BY <1>1, <1>3, <1>5, <2>1, ArrayPassed
  <2>4. inside = ArgStream(m, h, h, g, ArgPos(m, g))
    BY <2>2 DEF ArgStream
  <2>5. length \in Nat /\ InBundles(bundles, length)
    BY DEF ReadsNow, Reads
  <2>6. as[Len(as)].args.pos = ArgPos(m, g)
    BY <2>2, <2>3
  <2>7. InMessage(Append(as, inside), bundles, length, elements)
    BY <2>2, <2>3, <2>4, <2>5, <2>6, ArgsEntered
  <2>8. /\ message' = Append(as, inside)
        /\ bundles' = bundles /\ elements' = elements
        /\ ok' = TRUE
        /\ result' = [element |-> elements, index |-> h, tag |-> "[", value |-> << >>]
    BY <1>6, <1>9
  <2>9. h \in 1 .. m.numTags /\ m.put[h].tag = "["
    BY <1>1, <1>4, <1>5
  <2>10. ArgOf(m, h) = << >>
    BY <1>4, <2>9, ArgSizes
  <2>11. result' = [element |-> Rank(m), index |-> h, tag |-> m.put[h].tag, value |-> ArgOf(m, h)]
    BY <1>4, <2>8, <2>9, <2>10
  <2>12. Returned(result', bundles, m)
    BY <1>4, <2>9, <2>11, ArgumentReturned
  <2>13. InMessage(message', bundles, length, elements)
    BY <2>7, <2>8
  <2>14. ReadsNext
    BY <1>1, <2>8, <2>12, <2>13, ArgumentsRead
  <2>15. inside \in ArgStreams
    <3>1. TagPos(m, h) \in Nat /\ TagPos(m, g) \in Nat
      <4>1. TagsStart(m) \in Nat
        BY <1>4, MessageHeld DEF MessageSizes
      <4> QED
        BY <2>2, <4>1 DEF TagPos
    <3>2. ArgPos(m, h) \in Nat /\ ArgPos(m, g) \in Nat
      BY <1>4, <2>2, ArgEnds
    <3> QED
      BY <2>4, <3>1, <3>2 DEF ArgStream, ArgStreams, Streams
  <2>16. /\ as \in Seq(ArgStreams) /\ message' \in Seq(ArgStreams)
         /\ message' # << >> /\ message'[Len(message')] = inside
    <3>1. as \in Seq(ArgStreams)
      BY <2>3 DEF InMessage, ArgStreams
    <3>2. /\ Append(as, inside) \in Seq(ArgStreams) /\ Append(as, inside) # << >>
          /\ Len(Append(as, inside)) = Len(as) + 1
          /\ Append(as, inside)[Len(as) + 1] = inside
      BY <2>15, <3>1, AppendProperties
    <3> QED
      BY <2>8, <3>1, <3>2
  <2>17. Reader!CharAt(inside.tags.end) = "]"
    <3>1. inside.tags.end = TagPos(m, g)
      BY <2>4 DEF ArgStream
    <3>2. g < m.numTags
      BY <1>4, <2>2
    <3>3. Reader!CharAt(TagPos(m, g)) = m.put[g + 1].tag
      BY <1>4, <2>2, <3>2, TagRead
    <3> QED
      BY <2>2, <3>1, <3>3
  <2>18. Gives(m, h)
    <3>1. Reader!tag = m.put[h].tag /\ TagPos(m, k) = TagPos(m, h - 1)
      <4>1. h - 1 = k
        BY <1>4
      <4> QED
        BY <1>4, <1>5, <4>1
    <3>2. message'[Len(message')].tags.pos = TagPos(m, h)
      BY <2>4, <2>16 DEF ArgStream
    <3> QED
      BY <1>4, <2>8, <2>9, <2>10, <2>16, <3>1, <3>2 DEF Gives
  <2> QED
    BY <2>3, <2>8, <2>14, <2>15, <2>16, <2>17, <2>18
<1> QED
  BY <1>7, <1>8, <1>9

LEMMA DropArgumentReads ==
  ASSUME Delivered, ReadsNow, Reader!DropArgument
  PROVE  ReadsNext
<1> PICK after : after = Reader!AfterArray(Reader!current)
  OBVIOUS
<1>1. /\ ok \in BOOLEAN /\ length' = length /\ Reader!mayRead
      /\ message # << >> /\ ok = TRUE
      /\ Reader!current.tags.pos # Reader!current.tags.end
  BY DEF Reader!DropArgument, Reader!mayRead, Reader!reading, Reader!AtEnd, ReadsNow, Reads
<1>2. PICK m \in closed : \E b, k, e : ReadsAt(m, b, k, e)
  BY <1>1, SomewhereIn
<1>3. PICK b, k, e : ReadsAt(m, b, k, e)
  BY <1>2
<1> PICK end : end = Reader!current.args.end
  OBVIOUS
<1>4. /\ m.kind = "message" /\ m.numTags \in Nat
      /\ k \in 0 .. m.numTags /\ e \in 0 .. m.numTags
      /\ k <= e /\ k # e
      /\ Reader!current.args.pos = ArgPos(m, k)
  BY <1>1, <1>3, ArgumentHere
<1>5. k < e
  BY <1>4
<1>6. ASSUME NEW as, InMessage(as, bundles, length, elements),
             message' = as, result' = Null, bundles' = bundles, elements' = elements, ok' = ok
      PROVE  ReadsNext
  BY <1>1, <1>6, ArgumentsRead
<1>7. CASE Reader!tag = "["
  <2>1. IF after.level < 0 /\ after.arg # Null
        THEN /\ message' = Reader!Advanced(after.tag, after.arg)
             /\ result' = Null
             /\ bundles' = bundles /\ elements' = elements /\ ok' = ok
        ELSE Reader!Throw
    BY <1>7 DEF Reader!DropArgument
  <2>2. \/ after.arg = Null /\ length # args.pos
        \/ /\ after.level < 0 /\ after.arg # Null
           /\ \E j \in k + 2 .. e : ClosedBy(m, k + 1, j, end, after)
    BY <1>1, <1>3, <1>5, <1>7, ArrayHere
  <2>3. CASE after.arg = Null /\ length # args.pos
    <3>1. Reader!Throw
      BY <2>1, <2>3
    <3> QED
      BY <1>1, <2>3, <3>1, ThrowReads
  <2>4. CASE /\ after.level < 0 /\ after.arg # Null
             /\ \E j \in k + 2 .. e : ClosedBy(m, k + 1, j, end, after)
    <3>1. PICK j \in k + 2 .. e : ClosedBy(m, k + 1, j, end, after)
      BY <2>4
    <3> PICK as : as = Reader!Advanced(after.tag, after.arg)
      OBVIOUS
    <3>2. InMessage(as, bundles, length, elements)
      BY <1>1, <1>3, <1>5, <1>7, <3>1, ArrayPassed
    <3> QED
      BY <1>6, <2>1, <2>4, <3>2
  <2> QED
    BY <2>2, <2>3, <2>4
<1>8. CASE Reader!tag # "["
  <2> PICK j : j = k + 1
    OBVIOUS
  <2> PICK to : to = Reader!AfterAtom(Reader!tag, Reader!current.args.pos, end)
    OBVIOUS
  <2>1. /\ to = IF ArgPos(m, j) <= end THEN ArgPos(m, j) ELSE Null
        /\ j \in 0 .. m.numTags /\ k <= j /\ j <= e
        /\ ArgPos(m, j) # Null
        /\ Reader!current.tags.pos + 1 = TagPos(m, j)
        /\ length = args.pos => ArgPos(m, j) <= end
    BY <1>1, <1>3, <1>5, AtomHere
  <2>2. IF to # Null
        THEN /\ message' = Reader!Advanced(TagPos(m, j), to)
             /\ result' = Null
             /\ bundles' = bundles /\ elements' = elements /\ ok' = ok
        ELSE Reader!Throw
    BY <1>8, <2>1 DEF Reader!DropArgument
  <2>3. CASE ~(ArgPos(m, j) <= end)
    <3>1. to = Null /\ length # args.pos
      BY <2>1, <2>3
    <3>2. Reader!Throw
      BY <2>2, <3>1
    <3> QED
      BY <1>1, <3>1, <3>2, ThrowReads
  <2>4. CASE ArgPos(m, j) <= end
    <3>1. to = ArgPos(m, j) /\ to # Null
      BY <2>1, <2>4
    <3> PICK as : as = Reader!Advanced(TagPos(m, j), ArgPos(m, j))
      OBVIOUS
    <3>2. InMessage(as, bundles, length, elements)
      BY <1>1, <1>3, <2>1, <2>4, AdvancedReads
    <3> QED
      BY <1>6, <2>2, <3>1, <3>2
  <2> QED
    BY <2>3, <2>4
<1> QED
  BY <1>7, <1>8

LEMMA StepReads ==
  ASSUME Delivered, ReadsNow, Reader!ReaderStep
  PROVE  ReadsNext /\ length' = length
<1>1. length' = length
  BY DEF Reader!ReaderStep, Reader!NextPacket, Reader!LeaveBundle, Reader!ReadArgument,
         Reader!ReadArray, Reader!DropArgument, Reader!LeaveArguments
<1>2. \/ Reader!NextPacket
      \/ Reader!LeaveBundle
      \/ Reader!ReadArgument
      \/ Reader!ReadArray
      \/ Reader!DropArgument
      \/ Reader!LeaveArguments
  BY DEF Reader!ReaderStep
<1> QED
  BY <1>1, <1>2, NextPacketReads, LeaveBundleReads, ReadArgumentReads, ReadArrayReads,
     DropArgumentReads, LeaveArgumentsReads

-----------------------------------------------------------------------------
(***************************************************************************)
(* TripInv is inductive.  The reader does not touch the packet.            *)
(***************************************************************************)
LEMMA SameBundles ==
  ASSUME closed' = closed
  PROVE  /\ \A i, b : ReadsBundle(bundles, length, i, b)' <=> ReadsBundle(bundles', length', i, b)
         /\ InBundles(bundles, length)' <=> InBundles(bundles', length')
         /\ Cursor(bundles, length)' = Cursor(bundles', length')
<1>1. \A i, b : ReadsBundle(bundles, length, i, b)' <=> ReadsBundle(bundles', length', i, b)
  BY DEF ReadsBundle, Around, Ends, Inside, Between
<1>2. InBundles(bundles, length)' <=> InBundles(bundles', length')
  BY <1>1 DEF InBundles
<1>3. Cursor(bundles, length)' = Cursor(bundles', length')
  BY DEF Cursor
<1> QED
  BY <1>1, <1>2, <1>3

LEMMA SameMessage ==
  ASSUME closed' = closed
  PROVE  InMessage(message, bundles, length, elements)'
           <=> InMessage(message', bundles', length', elements')
<1>1. ASSUME NEW m
      PROVE  ReadsMessage(message, bundles, length, elements, m)'
               <=> ReadsMessage(message', bundles', length', elements', m)
  <2>1. Rank(m)' = Rank(m)
    BY DEF Rank
  <2>2. \A i : ReadsArgs(message, Cursor(bundles, length), m, i)'
                 <=> ReadsArgs(message', Cursor(bundles', length'), m, i)
    BY SameBundles DEF ReadsArgs, ArgsBetween
  <2> QED
    BY <2>1, <2>2, SameBundles DEF ReadsMessage
<1> QED
  BY <1>1 DEF InMessage

LEMMA SameReturned ==
  ASSUME closed' = closed
  PROVE  \A e : Returned(result, bundles, e)' <=> Returned(result', bundles', e)
<1>1. \A e : Rank(e)' = Rank(e) /\ Around(e)' = Around(e)
  BY DEF Rank, Around
<1> QED
  BY <1>1 DEF Returned

LEMMA TripStep ==
  ASSUME closed' = closed, args' = args, open' = open, Complete, length' # Null, ReadsNext
  PROVE  TripInv'
<1>1. Complete'
  BY DEF Complete
<1>2. Cardinality(Before(Cursor(bundles, length)))' = Cardinality(Before(Cursor(bundles', length')))
  BY SameBundles DEF Before
<1>3. (\E e \in closed : Returned(result, bundles, e))'
        <=> \E e \in closed : Returned(result', bundles', e)
  BY SameReturned
<1>4. Reads(length, bundles, message, ok, elements, result)'
  BY <1>2, <1>3, SameBundles, SameMessage DEF Reads, ReadsNext
<1> QED
  BY <1>1, <1>4 DEF TripInv

LEMMA DeliverReads ==
  ASSUME PacketInv, Content, Tiles, Nesting, TripInv,
         \A m \in closed : m.kind = "message" => WellFormed(m), Deliver
  PROVE  TripInv'
<1>1. PICK cut \in {n \in Cuts : n < args.pos} : Reader!Begin(args.pos - cut)
  BY DEF Deliver, Reader!BeginPrint
<1>2. length = Null /\ Reader!Idle
  BY <1>1 DEF TripInv, Reader!Begin
<1>3. args.ok \in BOOLEAN /\ args.pos \in Nat
  BY Sizes DEF PacketInv
<1>4. Complete
  BY <1>3 DEF Deliver, complete, Complete
<1>5. Delivered
  BY <1>4 DEF Delivered
<1> PICK n : n = args.pos - cut
  OBVIOUS
<1>6. n \in Nat /\ n <= args.pos
  BY <1>3, CutsAssumption
<1>7. length' = n /\ Reads(n, bundles', message', ok', elements', result')
  BY <1>1, <1>2, <1>5, <1>6, BeginReads
<1>8. ReadsNext /\ length' # Null
  BY <1>6, <1>7, CallerAssumption DEF ReadsNext
<1>9. closed' = closed /\ args' = args /\ open' = open
  BY DEF Deliver, scriptVars, vars
<1> QED
  BY <1>4, <1>8, <1>9, TripStep

LEMMA ReadReads ==
  ASSUME PacketInv, Content, Tiles, Nesting, TripInv, Read
  PROVE  TripInv'
<1>1. Reader!ReaderStep
  BY DEF Read, Reader!PrintStep, Reader!ReaderStep, Reader!PrintPacket, Reader!PrintBundleEnd,
         Reader!PrintArg, Reader!PrintArray, Reader!PrintArgsEnd
<1>2. length # Null
  BY <1>1 DEF Reader!ReaderStep, Reader!NextPacket, Reader!LeaveBundle, Reader!ReadArgument,
         Reader!ReadArray, Reader!DropArgument, Reader!LeaveArguments, Reader!mayRead,
         Reader!reading
<1>3. Complete /\ ReadsNow
  BY <1>2 DEF TripInv, ReadsNow
<1>4. Delivered
  BY <1>3 DEF Delivered
<1>5. ReadsNext /\ length' = length
  BY <1>1, <1>3, <1>4, StepReads
<1>6. closed' = closed /\ args' = args /\ open' = open
  BY DEF Read, scriptVars, vars
<1> QED
  BY <1>2, <1>3, <1>5, <1>6, TripStep

LEMMA NextTrip ==
  PacketInv /\ Content /\ Tiles /\ Nesting /\ TripInv /\ [RoundTripNext]_tripVars => TripInv'
<1> SUFFICES ASSUME PacketInv, Content, Tiles, Nesting, TripInv, [RoundTripNext]_tripVars
             PROVE  TripInv'
  OBVIOUS
<1>1. CASE Write
  <2>1. /\ length = Null /\ length' = length /\ bundles' = bundles /\ message' = message
        /\ ok' = ok /\ elements' = elements /\ result' = result
    BY <1>1 DEF Write, readerVars
  <2> QED
    BY <2>1 DEF TripInv, Reader!Idle
<1>2. CASE (\A m \in closed : m.kind = "message" => WellFormed(m)) /\ Deliver
  BY <1>2, DeliverReads
<1>3. CASE Read
  BY <1>3, ReadReads
<1>4. CASE Finish
  BY <1>4 DEF Finish, Reader!Finish, TripInv, Reader!Idle
<1>5. CASE UNCHANGED tripVars
  <2>1. /\ length' = length /\ bundles' = bundles /\ message' = message
        /\ ok' = ok /\ elements' = elements /\ result' = result
        /\ closed' = closed /\ args' = args /\ open' = open
    BY <1>5 DEF tripVars, readerVars, scriptVars, vars
  <2>2. CASE length = Null
    BY <2>1, <2>2 DEF TripInv, Reader!Idle
  <2>3. CASE length # Null
    <3>1. Complete /\ ReadsNow
      BY <2>3 DEF TripInv, ReadsNow
    <3>2. ReadsNext
      BY <2>1, <3>1 DEF ReadsNow, ReadsNext
    <3> QED
      BY <2>1, <2>3, <3>1, <3>2, TripStep
  <2> QED
    BY <2>2, <2>3
<1> QED
  BY <1>1, <1>2, <1>3, <1>4, <1>5 DEF RoundTripNext

(* The packet is written by the calls of OscPacket alone.                  *)
LEMMA TripWrites == RoundTrip => Spec
<1>1. RoundTripInit => Init
  BY DEF RoundTripInit
<1>2. [RoundTripNext]_tripVars => [Next]_vars
  BY DEF RoundTripNext, Write, Deliver, Read, Finish, tripVars, scriptVars
<1> QED
  BY <1>1, <1>2, PTL DEF RoundTrip, Spec

LEMMA TripAlways == RoundTrip => [](PacketInv /\ Content /\ Tiles /\ Nesting /\ TripInv)
<1>1. RoundTripInit => TripInv
  BY DEF RoundTripInit, TripInv, Reader!Idle
<1> QED
  BY <1>1, NextTrip, TripWrites, PacketAlways, ContentAlways, TilesAlways, NestingAlways,
     PTL DEF RoundTrip

-----------------------------------------------------------------------------
(***************************************************************************)
(* What TripInv says of a reader that has a packet.                        *)
(***************************************************************************)
Reading == length # Null /\ Delivered /\ ReadsNow

LEMMA ReadingWhile ==
  ASSUME PacketInv, Content, Tiles, Nesting, TripInv, length # Null
  PROVE  Reading
BY DEF TripInv, Reading, Delivered, ReadsNow

(* An argument stream, in the one around it.                               *)
StreamInside(ms, i, cursor, whole) ==
  /\ Reader!Ordered(ms[i].tags)
  /\ Reader!Ordered(ms[i].args)
  /\ ms[i].tags.end < ms[i].args.begin
  /\ i > 1 => /\ ms[i].args.end = ms[i - 1].args.pos
              /\ ms[i].tags.end = ms[i - 1].tags.pos - 1
  /\ i = 1 => ms[i].args.end = cursor
  /\ whole /\ ms[i].tags.pos = ms[i].tags.end => ms[i].args.pos = ms[i].args.end

LEMMA StreamIsInside ==
  ASSUME Delivered, NEW n \in Nat, NEW bs, InBundles(bs, n), NEW ms, NEW seen,
         NEW m \in closed, ReadsMessage(ms, bs, n, seen, m), NEW i \in 1 .. Len(ms)
  PROVE  StreamInside(ms, i, Cursor(bs, n), n = args.pos)
<1>1. /\ m.kind = "message"
      /\ IF bs = << >> THEN m.slot = Null ELSE m.last = Cursor(bs, n)
      /\ ReadsArgs(ms, Cursor(bs, n), m, i)
  BY DEF ReadsMessage
<1>2. m.numTags \in Nat /\ MessageSizes(m)
  BY <1>1, MessageHeld DEF IsMessage
<1> PICK start : start = TagsStart(m)
  OBVIOUS
<1>3. /\ start \in Nat /\ start + m.numTags + 2 <= ArgsStart(m)
      /\ \A h : TagPos(m, h) = start + 1 + h
  <2>1. m.numTags + 2 \in Nat
    BY <1>2
  <2>2. m.numTags + 2 <= Align(m.numTags + 2) /\ Align(m.numTags + 2) \in Nat
    BY <2>1, AlignProperties
  <2> PICK room : room = Align(m.numTags + 2)
    OBVIOUS
  <2>3. start \in Nat /\ start + m.numTags + 2 <= ArgsStart(m)
    <3>1. ArgsStart(m) = start + room
      BY DEF ArgsStart
    <3>2. start \in Nat
      BY <1>2 DEF MessageSizes
    <3>3. m.numTags + 2 <= room /\ room \in Nat
      BY <2>2
    <3> QED
      BY <1>2, <3>1, <3>2, <3>3
  <2>4. \A h : TagPos(m, h) = start + 1 + h
    BY DEF TagPos
  <2> QED
    BY <2>3, <2>4
<1> PICK cursor : cursor = Cursor(bs, n)
  OBVIOUS
<1>4. PICK b \in 0 .. m.numTags : \E k \in 0 .. m.numTags : \E e \in 0 .. m.numTags :
        ArgsBetween(ms, cursor, m, i, b, k, e)
  BY <1>1 DEF ReadsArgs
<1>5. PICK k \in 0 .. m.numTags : \E e \in 0 .. m.numTags :
        ArgsBetween(ms, cursor, m, i, b, k, e)
  BY <1>4
<1>6. PICK e \in 0 .. m.numTags : ArgsBetween(ms, cursor, m, i, b, k, e)
  BY <1>5
<1>7. /\ b <= k /\ k <= e
      /\ IF i = 1 THEN /\ e = m.numTags
                       /\ ms[i] = ArgStream(m, b, k, e, cursor)
                       /\ ArgPos(m, k) <= cursor
                  ELSE /\ ms[i] = ArgStream(m, b, k, e, ArgPos(m, e))
                       /\ ms[i - 1].tags.pos = TagPos(m, e + 1)
                       /\ ms[i - 1].args.pos = ArgPos(m, e)
  BY <1>6 DEF ArgsBetween
<1> PICK end : end = IF i = 1 THEN cursor ELSE ArgPos(m, e)
  OBVIOUS
<1>8. /\ ArgPos(m, 0) = ArgsStart(m) /\ ArgPos(m, m.numTags) = m.last
      /\ ArgPos(m, b) \in Nat /\ ArgPos(m, k) \in Nat /\ ArgPos(m, e) \in Nat
  BY <1>1, ArgEnds
<1>9. ArgPos(m, 0) <= ArgPos(m, b)
  BY <1>1, <1>2, ArgsInOrder
<1>10. ArgPos(m, b) <= ArgPos(m, k)
  BY <1>1, <1>7, ArgsInOrder
<1>11. ArgPos(m, k) <= ArgPos(m, e)
  BY <1>1, <1>7, ArgsInOrder
<1>12. ArgPos(m, k) <= end
  BY <1>7, <1>11
<1>13. ms[i] = ArgStream(m, b, k, e, end)
  BY <1>7
<1>14. /\ ms[i].tags.begin = start + 1 + b /\ ms[i].tags.pos = start + 1 + k
       /\ ms[i].tags.end = start + 1 + e
       /\ ms[i].args.begin = ArgPos(m, b) /\ ms[i].args.pos = ArgPos(m, k)
       /\ ms[i].args.end = end
  BY <1>3, <1>13 DEF ArgStream
<1>15. Reader!Ordered(ms[i].tags) /\ Reader!Ordered(ms[i].args)
  <2>1. start + 1 + b <= start + 1 + k /\ start + 1 + k <= start + 1 + e
    BY ONLY <1>2, <1>3, <1>7
  <2> QED
    BY <1>10, <1>12, <1>14, <2>1 DEF Reader!Ordered
<1>16. ms[i].tags.end < ms[i].args.begin
  <2>1. ArgsStart(m) <= ArgPos(m, b) /\ ArgsStart(m) \in Nat
    BY <1>1, <1>2, <1>8, <1>9, ArgEnds
  <2>2. start + 1 + e < ArgsStart(m)
    <3>1. m.numTags \in Nat /\ e \in 0 .. m.numTags
      BY <1>2
    <3>2. start \in Nat /\ start + m.numTags + 2 <= ArgsStart(m)
      BY <1>3
    <3>3. ArgsStart(m) \in Nat
      BY <2>1
    <3> QED
      BY ONLY <3>1, <3>2, <3>3
  <2>3. start + 1 + e < ArgPos(m, b)
    BY <1>3, <1>8, <2>1, <2>2
  <2> QED
    BY <1>14, <2>3
<1>17. i > 1 => /\ ms[i].args.end = ms[i - 1].args.pos
                /\ ms[i].tags.end = ms[i - 1].tags.pos - 1
  <2> SUFFICES ASSUME i > 1
               PROVE  /\ ms[i].args.end = ms[i - 1].args.pos
                      /\ ms[i].tags.end = ms[i - 1].tags.pos - 1
    OBVIOUS
  <2>1. /\ end = ArgPos(m, e) /\ ms[i - 1].args.pos = ArgPos(m, e)
        /\ ms[i - 1].tags.pos = TagPos(m, e + 1)
    BY <1>7
  <2>2. TagPos(m, e + 1) = start + 1 + (e + 1)
    BY <1>3
  <2>3. (start + 1 + (e + 1)) - 1 = start + 1 + e
    BY <1>2, <1>3
  <2> QED
    BY <1>14, <2>1, <2>2, <2>3
<1>18. i = 1 => ms[i].args.end = cursor
  BY <1>14
<1>19. ASSUME n = args.pos, ms[i].tags.pos = ms[i].tags.end
       PROVE  ms[i].args.pos = ms[i].args.end
  <2>1. k = e
    BY <1>3, <1>14, <1>19
  <2>2. CASE i = 1
    <3>1. ArgPos(m, e) = m.last
      BY <1>7, <1>8, <2>2
    <3>2. m.last = cursor
      BY <1>1, <1>19, RootMessage DEF Cursor
    <3> QED
      BY <1>14, <2>1, <2>2, <3>1, <3>2
  <2>3. CASE i # 1
    BY <1>14, <2>1, <2>3
  <2> QED
    BY <2>2, <2>3
<1> QED
  BY <1>15, <1>16, <1>17, <1>18, <1>19 DEF StreamInside

LEMMA StreamsInside ==
  ASSUME Reading, message # << >>
  PROVE  /\ \A i \in 1 .. Len(message) :
              StreamInside(message, i, Cursor(bundles, length), length = args.pos)
         /\ DOMAIN message = 1 .. Len(message) /\ 1 \in 1 .. Len(message)
<1>1. /\ Delivered /\ ReadsNow
      /\ length \in Nat /\ InBundles(bundles, length)
      /\ InMessage(message, bundles, length, elements)
  BY DEF Reading, ReadsNow, Reads
<1>2. message \in Seq(ArgStreams)
  BY <1>1 DEF InMessage, ArgStreams
<1>3. PICK m \in closed : ReadsMessage(message, bundles, length, elements, m)
  BY <1>1 DEF InMessage
<1>4. \A i \in 1 .. Len(message) :
        StreamInside(message, i, Cursor(bundles, length), length = args.pos)
  BY <1>1, <1>3, StreamIsInside
<1>5. Len(message) \in Nat /\ Len(message) >= 1
  BY <1>2, LastIs
<1> QED
  BY <1>2, <1>4, <1>5

LEMMA NestedWhile ==
  ASSUME Reading
  PROVE  StreamsNested
<1>1. /\ Delivered /\ length \in Nat /\ InBundles(bundles, length)
  BY DEF Reading, ReadsNow, Reads
<1>2. bundles \in Seq(Streams)
  BY <1>1 DEF InBundles
<1>3. ASSUME NEW i \in DOMAIN bundles
      PROVE  /\ Reader!Ordered(bundles[i])
             /\ bundles[i].end = IF i = 1 THEN length ELSE bundles[i - 1].pos
  <2>1. i \in 1 .. Len(bundles) /\ bundles[i] \in Streams
    BY <1>2
  <2>2. PICK b \in closed : ReadsBundle(bundles, length, i, b)
    BY <1>1, <2>1 DEF InBundles
  <2>3. /\ b.kind = "bundle" /\ bundles[i].begin = b.first + SizeBundle
        /\ bundles[i].pos \in Ends(b.first, b.last, closed)
        /\ bundles[i].pos <= bundles[i].end
        /\ bundles[i].end = IF i = 1 THEN length ELSE bundles[i - 1].pos
    BY <2>2 DEF ReadsBundle
  <2>4. b.first + SizeBundle <= bundles[i].pos
    BY <1>1, <2>3, EndsNat
  <2> QED
    BY <2>3, <2>4 DEF Reader!Ordered
<1>4. ASSUME NEW i \in DOMAIN message
      PROVE  /\ Reader!Ordered(message[i].tags)
             /\ Reader!Ordered(message[i].args)
             /\ message[i].tags.end < message[i].args.begin
             /\ i > 1 => /\ message[i].args.end = message[i - 1].args.pos
                         /\ message[i].tags.end = message[i - 1].tags.pos - 1
  <2>1. message # << >>
    BY <1>4
  <2>2. StreamInside(message, i, Cursor(bundles, length), length = args.pos)
    BY <1>4, <2>1, StreamsInside
  <2> QED
    BY <2>2 DEF StreamInside
<1>5. ASSUME message # << >>
      PROVE  message[1].args.end = IF bundles = << >> THEN length ELSE Reader!innermost.pos
  <2>1. StreamInside(message, 1, Cursor(bundles, length), length = args.pos)
    BY <1>5, StreamsInside
  <2>2. message[1].args.end = Cursor(bundles, length)
    BY <2>1 DEF StreamInside
  <2> QED
    BY <2>2 DEF Cursor, Reader!innermost
<1> QED
  BY <1>3, <1>4, <1>5 DEF StreamsNested, Reader!StreamsNested

LEMMA ReadsBackWhile ==
  ASSUME Reading
  PROVE  ReadsBack
<1> SUFFICES ASSUME result # Null
             PROVE  LET e == Nth(result.element) IN
                      /\ result.element <= Cardinality(closed)
                      /\ IF result.index > 0
                         THEN /\ result.index <= Len(e.put)
                              /\ result.tag = e.put[result.index].tag
                              /\ result.value = e.put[result.index].head \o e.put[result.index].data
                         ELSE /\ result.tag = e.kind
                              /\ result.value = Heading(e)
                              /\ Len(bundles) = Cardinality(Around(e))
                                                  + (IF e.kind = "bundle" THEN 1 ELSE 0)
  BY DEF ReadsBack
<1>1. PICK e \in closed : Returned(result, bundles, e)
  BY DEF Reading, ReadsNow, Reads
<1>2. result.element = Rank(e)
  BY <1>1 DEF Returned
<1>3. Nth(Rank(e)) = e /\ Rank(e) <= Cardinality(closed)
  BY NthIs DEF Reading
<1> QED
  BY <1>1, <1>2, <1>3 DEF Returned

LEMMA ReadsAllWhile ==
  ASSUME Reading
  PROVE  ReadsAll
<1> SUFFICES ASSUME length = args.pos
             PROVE  /\ ok
                    /\ Reader!finished => elements = Cardinality(closed)
                    /\ \A i \in DOMAIN message :
                         Reader!AtEnd(message[i].tags) => Reader!AtEnd(message[i].args)
  BY DEF ReadsAll
<1>1. /\ Delivered /\ length \in Nat /\ ok = TRUE
      /\ elements = Cardinality(Before(Cursor(bundles, length)))
  BY DEF Reading, ReadsNow, Reads
<1>2. ASSUME Reader!finished
      PROVE  elements = Cardinality(closed)
  <2>1. bundles = << >>
    BY <1>1, <1>2 DEF Reader!finished
  <2>2. Cursor(bundles, length) = args.pos
    BY <2>1 DEF Cursor
  <2>3. \A e \in closed : e.first < args.pos
    <3> SUFFICES ASSUME NEW e \in closed PROVE e.first < args.pos
      OBVIOUS
    <3>1. /\ e.first \in Nat /\ e.last \in Nat /\ e.first + 8 <= e.last /\ e.last <= args.pos
      BY <1>1, ElementsPlaced DEF ElementAt
    <3> QED
      BY <1>1, <3>1
  <2>4. Before(args.pos) = closed
    BY <2>3 DEF Before
  <2> QED
    BY <1>1, <2>2, <2>4
<1>3. ASSUME NEW i \in DOMAIN message, Reader!AtEnd(message[i].tags)
      PROVE  Reader!AtEnd(message[i].args)
  <2>1. message # << >>
    BY <1>3
  <2>2. StreamInside(message, i, Cursor(bundles, length), length = args.pos)
    BY <1>3, <2>1, StreamsInside
  <2> QED
    BY <1>3, <2>2 DEF StreamInside, Reader!AtEnd
<1> QED
  BY <1>1, <1>2, <1>3

-----------------------------------------------------------------------------
LEMMA WhileReading ==
  ASSUME PacketInv, Content, Tiles, Nesting, TripInv
  PROVE  StreamsNested /\ ReadsBack /\ ReadsAll
<1>1. CASE length = Null
  <2>1. args.pos # Null
    <3>1. args.pos \in Nat
      BY Sizes DEF PacketInv
    <3>2. Null \notin Int
      BY CallerAssumption
    <3> QED
      BY <3>1, <3>2
  <2> QED
    BY <1>1, <2>1 DEF StreamsNested, Reader!StreamsNested, ReadsBack, ReadsAll
<1>2. CASE length # Null
  BY <1>2, ReadingWhile, NestedWhile, ReadsBackWhile, ReadsAllWhile
<1> QED
  BY <1>1, <1>2

(***************************************************************************)
(* Whatever packet of well-formed messages arrives, whole or cut at any    *)
(* byte, and whatever a caller reads or drops of it: every stream of the   *)
(* reader stays in the one around it, also those of arrays, whose end      *)
(* dropArray finds by counting brackets.                                   *)
(* (stream.hpp:61-67, server.hpp:183-198, 244-266, 425-431)                *)
(***************************************************************************)
THEOREM StreamsStayNested == RoundTrip => []StreamsNested
<1>1. PacketInv /\ Content /\ Tiles /\ Nesting /\ TripInv => StreamsNested
  BY WhileReading
<1> QED
  BY <1>1, TripAlways, PTL

(***************************************************************************)
(* What a reader is given is what was put, for any nesting of bundles and  *)
(* arrays and any arguments: the element with its address and depth, and   *)
(* the argument with its number, its tag and its words, also behind what   *)
(* was dropped and in what is left of a packet that was cut.               *)
(* (client.hpp:133-311 against server.hpp:53-465)                          *)
(***************************************************************************)
THEOREM WhatIsPutIsRead == RoundTrip => []ReadsBack
<1>1. PacketInv /\ Content /\ Tiles /\ Nesting /\ TripInv => ReadsBack
  BY WhileReading
<1> QED
  BY <1>1, TripAlways, PTL

(***************************************************************************)
(* A packet that arrives whole is never refused: no call of a reader that  *)
(* follows the tags throws, and a reader that is through has seen every    *)
(* element, and every argument of a message to its last byte.              *)
(* (server.hpp:68-105, 183-266, 371-431)                                   *)
(***************************************************************************)
THEOREM WholePacketIsRead == RoundTrip => []ReadsAll
<1>1. PacketInv /\ Content /\ Tiles /\ Nesting /\ TripInv => ReadsAll
  BY WhileReading
<1> QED
  BY <1>1, TripAlways, PTL

-----------------------------------------------------------------------------
(***************************************************************************)
(* Texts are sequences of tokens, and what is printed grows at its end.    *)
(***************************************************************************)
Piece(token) == IF token[1] = "end" THEN << >> ELSE << token >>

Continues(W, s, t) == \E r \in Seq(W) : t = s \o r

LEMMA AppendBehind ==
  ASSUME NEW W, NEW s \in Seq(W), NEW t \in Seq(W), NEW x \in W
  PROVE  s \o Append(t, x) = Append(s \o t, x)
<1>1. << x >> \in Seq(W)
  OBVIOUS
<1>2. Append(t, x) = t \o << x >> /\ Append(s \o t, x) = (s \o t) \o << x >>
  BY AppendIsConcat, ConcatProperties
<1> QED
  BY <1>1, <1>2, ConcatAssociative

LEMMA SubSeqNext ==
  ASSUME NEW W, NEW t \in Seq(W), NEW j \in Nat, j + 1 <= Len(t)
  PROVE  /\ SubSeq(t, 1, j) \in Seq(W) /\ Len(SubSeq(t, 1, j)) = j
         /\ t[j + 1] \in W
         /\ SubSeq(t, 1, j + 1) = Append(SubSeq(t, 1, j), t[j + 1])
<1>1. Len(t) \in Nat /\ \A i \in 1 .. Len(t) : t[i] \in W
  BY LenProperties, ElementOfSeq
<1> PICK k : k = j + 1
  OBVIOUS
<1>2. /\ k \in Nat /\ k \in 1 .. Len(t) /\ 1 .. j \subseteq 1 .. Len(t)
      /\ 1 .. k \subseteq 1 .. Len(t)
  BY <1>1
<1> PICK a : a = SubSeq(t, 1, j)
  OBVIOUS
<1> PICK b : b = SubSeq(t, 1, k)
  OBVIOUS
<1>3. a \in Seq(W) /\ Len(a) = j /\ \A i \in 1 .. j : a[i] = t[i]
  <2>1. \A i \in 1 .. j : t[i] \in W
    BY <1>1, <1>2
  <2>2. /\ a \in Seq(W) /\ Len(a) = (IF 1 <= j THEN j - 1 + 1 ELSE 0)
        /\ \A i \in 1 .. j - 1 + 1 : a[i] = t[1 + i - 1]
    BY <2>1, SubSeqProperties
  <2> QED
    BY <2>2
<1>4. b \in Seq(W) /\ Len(b) = k /\ \A i \in 1 .. k : b[i] = t[i]
  <2>1. \A i \in 1 .. k : t[i] \in W
    BY <1>1, <1>2
  <2>2. /\ b \in Seq(W) /\ Len(b) = (IF 1 <= k THEN k - 1 + 1 ELSE 0)
        /\ \A i \in 1 .. k - 1 + 1 : b[i] = t[1 + i - 1]
    BY <1>2, <2>1, SubSeqProperties
  <2> QED
    BY <1>2, <2>2
<1>5. t[k] \in W
  BY <1>1, <1>2
<1> PICK c : c = Append(a, t[k])
  OBVIOUS
<1>6. c \in Seq(W) /\ Len(c) = k /\ (\A i \in 1 .. j : c[i] = a[i]) /\ c[k] = t[k]
  BY <1>3, <1>5, AppendProperties
<1>7. \A i \in 1 .. k : b[i] = c[i]
  <2>1. \A i \in 1 .. k : i \in 1 .. j \/ i = k
    BY <1>2
  <2> QED
    BY <1>3, <1>4, <1>6, <2>1
<1>8. b = c
  BY <1>4, <1>6, <1>7, SeqEqual
<1> QED
  BY <1>3, <1>5, <1>8

LEMMA SubSeqWhole ==
  ASSUME NEW W, NEW t \in Seq(W)
  PROVE  SubSeq(t, 1, Len(t)) = t /\ SubSeq(t, 1, 0) = << >> /\ Len(t) \in Nat
<1>1. Len(t) \in Nat
  BY LenProperties
<1>2. SubSeq(t, 1, 0) = << >>
  BY SubSeqEmpty
<1>3. \A i \in 1 .. Len(t) : t[i] \in W
  BY ElementOfSeq
<1> PICK n : n = Len(t)
  OBVIOUS
<1> PICK b : b = SubSeq(t, 1, n)
  OBVIOUS
<1>4. /\ b \in Seq(W) /\ Len(b) = (IF 1 <= n THEN n - 1 + 1 ELSE 0)
      /\ \A i \in 1 .. n - 1 + 1 : b[i] = t[1 + i - 1]
  BY <1>1, <1>3, SubSeqProperties
<1>5. Len(b) = n /\ \A i \in 1 .. n : b[i] = t[i]
  BY <1>1, <1>4
<1>6. b = t
  BY <1>4, <1>5, SeqEqual
<1> QED
  BY <1>1, <1>2, <1>6

(* What holds of a text, and of a text with one token more, holds of what  *)
(* extends it.                                                             *)
LEMMA ExtendsByOne ==
  ASSUME NEW W, NEW s \in Seq(W), NEW t \in Seq(W), NEW T, s \in T,
         \A u \in Seq(W) : \A i \in 1 .. Len(t) : u \in T => Append(u, t[i]) \in T
  PROVE  s \o t \in T
<1> DEFINE S == {j \in Nat : j <= Len(t) => s \o SubSeq(t, 1, j) \in T}
<1>1. Len(t) \in Nat /\ SubSeq(t, 1, 0) = << >> /\ SubSeq(t, 1, Len(t)) = t
  BY SubSeqWhole
<1>2. 0 \in S
  BY <1>1, ConcatEmptySeq
<1>3. ASSUME NEW j \in Nat, j \in S
      PROVE  j + 1 \in S
  <2> SUFFICES ASSUME j + 1 <= Len(t) PROVE s \o SubSeq(t, 1, j + 1) \in T
    OBVIOUS
  <2>1. /\ SubSeq(t, 1, j) \in Seq(W)
        /\ t[j + 1] \in W
        /\ SubSeq(t, 1, j + 1) = Append(SubSeq(t, 1, j), t[j + 1])
    BY SubSeqNext
  <2>2. s \o SubSeq(t, 1, j + 1) = Append(s \o SubSeq(t, 1, j), t[j + 1])
    BY <2>1, AppendBehind
  <2>3. s \o SubSeq(t, 1, j) \in Seq(W)
    BY <2>1, ConcatProperties
  <2>4. s \o SubSeq(t, 1, j) \in T /\ j + 1 \in 1 .. Len(t)
    BY <1>1, <1>3
  <2> QED
    BY <2>2, <2>3, <2>4
<1> HIDE DEF S
<1>4. Nat \subseteq S
  BY <1>2, <1>3, AllNumbers
<1>5. Len(t) \in S
  BY <1>1, <1>4
<1>6. Len(t) <= Len(t)
  BY <1>1
<1>7. s \o SubSeq(t, 1, Len(t)) \in T
  BY <1>5, <1>6 DEF S
<1> QED
  BY ONLY <1>1, <1>7

LEMMA InnerTyped ==
  ASSUME NEW W, NEW s \in Seq(W)
  PROVE  Inner(s) \in Seq(W)
<1> PICK n : n = Len(s)
  OBVIOUS
<1>1. n \in Nat /\ DOMAIN s = 1 .. n /\ \A i \in 1 .. n : s[i] \in W
  BY LenProperties, ElementOfSeq
<1>2. \A y \in W : Piece(y) \in Seq(W)
  <2> SUFFICES ASSUME NEW y \in W PROVE Piece(y) \in Seq(W)
    OBVIOUS
  <2>1. << y >> \in Seq(W) /\ << >> \in Seq(W)
    OBVIOUS
  <2> QED
    BY <2>1 DEF Piece
<1> PICK ps : ps = [i \in 1 .. n |-> Piece(s[i])]
  OBVIOUS
<1>3. ps \in Seq(Seq(W))
  BY <1>1, <1>2
<1>4. Inner(s) = FlattenSeq(ps)
  BY <1>1 DEF Inner, Piece
<1>5. << >> \in Seq(W)
  BY EmptySeq
<1> QED
  BY <1>3, <1>4, <1>5, FlattenAppend

LEMMA InnerAppend ==
  ASSUME NEW W, NEW s \in Seq(W), NEW x \in W
  PROVE  /\ Inner(s) \in Seq(W)
         /\ Inner(Append(s, x)) = IF x[1] = "end" THEN Inner(s) ELSE Append(Inner(s), x)
<1> PICK n : n = Len(s)
  OBVIOUS
<1>1. n \in Nat /\ DOMAIN s = 1 .. n /\ \A i \in 1 .. n : s[i] \in W
  BY LenProperties, ElementOfSeq
<1>2. \A y \in W : Piece(y) \in Seq(W)
  <2> SUFFICES ASSUME NEW y \in W PROVE Piece(y) \in Seq(W)
    OBVIOUS
  <2>1. << y >> \in Seq(W) /\ << >> \in Seq(W)
    OBVIOUS
  <2> QED
    BY <2>1 DEF Piece
<1> PICK ps : ps = [i \in 1 .. n |-> Piece(s[i])]
  OBVIOUS
<1>3. ps \in Seq(Seq(W)) /\ Len(ps) = n /\ \A i \in 1 .. n : ps[i] = Piece(s[i])
  BY <1>1, <1>2
<1>4. Inner(s) = FlattenSeq(ps)
  BY <1>1 DEF Inner, Piece
<1> PICK t : t = Append(s, x)
  OBVIOUS
<1>5. /\ t \in Seq(W) /\ Len(t) = n + 1 /\ (\A i \in 1 .. n : t[i] = s[i]) /\ t[n + 1] = x
  BY AppendProperties
<1> PICK qs : qs = [i \in 1 .. n + 1 |-> Piece(t[i])]
  OBVIOUS
<1>6. Inner(t) = FlattenSeq(qs)
  <2>1. DOMAIN t = 1 .. n + 1
    BY <1>5, LenProperties
  <2> QED
    BY <2>1 DEF Inner, Piece
<1>7. Piece(x) \in Seq(W)
  BY <1>2
<1>8. qs = Append(ps, Piece(x))
  <2>1. \A i \in 1 .. n + 1 : i \in 1 .. n \/ i = n + 1
    BY <1>1
  <2>2. \A i \in 1 .. n + 1 : t[i] \in W
    BY <1>5, ElementOfSeq
  <2>3. qs \in Seq(Seq(W)) /\ Len(qs) = n + 1 /\ \A i \in 1 .. n + 1 : qs[i] = Piece(t[i])
    <3>1. n + 1 \in Nat /\ \A i \in 1 .. n + 1 : Piece(t[i]) \in Seq(W)
      BY <1>1, <1>2, <1>5, <2>2
    <3> QED
      BY <3>1
  <2> PICK p : p = Piece(x)
    OBVIOUS
  <2> PICK rs : rs = Append(ps, p)
    OBVIOUS
  <2>4. /\ rs \in Seq(Seq(W)) /\ Len(rs) = n + 1
        /\ (\A i \in 1 .. n : rs[i] = ps[i]) /\ rs[n + 1] = p
    BY <1>3, <1>7, AppendProperties
  <2>5. \A i \in 1 .. n + 1 : qs[i] = rs[i]
    BY <1>3, <1>5, <2>1, <2>3, <2>4
  <2>6. qs = rs
    BY <2>3, <2>4, <2>5, SeqEqual
  <2> QED
    BY <2>6
<1>9. FlattenSeq(ps) \in Seq(W) /\ FlattenSeq(qs) = FlattenSeq(ps) \o Piece(x)
  BY <1>3, <1>7, <1>8, FlattenAppend
<1>10. Inner(s) \in Seq(W) /\ Inner(t) = Inner(s) \o Piece(x)
  BY <1>4, <1>6, <1>9
<1>11. CASE x[1] = "end"
  <2>1. Piece(x) = << >>
    BY <1>11 DEF Piece
  <2> QED
    BY <1>10, <1>11, <2>1, ConcatEmptySeq
<1>12. CASE x[1] # "end"
  <2>1. Piece(x) = << x >>
    BY <1>12 DEF Piece
  <2>2. Append(Inner(s), x) = Inner(s) \o << x >>
    BY <1>10, AppendIsConcat
  <2> QED
    BY <1>10, <1>12, <2>1, <2>2
<1> QED
  BY <1>11, <1>12

LEMMA InnerEmpty == Inner(<< >>) = << >>
<1>1. [i \in DOMAIN << >> |-> IF << >>[i][1] = "end" THEN << >> ELSE << << >>[i] >>] = << >>
  OBVIOUS
<1> QED
  BY <1>1, FlattenEmpty DEF Inner

(* The ends of bundles are left out.                                       *)
LEMMA InnerOfEnds ==
  ASSUME NEW W, NEW s \in Seq(W), NEW t \in Seq(W), \A i \in 1 .. Len(t) : t[i][1] = "end"
  PROVE  Inner(s \o t) = Inner(s)
<1> DEFINE T == {u \in Seq(W) : Inner(u) = Inner(s)}
<1>1. s \in T
  OBVIOUS
<1>2. ASSUME NEW u \in Seq(W), NEW i \in 1 .. Len(t), u \in T
      PROVE  Append(u, t[i]) \in T
  <2>1. t[i] \in W
    BY ElementOfSeq
  <2>2. Append(u, t[i]) \in Seq(W)
    BY <2>1, AppendProperties
  <2>3. Inner(Append(u, t[i])) = Inner(u)
    BY <2>1, InnerAppend
  <2> QED
    BY <1>2, <2>2, <2>3
<1>3. s \o t \in T
  <2> HIDE DEF T
  <2> QED
    BY <1>1, <1>2, ExtendsByOne
<1> QED
  BY <1>3

LEMMA ContinuesPrefix ==
  ASSUME NEW W, NEW s \in Seq(W), NEW t, Continues(W, s, t)
  PROVE  t \in Seq(W) /\ IsPrefix(s, t)
<1>1. PICK r \in Seq(W) : t = s \o r
  BY DEF Continues
<1>2. Len(s) \in Nat /\ Len(r) \in Nat
  BY LenProperties
<1>3. /\ t \in Seq(W) /\ Len(t) = Len(s) + Len(r)
      /\ \A i \in 1 .. Len(s) + Len(r) : t[i] = IF i <= Len(s) THEN s[i] ELSE r[i - Len(s)]
  BY <1>1, ConcatProperties
<1> PICK n : n = Len(s)
  OBVIOUS
<1>4. \A i \in 1 .. n : s[i] \in W /\ t[i] = s[i]
  BY <1>2, <1>3, ElementOfSeq
<1>5. /\ SubSeq(t, 1, n) \in Seq(W) /\ Len(SubSeq(t, 1, n)) = (IF 1 <= n THEN n - 1 + 1 ELSE 0)
      /\ \A i \in 1 .. n - 1 + 1 : SubSeq(t, 1, n)[i] = t[1 + i - 1]
  <2>1. n \in Int /\ \A i \in 1 .. n : t[i] \in W
    BY <1>2, <1>4
  <2> QED
    BY <2>1, SubSeqProperties
<1>6. Len(SubSeq(t, 1, n)) = n /\ \A i \in 1 .. n : SubSeq(t, 1, n)[i] = s[i]
  BY <1>2, <1>4, <1>5
<1>7. SubSeq(t, 1, n) = s
  BY <1>5, <1>6, SeqEqual
<1>8. SubSeq(s, 1, n) = s
  BY SubSeqWhole
<1> QED
  BY <1>2, <1>3, <1>7, <1>8 DEF IsPrefix

LEMMA ContinuesOn ==
  ASSUME NEW W, NEW s \in Seq(W), NEW t, NEW u, Continues(W, s, t), Continues(W, t, u)
  PROVE  Continues(W, s, u)
<1>1. PICK r \in Seq(W) : t = s \o r
  BY DEF Continues
<1>2. PICK q \in Seq(W) : u = t \o q
  BY DEF Continues
<1>3. u = s \o (r \o q) /\ r \o q \in Seq(W)
  <2>1. s \in Seq(W) /\ r \in Seq(W) /\ q \in Seq(W)
    OBVIOUS
  <2>2. r \o q \in Seq(W)
    BY ONLY <2>1, ConcatProperties
  <2>3. (s \o r) \o q = s \o (r \o q)
    BY ONLY <2>1, ConcatAssociative
  <2> QED
    BY ONLY <1>1, <1>2, <2>2, <2>3
<1> QED
  BY <1>3 DEF Continues

LEMMA InnerContinues ==
  ASSUME NEW W, NEW s \in Seq(W), NEW t, Continues(W, s, t)
  PROVE  Inner(s) \in Seq(W) /\ Inner(t) \in Seq(W) /\ Continues(W, Inner(s), Inner(t))
<1>1. PICK r \in Seq(W) : t = s \o r
  BY DEF Continues
<1> DEFINE T == {u \in Seq(W) : Inner(u) \in Seq(W) /\ Continues(W, Inner(s), Inner(u))}
<1>2. ASSUME NEW u \in Seq(W), NEW i \in 1 .. Len(r), u \in T
      PROVE  Append(u, r[i]) \in T
  <2>1. r[i] \in W
    BY ElementOfSeq
  <2>2. Append(u, r[i]) \in Seq(W)
    BY <2>1, AppendProperties
  <2>3. CASE r[i][1] = "end"
    <3>1. Inner(Append(u, r[i])) = Inner(u)
      BY <2>1, <2>3, InnerAppend
    <3> QED
      BY <1>2, <2>2, <3>1
  <2>4. CASE r[i][1] # "end"
    <3>1. Inner(Append(u, r[i])) = Append(Inner(u), r[i])
      BY <2>1, <2>4, InnerAppend
    <3>2. PICK q \in Seq(W) : Inner(u) = Inner(s) \o q
      BY <1>2 DEF Continues
    <3>3. Inner(s) \in Seq(W) /\ Inner(u) \in Seq(W)
      BY InnerTyped
    <3> PICK x : x = r[i]
      OBVIOUS
    <3> PICK a : a = Inner(s)
      OBVIOUS
    <3>4. Append(Inner(u), r[i]) = Inner(s) \o Append(q, r[i])
      <4>1. a \in Seq(W) /\ x \in W
        BY <2>1, <3>3
      <4>2. a \o Append(q, x) = Append(a \o q, x)
        BY <4>1, AppendBehind
      <4> QED
        BY <3>2, <4>2
    <3>5. Append(q, r[i]) \in Seq(W) /\ Append(Inner(u), r[i]) \in Seq(W)
      BY <2>1, <3>3, AppendProperties
    <3>6. Continues(W, Inner(s), Append(Inner(u), r[i]))
      BY <3>4, <3>5 DEF Continues
    <3> QED
      BY <2>2, <3>1, <3>5, <3>6
  <2> QED
    BY <2>3, <2>4
<1>3. s \in T
  <2>1. Inner(s) \in Seq(W) /\ << >> \in Seq(W)
    BY InnerTyped, EmptySeq
  <2>2. Inner(s) = Inner(s) \o << >>
    BY <2>1, ConcatEmptySeq
  <2> QED
    BY <2>1, <2>2 DEF Continues
<1>4. s \o r \in T
  <2> HIDE DEF T
  <2> QED
    BY <1>2, <1>3, ExtendsByOne
<1>5. Inner(s) \in Seq(W)
  BY <1>3
<1> QED
  BY <1>1, <1>4, <1>5

-----------------------------------------------------------------------------
(***************************************************************************)
(* What a printer of the packet has written when it has seen k arguments   *)
(* of element e, and left q of the bundles that end with it.               *)
(***************************************************************************)
Headed(e) == <<e.kind, 4 * Cardinality(Around(e)), Heading(e)>>
BodyTo(e, k) == << Headed(e) >> \o [i \in 1 .. k |-> Token(e.put[i])]

Seen(e, k, q) == (TextUpTo(Rank(e) - 1) \o BodyTo(e, k)) \o SubSeq(Endings(e), 1, q)

Ending(d) == <<"end", 4 * d, << >> >>

Tokens ==
  {Headed(e) : e \in closed}
    \cup {Ending(d) : d \in Int}
    \cup UNION {{Token(e.put[i]) : i \in 1 .. Len(e.put)} : e \in closed}

(* Bundles have no arguments.                                              *)
NoneHasPut(es) == \A e \in es : e.kind = "bundle" => e.put = << >>
BundlesPutNothing == NoneHasPut(closed) /\ NoneHasPut({open[i] : i \in 1 .. Len(open)})

LEMMA PutTyped ==
  ASSUME Delivered, BundlesPutNothing, NEW e \in closed
  PROVE  e.put \in Seq(Args) /\ Len(e.put) \in Nat /\ DOMAIN e.put = 1 .. Len(e.put)
<1>1. e.kind = "bundle" => e.put = << >>
  BY DEF BundlesPutNothing, NoneHasPut
<1>2. e.kind = "message" => e.put \in Seq(Args)
  BY MessageHeld DEF IsMessage
<1>3. e.kind \in {"bundle", "message"}
  BY ElementsPlaced DEF ElementAt
<1>4. e.put \in Seq(Args)
  BY <1>1, <1>2, <1>3, EmptySeq
<1> QED
  BY <1>4, LenProperties

LEMMA BodyGrows ==
  ASSUME Delivered, BundlesPutNothing, NEW e \in closed, NEW k \in 0 .. Len(e.put)
  PROVE  /\ BodyTo(e, k) \in Seq(Tokens)
         /\ BodyTo(e, 0) = << Headed(e) >> /\ Headed(e) \in Tokens
         /\ BodyTo(e, Len(e.put)) = Body(e)
         /\ k < Len(e.put) => /\ Token(e.put[k + 1]) \in Tokens
                              /\ BodyTo(e, k + 1) = Append(BodyTo(e, k), Token(e.put[k + 1]))
<1> PICK n : n = Len(e.put)
  OBVIOUS
<1>1. n \in Nat /\ DOMAIN e.put = 1 .. n /\ k \in Nat /\ k <= n
  BY PutTyped
<1> PICK t : t = [i \in 1 .. n |-> Token(e.put[i])]
  OBVIOUS
<1>2. \A i \in 1 .. n : t[i] \in Tokens /\ t[i] = Token(e.put[i])
  <2> TAKE i \in 1 .. n
  <2>1. t[i] = Token(e.put[i])
    OBVIOUS
  <2>2. Token(e.put[i]) \in {Token(e.put[j]) : j \in 1 .. Len(e.put)}
    OBVIOUS
  <2>3. Token(e.put[i]) \in UNION {{Token(o.put[j]) : j \in 1 .. Len(o.put)} : o \in closed}
    BY <2>2
  <2> QED
    BY ONLY <2>1, <2>3 DEF Tokens
<1>3. t \in Seq(Tokens) /\ Len(t) = n
  <2>1. t \in [1 .. n -> Tokens]
    BY <1>2
  <2> QED
    BY <1>1, <2>1
<1>4. Headed(e) \in Tokens
  BY DEF Tokens
<1>5. << Headed(e) >> \in Seq(Tokens)
  BY <1>4
<1>6. ASSUME NEW j \in Nat, j <= n
      PROVE  /\ SubSeq(t, 1, j) = [i \in 1 .. j |-> Token(e.put[i])]
             /\ SubSeq(t, 1, j) \in Seq(Tokens)
             /\ BodyTo(e, j) = << Headed(e) >> \o SubSeq(t, 1, j)
  <2>1. \A i \in 1 .. j : t[i] \in Tokens /\ t[i] = Token(e.put[i])
    <3>1. j \in Nat /\ n \in Nat /\ j <= n
      BY <1>1, <1>6
    <3>2. \A i \in 1 .. j : i \in 1 .. n
      BY ONLY <3>1
    <3> QED
      BY ONLY <1>2, <3>2
  <2> PICK s : s = [i \in 1 .. j |-> Token(e.put[i])]
    OBVIOUS
  <2>2. \A i \in 1 .. j : s[i] = t[i] /\ s[i] \in Tokens
    BY <2>1
  <2>3. s \in Seq(Tokens) /\ Len(s) = j
    <3>1. s \in [1 .. j -> Tokens]
      BY ONLY <2>2, s = [i \in 1 .. j |-> Token(e.put[i])]
    <3> QED
      BY ONLY <3>1, j \in Nat
  <2>4. /\ SubSeq(t, 1, j) \in Seq(Tokens) /\ Len(SubSeq(t, 1, j)) = (IF 1 <= j THEN j - 1 + 1 ELSE 0)
        /\ \A i \in 1 .. j - 1 + 1 : SubSeq(t, 1, j)[i] = t[1 + i - 1]
    <3>1. \A i \in 1 .. j : t[i] \in Tokens
      BY <2>1
    <3>2. j \in Int /\ 1 \in Int
      BY ONLY j \in Nat
    <3> QED
      BY ONLY <3>1, <3>2, SubSeqProperties
  <2>5. Len(SubSeq(t, 1, j)) = j /\ \A i \in 1 .. j : SubSeq(t, 1, j)[i] = s[i]
    BY <2>2, <2>4
  <2>6. SubSeq(t, 1, j) = s
    BY <2>3, <2>4, <2>5, SeqEqual
  <2> QED
    BY <2>3, <2>6 DEF BodyTo
<1>7. BodyTo(e, k) \in Seq(Tokens)
  <2>1. SubSeq(t, 1, k) \in Seq(Tokens) /\ BodyTo(e, k) = << Headed(e) >> \o SubSeq(t, 1, k)
    BY <1>1, <1>6
  <2> QED
    BY <1>5, <2>1, ConcatProperties
<1>8. BodyTo(e, 0) = << Headed(e) >>
  <2>1. SubSeq(t, 1, 0) = << >>
    BY SubSeqEmpty
  <2>2. BodyTo(e, 0) = << Headed(e) >> \o << >>
    BY <1>1, <1>6, <2>1
  <2> QED
    BY <1>5, <2>2, ConcatEmptySeq
<1>9. BodyTo(e, n) = Body(e)
  <2>1. [i \in 1 .. n |-> Token(e.put[i])] = [i \in DOMAIN e.put |-> Token(e.put[i])]
    BY <1>1
  <2> QED
    BY <2>1 DEF BodyTo, Body, Headed
<1>10. ASSUME k < n
       PROVE  /\ Token(e.put[k + 1]) \in Tokens
              /\ BodyTo(e, k + 1) = Append(BodyTo(e, k), Token(e.put[k + 1]))
  <2> PICK h : h = k + 1
    OBVIOUS
  <2>1. h \in 1 .. n /\ h \in Nat /\ h <= n
    BY <1>1, <1>10
  <2>2. t[h] = Token(e.put[h]) /\ t[h] \in Tokens
    BY <1>2, <2>1
  <2>3. SubSeq(t, 1, h) = Append(SubSeq(t, 1, k), t[h])
    BY <1>1, <1>3, <1>10, SubSeqNext
  <2>4. /\ BodyTo(e, k) = << Headed(e) >> \o SubSeq(t, 1, k) /\ SubSeq(t, 1, k) \in Seq(Tokens)
        /\ BodyTo(e, h) = << Headed(e) >> \o SubSeq(t, 1, h)
    BY <1>1, <1>6, <2>1
  <2> PICK a : a = SubSeq(t, 1, k)
    OBVIOUS
  <2> PICK x : x = t[h]
    OBVIOUS
  <2>5. a \in Seq(Tokens) /\ x \in Tokens
    BY <2>2, <2>4
  <2>6. << Headed(e) >> \o Append(a, x) = Append(<< Headed(e) >> \o a, x)
    BY <1>5, <2>5, AppendBehind
  <2> QED
    BY <2>2, <2>3, <2>4, <2>6
<1> QED
  BY <1>4, <1>7, <1>8, <1>9, <1>10

(* An element with others in it does not end a bundle; otherwise the       *)
(* bundles that end with it do, from the innermost on.                     *)
Leaf(e) == \A o \in closed : e \notin Around(o)

LEMMA EndingsAre ==
  ASSUME Delivered, NEW e \in closed
  PROVE  /\ IsFiniteSet(EndingWith(e)) /\ Cardinality(EndingWith(e)) \in Nat
         /\ Cardinality(Around(e)) \in Nat /\ Level(e) \in Nat
         /\ Endings(e) \in Seq(Tokens) /\ Len(Endings(e)) \in Nat
         /\ \A i \in 1 .. Len(Endings(e)) : Endings(e)[i] = Ending(Level(e) - i)
         /\ Len(Endings(e)) = IF Leaf(e) THEN Cardinality(EndingWith(e)) ELSE 0
<1>1. IsFiniteSet(Around(e)) /\ Cardinality(Around(e)) \in Nat
  BY RankFinite
<1>2. IsFiniteSet(Around(e) \cup {e})
  BY <1>1, FS_AddElement
<1> PICK n : n = Cardinality(EndingWith(e))
  OBVIOUS
<1>3. IsFiniteSet(EndingWith(e)) /\ n \in Nat
  <2>1. EndingWith(e) \in SUBSET (Around(e) \cup {e})
    BY DEF EndingWith
  <2>2. IsFiniteSet(EndingWith(e))
    BY <1>2, <2>1, FS_Subset
  <2> QED
    BY <2>2, FS_CardinalityType
<1>4. Level(e) \in Nat
  BY <1>1 DEF Level
<1>5. Leaf(e) <=> ~\E o \in closed : e \in Around(o)
  BY DEF Leaf
<1>6. CASE ~Leaf(e)
  <2>1. Endings(e) = << >>
    BY <1>5, <1>6 DEF Endings
  <2>2. << >> \in Seq(Tokens) /\ Len(<< >>) = 0
    BY EmptySeq
  <2> QED
    BY <1>1, <1>3, <1>4, <1>6, <2>1, <2>2
<1>7. CASE Leaf(e)
  <2> PICK v : v = Level(e)
    OBVIOUS
  <2> PICK t : t = [i \in 1 .. n |-> Ending(v - i)]
    OBVIOUS
  <2>1. Endings(e) = t
    BY <1>5, <1>7 DEF Endings, Ending
  <2>2. \A i \in 1 .. n : Ending(v - i) \in Tokens
    <3>1. \A i \in 1 .. n : v - i \in Int
      BY <1>3, <1>4
    <3>2. ASSUME NEW d \in Int
          PROVE  Ending(d) \in Tokens
      <4>1. Ending(d) \in {Ending(x) : x \in Int}
        OBVIOUS
      <4> QED
        BY ONLY <4>1 DEF Tokens
    <3> QED
      BY <3>1, <3>2
  <2>3. t \in Seq(Tokens) /\ Len(t) = n /\ \A i \in 1 .. n : t[i] = Ending(v - i)
    BY <1>3, <2>2
  <2> QED
    BY <1>1, <1>3, <1>4, <1>7, <2>1, <2>3
<1> QED
  BY <1>6, <1>7

LEMMA PrintedTyped ==
  ASSUME Delivered, BundlesPutNothing, NEW e \in closed
  PROVE  Printed(e) \in Seq(Tokens) /\ Printed(e) = BodyTo(e, Len(e.put)) \o Endings(e)
<1>1. Len(e.put) \in 0 .. Len(e.put)
  BY PutTyped
<1>2. Body(e) = BodyTo(e, Len(e.put)) /\ BodyTo(e, Len(e.put)) \in Seq(Tokens)
  BY <1>1, BodyGrows
<1>3. Endings(e) \in Seq(Tokens)
  BY EndingsAre
<1> QED
  BY <1>2, <1>3, ConcatProperties DEF Printed

(* Every number up to how many there are is the number of an element.      *)
LEMMA NumbersGiven ==
  ASSUME Delivered
  PROVE  /\ \A e \in closed : Rank(e) \in 1 .. Cardinality(closed) /\ Nth(Rank(e)) = e
         /\ \A n \in 1 .. Cardinality(closed) : Nth(n) \in closed /\ Rank(Nth(n)) = n
<1> PICK N : N = Cardinality(closed)
  OBVIOUS
<1>1. N \in Nat /\ IsFiniteSet(closed)
  BY RankFinite
<1>2. ASSUME NEW e \in closed
      PROVE  Rank(e) \in 1 .. N /\ Nth(Rank(e)) = e
  <2>1. IsFiniteSet(UpTo(e)) /\ Rank(e) = Cardinality(UpTo(e)) /\ Rank(e) \in Nat /\ Rank(e) <= N
    BY RankFinite
  <2>2. e.first \in Nat
    BY ElementsPlaced DEF ElementAt
  <2>3. e \in UpTo(e)
    BY <2>2 DEF UpTo
  <2>4. Rank(e) # 0
    BY <2>1, <2>3, FS_EmptySet
  <2> QED
    BY <1>1, <2>1, <2>4, NthIs
<1> PICK f : f = [e \in closed |-> Rank(e)]
  OBVIOUS
<1>3. f \in Injection(closed, 1 .. N)
  <2>1. f \in [closed -> 1 .. N]
    BY <1>2
  <2>2. \A a, b \in closed : f[a] = f[b] => a = b
    BY <1>2
  <2> QED
    BY <2>1, <2>2 DEF Injection, IsInjective
<1>4. IsFiniteSet(1 .. N) /\ Cardinality(1 .. N) = N
  BY <1>1, FS_Interval
<1>5. f \in Surjection(closed, 1 .. N)
  BY <1>3, <1>4, FS_Injection
<1>6. \A n \in 1 .. N : \E e \in closed : f[e] = n
  BY <1>5 DEF Surjection
<1>7. ASSUME NEW n \in 1 .. N
      PROVE  Nth(n) \in closed /\ Rank(Nth(n)) = n
  <2>1. PICK e \in closed : Rank(e) = n
    BY <1>6
  <2>2. Nth(n) = e
    BY <1>2, <2>1
  <2> QED
    BY <2>1, <2>2
<1> QED
  BY <1>2, <1>7

LEMMA TextGrows ==
  ASSUME Delivered, BundlesPutNothing
  PROVE  /\ TextUpTo(0) = << >>
         /\ \A n \in 0 .. Cardinality(closed) : TextUpTo(n) \in Seq(Tokens)
         /\ \A e \in closed : /\ TextUpTo(Rank(e) - 1) \in Seq(Tokens)
                              /\ TextUpTo(Rank(e)) = TextUpTo(Rank(e) - 1) \o Printed(e)
<1> PICK N : N = Cardinality(closed)
  OBVIOUS
<1>1. N \in Nat
  BY RankFinite
<1>2. ASSUME NEW n \in 0 .. N
      PROVE  [k \in 1 .. n |-> Printed(Nth(k))] \in Seq(Seq(Tokens))
  <2>1. \A k \in 1 .. n : Nth(k) \in closed
    BY <1>1, NumbersGiven
  <2>2. \A k \in 1 .. n : Printed(Nth(k)) \in Seq(Tokens)
    BY <2>1, PrintedTyped
  <2> QED
    BY <1>1, <2>2
<1>3. ASSUME NEW n \in 0 .. N
      PROVE  TextUpTo(n) \in Seq(Tokens)
  <2>1. << >> \in Seq(Tokens)
    BY EmptySeq
  <2> QED
    BY <1>2, <2>1, FlattenAppend DEF TextUpTo
<1>4. TextUpTo(0) = << >>
  <2>1. [k \in 1 .. 0 |-> Printed(Nth(k))] = << >>
    OBVIOUS
  <2> QED
    BY <2>1, FlattenEmpty DEF TextUpTo
<1>5. ASSUME NEW e \in closed
      PROVE  /\ TextUpTo(Rank(e) - 1) \in Seq(Tokens)
             /\ TextUpTo(Rank(e)) = TextUpTo(Rank(e) - 1) \o Printed(e)
  <2> PICK n : n = Rank(e)
    OBVIOUS
  <2> PICK m : m = n - 1
    OBVIOUS
  <2>1. n \in 1 .. N /\ Nth(n) = e
    BY NumbersGiven
  <2>2. m \in 0 .. N /\ n \in 0 .. N /\ n = m + 1 /\ m \in Nat
    BY <1>1, <2>1
  <2> PICK ss : ss = [k \in 1 .. m |-> Printed(Nth(k))]
    OBVIOUS
  <2> PICK ts : ts = [k \in 1 .. n |-> Printed(Nth(k))]
    OBVIOUS
  <2>3. ss \in Seq(Seq(Tokens)) /\ ts \in Seq(Seq(Tokens)) /\ Len(ss) = m /\ Len(ts) = n
    <3>1. ss \in Seq(Seq(Tokens)) /\ ts \in Seq(Seq(Tokens))
      BY <1>2, <2>2
    <3>2. n \in Nat /\ m \in Nat
      BY <2>2
    <3> QED
      BY <3>1, <3>2
  <2> PICK p : p = Printed(e)
    OBVIOUS
  <2>4. p \in Seq(Tokens)
    BY PrintedTyped
  <2> PICK us : us = Append(ss, p)
    OBVIOUS
  <2>5. /\ us \in Seq(Seq(Tokens)) /\ Len(us) = m + 1
        /\ (\A k \in 1 .. m : us[k] = ss[k]) /\ us[m + 1] = p
    <3>1. /\ Append(ss, p) \in Seq(Seq(Tokens)) /\ Len(Append(ss, p)) = Len(ss) + 1
          /\ \A k \in 1 .. Len(ss) : Append(ss, p)[k] = ss[k]
          /\ Append(ss, p)[Len(ss) + 1] = p
      <4>1. ss \in Seq(Seq(Tokens)) /\ p \in Seq(Tokens)
        BY <2>3, <2>4
      <4> QED
        BY ONLY <4>1, AppendProperties
    <3> QED
      BY <2>3, <3>1
  <2>6. \A k \in 1 .. n : k \in 1 .. m \/ k = m + 1
    BY <2>2
  <2>7. \A k \in 1 .. n : us[k] = ts[k]
    BY <2>1, <2>2, <2>5, <2>6
  <2>8. us = ts
    BY <2>2, <2>3, <2>5, <2>7, SeqEqual
  <2>9. FlattenSeq(us) = FlattenSeq(ss) \o p
    BY <2>3, <2>4, FlattenAppend
  <2>10. TextUpTo(m) = FlattenSeq(ss) /\ TextUpTo(n) = FlattenSeq(ts)
    BY DEF TextUpTo
  <2> QED
    BY <1>3, <2>2, <2>8, <2>9, <2>10
<1> QED
  BY <1>3, <1>4, <1>5

LEMMA TextContinues ==
  ASSUME Delivered, BundlesPutNothing, NEW e \in closed
  PROVE  Continues(Tokens, TextUpTo(Rank(e)), TextUpTo(Cardinality(closed)))
<1> PICK N : N = Cardinality(closed)
  OBVIOUS
<1> PICK n : n = Rank(e)
  OBVIOUS
<1>1. n \in 1 .. N /\ N \in Nat
  BY NumbersGiven, RankFinite
<1> DEFINE S == {j \in Nat : n + j <= N => Continues(Tokens, TextUpTo(n), TextUpTo(n + j))}
<1>2. 0 \in S
  <2>1. TextUpTo(n) \in Seq(Tokens) /\ << >> \in Seq(Tokens)
    BY <1>1, TextGrows, EmptySeq
  <2>2. TextUpTo(n) = TextUpTo(n) \o << >> /\ n + 0 = n
    BY <1>1, <2>1, ConcatEmptySeq
  <2> QED
    BY <2>1, <2>2 DEF Continues
<1>3. ASSUME NEW j \in Nat, j \in S
      PROVE  j + 1 \in S
  <2> SUFFICES ASSUME n + (j + 1) <= N
               PROVE  Continues(Tokens, TextUpTo(n), TextUpTo(n + (j + 1)))
    OBVIOUS
  <2> PICK k : k = n + j
    OBVIOUS
  <2> PICK h : h = n + (j + 1)
    OBVIOUS
  <2>1. k \in 0 .. N /\ h \in 1 .. N /\ h - 1 = k
    BY <1>1
  <2>2. Continues(Tokens, TextUpTo(n), TextUpTo(k))
    BY <1>3, <2>1
  <2>3. PICK o \in closed : Rank(o) = h
    BY <2>1, NumbersGiven
  <2>4. TextUpTo(h) = TextUpTo(k) \o Printed(o) /\ Printed(o) \in Seq(Tokens)
    BY <2>1, <2>3, TextGrows, PrintedTyped
  <2>5. Continues(Tokens, TextUpTo(k), TextUpTo(h))
    BY <2>4 DEF Continues
  <2>6. TextUpTo(n) \in Seq(Tokens)
    BY <1>1, TextGrows
  <2> QED
    BY <2>2, <2>5, <2>6, ContinuesOn
<1> HIDE DEF S
<1>4. Nat \subseteq S
  BY <1>2, <1>3, AllNumbers
<1>5. N - n \in Nat /\ n + (N - n) = N
  BY <1>1
<1>6. N - n \in S
  BY <1>4, <1>5
<1>7. n + (N - n) <= N
  BY <1>1
<1>8. Continues(Tokens, TextUpTo(n), TextUpTo(n + (N - n)))
  BY <1>6, <1>7 DEF S
<1> QED
  BY <1>5, <1>8

LEMMA SeenTyped ==
  ASSUME Delivered, BundlesPutNothing, NEW e \in closed, NEW k \in 0 .. Len(e.put),
         NEW q \in 0 .. Len(Endings(e))
  PROVE  /\ TextUpTo(Rank(e) - 1) \o BodyTo(e, k) \in Seq(Tokens)
         /\ Seen(e, k, 0) = TextUpTo(Rank(e) - 1) \o BodyTo(e, k)
         /\ SubSeq(Endings(e), 1, q) \in Seq(Tokens)
         /\ Seen(e, k, q) \in Seq(Tokens)
         /\ Inner(Seen(e, k, q)) = Inner(Seen(e, k, 0))
<1> PICK a : a = TextUpTo(Rank(e) - 1) \o BodyTo(e, k)
  OBVIOUS
<1> PICK es : es = Endings(e)
  OBVIOUS
<1>1. a \in Seq(Tokens)
  <2>1. TextUpTo(Rank(e) - 1) \in Seq(Tokens) /\ BodyTo(e, k) \in Seq(Tokens)
    BY TextGrows, BodyGrows
  <2> QED
    BY <2>1, ConcatProperties
<1>2. /\ es \in Seq(Tokens) /\ Len(es) \in Nat
      /\ \A i \in 1 .. Len(es) : es[i] = Ending(Level(e) - i)
  BY EndingsAre
<1>3. q \in Nat /\ q <= Len(es) /\ 1 .. q \subseteq 1 .. Len(es)
  BY <1>2
<1> PICK s : s = SubSeq(es, 1, q)
  OBVIOUS
<1>4. /\ s \in Seq(Tokens) /\ Len(s) = (IF 1 <= q THEN q - 1 + 1 ELSE 0)
      /\ \A i \in 1 .. q - 1 + 1 : s[i] = es[1 + i - 1]
  <2>1. \A i \in 1 .. q : es[i] \in Tokens
    BY <1>2, <1>3, ElementOfSeq
  <2>2. q \in Int /\ 1 \in Int
    BY <1>3
  <2> QED
    BY ONLY s = SubSeq(es, 1, q), <2>1, <2>2, SubSeqProperties
<1>5. Len(s) = q /\ \A i \in 1 .. q : s[i] = es[i]
  BY <1>3, <1>4
<1>6. \A i \in 1 .. Len(s) : s[i][1] = "end"
  BY <1>2, <1>3, <1>5 DEF Ending
<1>7. Seen(e, k, q) = a \o s /\ a \o s \in Seq(Tokens)
  BY <1>1, <1>4, ConcatProperties DEF Seen
<1>8. Seen(e, k, 0) = a
  <2>1. SubSeq(es, 1, 0) = << >>
    BY SubSeqEmpty
  <2>2. a \o << >> = a
    BY <1>1, ConcatEmptySeq
  <2> QED
    BY <2>1, <2>2 DEF Seen
<1>9. Inner(a \o s) = Inner(a)
  BY <1>1, <1>4, <1>6, InnerOfEnds
<1> QED
  BY <1>1, <1>4, <1>7, <1>8, <1>9

(* An argument more, and a bundle more that was left.                      *)
LEMMA SeenArgument ==
  ASSUME Delivered, BundlesPutNothing, NEW e \in closed, NEW k \in Nat, k < Len(e.put)
  PROVE  /\ Token(e.put[k + 1]) \in Tokens
         /\ Seen(e, k + 1, 0) = Append(Seen(e, k, 0), Token(e.put[k + 1]))
<1> PICK h : h = k + 1
  OBVIOUS
<1>1. /\ k \in 0 .. Len(e.put) /\ h \in 0 .. Len(e.put)
      /\ 0 \in 0 .. Len(Endings(e))
  <2>1. Len(e.put) \in Nat /\ Len(Endings(e)) \in Nat
    BY PutTyped, EndingsAre
  <2> QED
    BY <2>1
<1>2. /\ Seen(e, k, 0) = TextUpTo(Rank(e) - 1) \o BodyTo(e, k)
      /\ Seen(e, h, 0) = TextUpTo(Rank(e) - 1) \o BodyTo(e, h)
  BY <1>1, SeenTyped
<1> PICK a : a = TextUpTo(Rank(e) - 1)
  OBVIOUS
<1> PICK b : b = BodyTo(e, k)
  OBVIOUS
<1> PICK x : x = Token(e.put[h])
  OBVIOUS
<1>3. a \in Seq(Tokens) /\ b \in Seq(Tokens) /\ x \in Tokens /\ BodyTo(e, h) = Append(b, x)
  BY <1>1, TextGrows, BodyGrows
<1>4. a \o Append(b, x) = Append(a \o b, x)
  BY ONLY <1>3, AppendBehind
<1> QED
  BY <1>2, <1>3, <1>4

LEMMA SeenEnding ==
  ASSUME Delivered, BundlesPutNothing, NEW e \in closed, NEW k \in 0 .. Len(e.put),
         NEW q \in Nat, q < Len(Endings(e))
  PROVE  /\ Ending(Level(e) - (q + 1)) \in Tokens
         /\ Seen(e, k, q + 1) = Append(Seen(e, k, q), Ending(Level(e) - (q + 1)))
<1> PICK h : h = q + 1
  OBVIOUS
<1> PICK es : es = Endings(e)
  OBVIOUS
<1>1. /\ es \in Seq(Tokens) /\ Len(es) \in Nat
      /\ \A i \in 1 .. Len(es) : es[i] = Ending(Level(e) - i)
  BY EndingsAre
<1>2. h \in 1 .. Len(es) /\ q \in 0 .. Len(es) /\ h <= Len(es)
  BY <1>1
<1>3. es[h] = Ending(Level(e) - h) /\ es[h] \in Tokens
  BY <1>1, <1>2, ElementOfSeq
<1> PICK a : a = TextUpTo(Rank(e) - 1) \o BodyTo(e, k)
  OBVIOUS
<1> PICK s : s = SubSeq(es, 1, q)
  OBVIOUS
<1> PICK x : x = es[h]
  OBVIOUS
<1>4. a \in Seq(Tokens) /\ s \in Seq(Tokens)
  BY <1>2, SeenTyped
<1>5. SubSeq(es, 1, h) = Append(s, x)
  BY <1>1, <1>2, SubSeqNext
<1>6. a \o Append(s, x) = Append(a \o s, x)
  <2>1. x \in Tokens
    BY <1>3
  <2> QED
    BY ONLY <1>4, <2>1, AppendBehind
<1>7. Seen(e, k, q) = a \o s /\ Seen(e, k, h) = a \o SubSeq(es, 1, h)
  BY DEF Seen
<1> QED
  BY <1>3, <1>5, <1>6, <1>7

(* All of an element.                                                      *)
LEMMA SeenWhole ==
  ASSUME Delivered, BundlesPutNothing, NEW e \in closed
  PROVE  Seen(e, Len(e.put), Len(Endings(e))) = TextUpTo(Rank(e))
<1> PICK a : a = TextUpTo(Rank(e) - 1)
  OBVIOUS
<1> PICK b : b = BodyTo(e, Len(e.put))
  OBVIOUS
<1> PICK es : es = Endings(e)
  OBVIOUS
<1>1. Len(e.put) \in 0 .. Len(e.put)
  BY PutTyped
<1>2. a \in Seq(Tokens) /\ b \in Seq(Tokens) /\ es \in Seq(Tokens)
  BY <1>1, TextGrows, BodyGrows, EndingsAre
<1>3. TextUpTo(Rank(e)) = a \o (b \o es)
  BY TextGrows, PrintedTyped
<1>4. (a \o b) \o es = a \o (b \o es)
  BY <1>2, ConcatAssociative
<1>5. SubSeq(es, 1, Len(es)) = es
  BY <1>2, SubSeqWhole
<1> QED
  BY <1>3, <1>4, <1>5 DEF Seen

(* What was seen is the beginning of it.                                   *)
LEMMA SeenContinues ==
  ASSUME Delivered, BundlesPutNothing, NEW e \in closed, NEW k \in 0 .. Len(e.put),
         NEW q \in 0 .. Len(Endings(e)), q = 0 \/ k = Len(e.put)
  PROVE  Continues(Tokens, Seen(e, k, q), TextUpTo(Cardinality(closed)))
<1> PICK es : es = Endings(e)
  OBVIOUS
<1> PICK put : put = e.put
  OBVIOUS
<1>1. Len(put) \in Nat /\ Len(es) \in Nat /\ k \in Nat /\ q \in Nat
  BY PutTyped, EndingsAre
<1> DEFINE T == {u \in Seq(Tokens) : Continues(Tokens, Seen(e, k, q), u)}
<1>2. Seen(e, k, q) \in T
  <2>1. Seen(e, k, q) \in Seq(Tokens) /\ << >> \in Seq(Tokens)
    BY SeenTyped, EmptySeq
  <2>2. Seen(e, k, q) = Seen(e, k, q) \o << >>
    BY <2>1, ConcatEmptySeq
  <2> QED
    BY <2>1, <2>2 DEF Continues
<1>3. ASSUME NEW u \in T, NEW x \in Tokens
      PROVE  Append(u, x) \in T
  <2>1. PICK r \in Seq(Tokens) : u = Seen(e, k, q) \o r
    BY DEF Continues
  <2> PICK s : s = Seen(e, k, q)
    OBVIOUS
  <2>2. s \in Seq(Tokens)
    BY SeenTyped
  <2>3. Append(u, x) = s \o Append(r, x)
    <3>1. r \in Seq(Tokens) /\ x \in Tokens
      BY <2>1
    <3>2. s \o Append(r, x) = Append(s \o r, x)
      BY ONLY <2>2, <3>1, AppendBehind
    <3> QED
      BY <2>1, <3>2
  <2>4. Append(r, x) \in Seq(Tokens) /\ Append(u, x) \in Seq(Tokens)
    BY <2>1, AppendProperties
  <2> QED
    BY <2>3, <2>4 DEF Continues
<1> HIDE DEF T
<1>4. ASSUME q = 0
      PROVE  Seen(e, Len(put), 0) \in T
  <2> DEFINE S == {j \in Nat : k + j <= Len(put) => Seen(e, k + j, 0) \in T}
  <2>1. 0 \in S
    BY <1>1, <1>2, <1>4
  <2>2. ASSUME NEW j \in Nat, j \in S
        PROVE  j + 1 \in S
    <3> SUFFICES ASSUME k + (j + 1) <= Len(put)
                 PROVE  Seen(e, k + (j + 1), 0) \in T
      OBVIOUS
    <3> PICK h : h = k + j
      OBVIOUS
    <3>1. h \in Nat /\ h < Len(put) /\ k + (j + 1) = h + 1
      BY <1>1
    <3>2. Seen(e, h, 0) \in T
      BY <2>2, <3>1
    <3>3. /\ Token(e.put[h + 1]) \in Tokens
          /\ Seen(e, h + 1, 0) = Append(Seen(e, h, 0), Token(e.put[h + 1]))
      BY <3>1, SeenArgument
    <3> QED
      BY <1>3, <3>1, <3>2, <3>3
  <2> HIDE DEF S
  <2>3. Nat \subseteq S
    BY <2>1, <2>2, AllNumbers
  <2>4. Len(put) - k \in Nat /\ k + (Len(put) - k) = Len(put)
    BY <1>1
  <2>5. Len(put) - k \in S
    BY <2>3, <2>4
  <2> QED
    BY <2>4, <2>5 DEF S
<1>5. Seen(e, Len(put), q) \in T
  BY <1>2, <1>4
<1>6. Seen(e, Len(put), Len(es)) \in T
  <2> DEFINE S == {j \in Nat : q + j <= Len(es) => Seen(e, Len(put), q + j) \in T}
  <2>1. 0 \in S
    BY <1>1, <1>5
  <2>2. ASSUME NEW j \in Nat, j \in S
        PROVE  j + 1 \in S
    <3> SUFFICES ASSUME q + (j + 1) <= Len(es)
                 PROVE  Seen(e, Len(put), q + (j + 1)) \in T
      OBVIOUS
    <3> PICK h : h = q + j
      OBVIOUS
    <3> PICK n : n = Len(put)
      OBVIOUS
    <3>1. h \in Nat /\ h < Len(es) /\ q + (j + 1) = h + 1 /\ n \in 0 .. Len(e.put)
      BY <1>1
    <3>2. Seen(e, n, h) \in T
      BY <2>2, <3>1
    <3>3. /\ Ending(Level(e) - (h + 1)) \in Tokens
          /\ Seen(e, n, h + 1) = Append(Seen(e, n, h), Ending(Level(e) - (h + 1)))
      BY <3>1, SeenEnding
    <3> QED
      BY <1>3, <3>1, <3>2, <3>3
  <2> HIDE DEF S
  <2>3. Nat \subseteq S
    BY <2>1, <2>2, AllNumbers
  <2>4. Len(es) - q \in Nat /\ q + (Len(es) - q) = Len(es)
    BY <1>1
  <2>5. Len(es) - q \in S
    BY <2>3, <2>4
  <2> QED
    BY <2>4, <2>5 DEF S
<1>7. Continues(Tokens, Seen(e, k, q), TextUpTo(Rank(e)))
  BY <1>6, SeenWhole DEF T
<1>8. Seen(e, k, q) \in Seq(Tokens)
  BY SeenTyped
<1> QED
  BY <1>7, <1>8, TextContinues, ContinuesOn

-----------------------------------------------------------------------------
(***************************************************************************)
(* The bundles that end where an element does.                             *)
(***************************************************************************)
Left(e, d) == {b \in EndingWith(e) : Cardinality(Around(b)) >= d}

LEMMA AroundLess ==
  ASSUME Delivered, NEW e \in closed, NEW b \in Around(e)
  PROVE  /\ b \in closed /\ b.kind = "bundle" /\ b # e
         /\ b.first < e.first /\ e.last <= b.last
         /\ Cardinality(Around(b)) < Cardinality(Around(e))
<1>1. b \in closed /\ b.kind = "bundle" /\ b # e /\ b.first <= e.first /\ e.last <= b.last
  BY DEF Around
<1>2. ElementAt(b) /\ ElementAt(e)
  BY <1>1, ElementsPlaced
<1>3. /\ b.first \in Nat /\ e.first \in Nat /\ b.last \in Nat /\ e.last \in Nat
      /\ b.first # e.first
  BY <1>1, <1>2, FirstsDiffer DEF ElementAt
<1>4. b.first < e.first
  BY <1>1, <1>3
<1>5. ASSUME NEW o \in Around(b)
      PROVE  o \in Around(e)
  <2>1. o \in closed /\ o.kind = "bundle" /\ o.first <= b.first /\ b.last <= o.last
    BY DEF Around
  <2>2. o.first \in Nat /\ o.last \in Nat
    BY <2>1, ElementsPlaced DEF ElementAt
  <2>3. o.first <= e.first /\ e.last <= o.last /\ o # e
    BY <1>1, <1>3, <1>4, <2>1, <2>2
  <2> QED
    BY <2>1, <2>3 DEF Around
<1>6. Around(b) \cup {b} \subseteq Around(e) /\ b \notin Around(b)
  BY <1>5 DEF Around
<1>7. /\ IsFiniteSet(Around(b)) /\ Cardinality(Around(b)) \in Nat
      /\ IsFiniteSet(Around(e)) /\ Cardinality(Around(e)) \in Nat
  BY RankFinite
<1>8. Cardinality(Around(b) \cup {b}) = Cardinality(Around(b)) + 1
  BY <1>6, <1>7, FS_AddElement
<1>9. Cardinality(Around(b) \cup {b}) <= Cardinality(Around(e))
  BY <1>6, <1>7, FS_Subset
<1> QED
  BY <1>1, <1>4, <1>7, <1>8, <1>9

(* Of two bundles that hold an element, or are it, one holds the other.    *)
LEMMA OneInOther ==
  ASSUME Delivered, NEW e \in closed, NEW b \in closed, NEW c \in closed,
         b.kind = "bundle", c.kind = "bundle",
         b.first <= e.first, e.last <= b.last, c.first <= e.first, e.last <= c.last
  PROVE  b = c \/ b \in Around(c) \/ c \in Around(b)
<1>1. ASSUME NEW x \in closed, NEW y \in closed, x.kind = "bundle", x.first < y.first,
             y.first <= e.first, e.last <= x.last
      PROVE  x \in Around(y)
  <2>1. /\ x.first \in Nat /\ x.last \in Nat /\ y.first \in Nat /\ y.last \in Nat
        /\ e.first \in Nat /\ e.last \in Nat /\ e.first + 8 <= e.last
    BY ElementsPlaced DEF ElementAt
  <2>2. /\ y.slot \in Nat /\ y.first = y.slot + 4
        /\ x.last <= y.slot \/ Holding(x, y)
    BY <1>1, InOrderOfPlace
  <2>3. Holding(x, y)
    BY <1>1, <2>1, <2>2
  <2>4. x # y /\ x.first <= y.first /\ y.last <= x.last
    BY <1>1, <2>1, <2>3 DEF Holding
  <2> QED
    BY <1>1, <2>4 DEF Around
<1>2. b.first \in Nat /\ c.first \in Nat
  BY ElementsPlaced DEF ElementAt
<1>3. CASE b.first = c.first
  BY <1>3, FirstsDiffer
<1>4. CASE b.first < c.first
  BY <1>1, <1>4
<1>5. CASE c.first < b.first
  BY <1>1, <1>5
<1> QED
  BY <1>2, <1>3, <1>4, <1>5

LEMMA EndingCovers ==
  ASSUME Delivered, NEW e \in closed, NEW b \in EndingWith(e)
  PROVE  /\ b \in closed /\ b.kind = "bundle" /\ b.last = e.last /\ b.first <= e.first
         /\ b = e \/ b \in Around(e)
<1>1. b \in Around(e) \cup {e} /\ b.kind = "bundle" /\ b.last = e.last
  BY DEF EndingWith
<1>2. e.first \in Nat
  BY ElementsPlaced DEF ElementAt
<1> QED
  BY <1>1, <1>2 DEF Around

(* A reader that has just entered an element has left none.                *)
LEMMA NoneLeft ==
  ASSUME Delivered, NEW e \in closed
  PROVE  Left(e, Level(e)) = {} /\ Cardinality(Left(e, Level(e))) = 0
<1>1. Cardinality(Around(e)) \in Nat
  BY RankFinite
<1>2. ASSUME NEW b \in EndingWith(e)
      PROVE  ~(Cardinality(Around(b)) >= Level(e))
  <2>1. b.kind = "bundle" /\ (b = e \/ b \in Around(e))
    BY EndingCovers
  <2>2. CASE b = e
    BY <1>1, <2>1, <2>2 DEF Level
  <2>3. CASE b \in Around(e)
    <3>1. Cardinality(Around(b)) < Cardinality(Around(e)) /\ Cardinality(Around(b)) \in Nat
      BY <2>3, AroundLess, RankFinite
    <3> QED
      BY <1>1, <3>1 DEF Level
  <2> QED
    BY <2>1, <2>2, <2>3
<1>3. Left(e, Level(e)) = {}
  BY <1>2 DEF Left
<1> QED
  BY <1>3, FS_EmptySet

(* A reader that goes on in the bundle around has left all of them.        *)
LEMMA AllLeft ==
  ASSUME Delivered, NEW e \in closed, NEW B \in Around(e), e.last < B.last
  PROVE  Left(e, Cardinality(Around(B)) + 1) = EndingWith(e)
<1>1. /\ B \in closed /\ B.kind = "bundle" /\ B.first < e.first /\ e.last <= B.last
      /\ Cardinality(Around(B)) < Cardinality(Around(e))
  BY AroundLess
<1>2. /\ B.first \in Nat /\ B.last \in Nat /\ e.first \in Nat /\ e.last \in Nat
      /\ Cardinality(Around(B)) \in Nat /\ Cardinality(Around(e)) \in Nat
  BY <1>1, ElementsPlaced, RankFinite DEF ElementAt
<1>3. ASSUME NEW b \in EndingWith(e)
      PROVE  Cardinality(Around(b)) >= Cardinality(Around(B)) + 1
  <2>1. /\ b \in closed /\ b.kind = "bundle" /\ b.last = e.last /\ b.first <= e.first
        /\ b = e \/ b \in Around(e)
    BY EndingCovers
  <2>2. CASE b = e
    BY <1>1, <1>2, <2>2
  <2>3. CASE b \in Around(e)
    <3>1. b = B \/ b \in Around(B) \/ B \in Around(b)
      BY <1>1, <1>2, <2>1, OneInOther
    <3>2. b # B
      BY <1>2, <2>1
    <3>3. b \notin Around(B)
      <4>1. b \in Around(B) => B.last <= b.last
        BY DEF Around
      <4> QED
        BY <1>2, <2>1, <4>1
    <3>4. B \in Around(b)
      BY <3>1, <3>2, <3>3
    <3>5. Cardinality(Around(B)) < Cardinality(Around(b)) /\ Cardinality(Around(b)) \in Nat
      BY <2>1, <3>4, AroundLess, RankFinite
    <3> QED
      BY <1>2, <3>5
  <2> QED
    BY <2>1, <2>2, <2>3
<1> QED
  BY <1>3 DEF Left

(* A reader that leaves a bundle has left one more.                        *)
LEMMA OneMoreLeft ==
  ASSUME Delivered, NEW e \in closed, NEW B \in EndingWith(e), NEW d, d = Cardinality(Around(B))
  PROVE  /\ Cardinality(Left(e, d)) = Cardinality(Left(e, d + 1)) + 1
         /\ Cardinality(Left(e, d + 1)) \in Nat
         /\ Cardinality(Left(e, d)) <= Cardinality(EndingWith(e))
<1>1. /\ B \in closed /\ B.kind = "bundle" /\ B.last = e.last /\ B.first <= e.first
      /\ d \in Nat
  BY EndingCovers, RankFinite
<1>2. e.last \in Nat
  BY ElementsPlaced DEF ElementAt
<1>3. ASSUME NEW b \in EndingWith(e), b # B
      PROVE  /\ Cardinality(Around(b)) \in Nat
             /\ Cardinality(Around(b)) >= d => Cardinality(Around(b)) >= d + 1
  <2>1. b \in closed /\ b.kind = "bundle" /\ b.last = e.last /\ b.first <= e.first
    BY EndingCovers
  <2>2. b \in Around(B) \/ B \in Around(b)
    <3>1. e.last <= b.last /\ e.last <= B.last
      BY <1>1, <1>2, <2>1
    <3> QED
      BY <1>1, <1>3, <2>1, <3>1, OneInOther
  <2>3. Cardinality(Around(b)) \in Nat
    BY RankFinite
  <2>4. CASE b \in Around(B)
    <3>1. Cardinality(Around(b)) < d
      BY <1>1, <2>4, AroundLess
    <3> QED
      BY <1>1, <2>3, <3>1
  <2>5. CASE B \in Around(b)
    <3>1. d < Cardinality(Around(b))
      BY <2>1, <2>5, AroundLess
    <3> QED
      BY <1>1, <2>3, <3>1
  <2> QED
    BY <2>2, <2>4, <2>5
<1>4. Left(e, d) = Left(e, d + 1) \cup {B} /\ B \notin Left(e, d + 1)
  <2>1. ASSUME NEW b \in EndingWith(e)
        PROVE  Cardinality(Around(b)) >= d <=> Cardinality(Around(b)) >= d + 1 \/ b = B
    <3>1. CASE b = B
      BY <1>1, <3>1
    <3>2. CASE b # B
      BY <1>1, <1>3, <3>2
    <3> QED
      BY <3>1, <3>2
  <2>2. ~(Cardinality(Around(B)) >= d + 1)
    BY <1>1
  <2> QED
    BY <2>1, <2>2 DEF Left
<1>5. /\ IsFiniteSet(EndingWith(e))
      /\ Left(e, d) \in SUBSET EndingWith(e) /\ Left(e, d + 1) \in SUBSET EndingWith(e)
  BY EndingsAre DEF Left
<1>6. IsFiniteSet(Left(e, d + 1)) /\ Cardinality(Left(e, d)) <= Cardinality(EndingWith(e))
  BY <1>5, FS_Subset
<1>7. /\ Cardinality(Left(e, d + 1)) \in Nat
      /\ Cardinality(Left(e, d + 1) \cup {B}) = Cardinality(Left(e, d + 1)) + 1
  BY <1>4, <1>6, FS_CardinalityType, FS_AddElement
<1> QED
  BY <1>4, <1>6, <1>7

(* Where a reader in bundle B is, when e is the last element it has seen.  *)
LEMMA LastSeen ==
  ASSUME Delivered, NEW bs, NEW n, NEW k, NEW B \in closed, ReadsBundle(bs, n, k, B),
         NEW pos, pos = bs[k].pos, NEW e \in closed, Rank(e) = Cardinality(Before(pos)),
         bs[k].end \in Nat
  PROVE  /\ e = B \/ (B \in Around(e) /\ e.last <= pos /\ Leaf(e))
         /\ \A o \in closed : o.first < pos => o.first <= e.first
         /\ pos = B.last => e.last = B.last /\ Leaf(e)
         /\ pos \in Nat /\ pos <= B.last
<1>1. /\ B.kind = "bundle" /\ pos \in Ends(B.first, B.last, closed) /\ Between(pos, B)
      /\ pos <= bs[k].end /\ bs[k].end <= B.last
  BY DEF ReadsBundle
<1>2. pos \in Nat /\ B.first + 16 <= pos /\ B.first \in Nat /\ B.last \in Nat
  BY <1>1, EndsNat
<1>3. pos <= B.last
  BY <1>1, <1>2
<1>4. \A o \in closed : /\ o.first \in Nat /\ o.last \in Nat /\ o.first + 8 <= o.last
                        /\ o.slot # Null => o.slot \in Nat /\ o.first = o.slot + 4
  BY ElementsPlaced DEF ElementAt
<1>5. /\ IsFiniteSet(Before(pos)) /\ IsFiniteSet(UpTo(e)) /\ Rank(e) = Cardinality(UpTo(e))
  BY RankFinite
<1>6. e.first < pos
  <2> SUFFICES ASSUME ~(e.first < pos) PROVE FALSE
    OBVIOUS
  <2>1. \A o \in closed : o.first < pos => o.first <= e.first /\ o # e
    BY <1>2, <1>4
  <2>2. Before(pos) \subseteq UpTo(e) /\ e \notin Before(pos)
    BY <2>1 DEF Before, UpTo
  <2>3. Before(pos) = UpTo(e)
    BY <1>5, <2>2, FS_Subset
  <2>4. e \in UpTo(e)
    BY <1>4 DEF UpTo
  <2> QED
    BY <2>2, <2>3, <2>4
<1>7. \A o \in closed : o.first < pos => o.first <= e.first
  <2>1. \A o \in closed : o.first <= e.first => o.first < pos
    BY <1>2, <1>4, <1>6
  <2>2. UpTo(e) \subseteq Before(pos)
    BY <2>1 DEF Before, UpTo
  <2>3. UpTo(e) = Before(pos)
    BY <1>5, <2>2, FS_Subset
  <2> QED
    BY <2>3 DEF Before, UpTo
<1>8. ASSUME e.last <= pos
      PROVE  Leaf(e)
  <2> SUFFICES ASSUME NEW o \in closed, e \in Around(o) PROVE FALSE
    BY DEF Leaf
  <2>1. e.first < o.first /\ o.last <= e.last
    BY AroundLess
  <2>2. o.first < pos
    BY <1>2, <1>4, <1>8, <2>1
  <2> QED
    BY <1>4, <1>7, <2>1, <2>2
<1>9. B.first <= e.first
  BY <1>2, <1>7
<1>10. CASE e = B
  BY <1>2, <1>3, <1>7, <1>8, <1>10
<1>11. CASE e # B
  <2>1. B.first < e.first
    BY <1>2, <1>4, <1>9, <1>11, FirstsDiffer
  <2>2. e.slot \in Nat /\ e.slot # Null /\ e.first = e.slot + 4 /\ (B.last <= e.slot \/ Holding(B, e))
    BY <2>1, InOrderOfPlace
  <2>3. Holding(B, e)
    BY <1>2, <1>3, <1>6, <2>2
  <2>4. e.last <= pos
    <3>1. e.last <= pos \/ pos <= e.slot
      BY <1>1, <2>3 DEF Between
    <3> QED
      BY <1>2, <1>6, <2>2, <3>1
  <2>5. B \in Around(e) /\ e.last <= B.last
    BY <1>1, <1>9, <1>11, <2>3 DEF Around, Holding
  <2>6. ASSUME pos = B.last
        PROVE  e.last = B.last
    <3> SUFFICES ASSUME e.last # B.last PROVE FALSE
      OBVIOUS
    <3>1. e.last < B.last
      BY <1>2, <1>4, <2>5
    <3>2. e.last \in Ends(B.first, B.last, closed)
      <4>1. e.slot >= B.first
        BY <1>2, <2>2, <2>3 DEF Holding, SizeBundle
      <4>2. e \in Inside(B.first, B.last, closed)
        BY <2>2, <2>5, <4>1 DEF Inside
      <4> QED
        BY <4>2 DEF Ends
    <3>3. PICK o \in Inside(B.first, B.last, closed) : o.slot = e.last
      <4>1. Tiled(B.first, B.last, closed)
        BY <1>1 DEF Delivered, Tiles, ClosedTiles
      <4> QED
        BY <3>1, <3>2, <4>1 DEF Tiled
    <3>4. o \in closed /\ o.slot # Null /\ o.last <= B.last
      BY <3>3 DEF Inside
    <3>5. o.first = e.last + 4 /\ o.first < pos
      BY <1>2, <1>4, <2>6, <3>3, <3>4
    <3> QED
      BY <1>4, <1>7, <3>4, <3>5
  <2> QED
    BY <1>2, <1>3, <1>7, <1>8, <2>4, <2>5, <2>6
<1> QED
  BY <1>10, <1>11


-----------------------------------------------------------------------------
(***************************************************************************)
(* The printer.  The inductive invariant says what its text is: all that   *)
(* is before the last element it entered, the arguments of this one it has *)
(* seen and, of a packet that is whole, the ends of the bundles it left.   *)
(***************************************************************************)
Shown(ms, e) == IF ms = << >> THEN Len(e.put) ELSE ms[Len(ms)].tags.pos - TagPos(e, 0)

EndsPrinted(bs, ms, e) ==
  /\ ms # << >> => Level(e) = Len(bs)
  /\ Level(e) - Len(bs) \in 0 .. Len(Endings(e))
  /\ Level(e) - Len(bs) = Cardinality(Left(e, Len(bs)))

Prints(n, bs, ms, text, e) ==
  /\ Shown(ms, e) \in 0 .. Len(e.put)
  /\ \A i \in 2 .. Len(ms) : Reader!CharAt(ms[i].tags.end) = "]"
  /\ text \in Seq(Tokens)
  /\ Inner(text) = Inner(Seen(e, Shown(ms, e), 0))
  /\ n = args.pos => /\ EndsPrinted(bs, ms, e)
                     /\ text = Seen(e, Shown(ms, e), Level(e) - Len(bs))

PrintsText(n, bs, ms, seen, text) ==
  \/ bs = << >> /\ ms = << >> /\ text = << >> /\ n # args.pos
  \/ \E e \in closed : Rank(e) = seen /\ Prints(n, bs, ms, text, e)

(* Where an argument is cut, its label is printed and nothing behind it.   *)
Labelled(text) ==
  \E e \in closed : \E j \in 1 .. e.numTags :
    /\ e.kind = "message"
    /\ Inner(text) = Append(Inner(Seen(e, j - 1, 0)), <<e.put[j].tag, << >> >>)

PrintInv ==
  length # Null /\ out # Null => \/ PrintsText(length, bundles, message, elements, out)
                                 \/ ~ok /\ Labelled(out)

(* The tags of arguments and the kinds of elements do not end a bundle.    *)
LEMMA TokensAre ==
  ASSUME Delivered, BundlesPutNothing, NEW e \in closed
  PROVE  /\ Headed(e) \in Tokens /\ Headed(e)[1] # "end"
         /\ e.kind = "message" =>
              \A j \in 1 .. e.numTags : /\ Token(e.put[j]) \in Tokens
                                        /\ Token(e.put[j])[1] # "end"
<1>1. e.kind \in {"bundle", "message"}
  BY ElementsPlaced DEF ElementAt
<1>2. Headed(e)[1] # "end"
  <2>1. Headed(e)[1] = e.kind
    BY DEF Headed
  <2> QED
    BY <1>1, <2>1
<1>3. Headed(e) \in Tokens
  BY DEF Tokens
<1>4. ASSUME e.kind = "message", NEW j \in 1 .. e.numTags
      PROVE  Token(e.put[j]) \in Tokens /\ Token(e.put[j])[1] # "end"
  <2>1. Len(e.put) = e.numTags /\ e.numTags \in Nat /\ e.put[j].tag \in ArgTags
    BY <1>4, MessageHeld DEF IsMessage
  <2>2. Token(e.put[j])[1] = e.put[j].tag
    BY DEF Token
  <2>3. Token(e.put[j]) \in Tokens
    <3> PICK i : i = j - 1
      OBVIOUS
    <3>1. i \in Nat /\ i + 1 = j /\ i < Len(e.put)
      BY <2>1
    <3> QED
      BY <3>1, SeenArgument
  <2> QED
    BY <2>1, <2>2, <2>3 DEF ArgTags
<1> QED
  BY <1>2, <1>3, <1>4

(* The heading of the element that is entered.                             *)
LEMMA HeadingPrints ==
  ASSUME Delivered, BundlesPutNothing, NEW n, NEW d, NEW e \in closed, Entered(d, e),
         NEW before, before = TextUpTo(Rank(e) - 1),
         NEW text \in Seq(Tokens), Inner(text) = Inner(before),
         n = args.pos => text = before,
         NEW new, new = Append(text, <<result'.tag, Reader!Indent(d), result'.value>>)
  PROVE  Prints(n, bundles', message', new, e)
<1> PICK h : h = Headed(e)
  OBVIOUS
<1>1. /\ d = Cardinality(Around(e)) /\ Len(bundles') = Level(e)
      /\ result'.tag = e.kind /\ result'.value = Heading(e)
      /\ IF e.kind = "bundle" THEN message' = << >>
         ELSE Len(message') = 1 /\ message'[1].tags.pos = TagPos(e, 0)
  BY DEF Entered
<1>2. h \in Tokens /\ h[1] # "end"
  BY TokensAre
<1>3. new = Append(text, h)
  <2>1. Reader!Indent(d) = 4 * Cardinality(Around(e))
    <3>1. Cardinality(Around(e)) \in Nat
      BY RankFinite
    <3> QED
      BY <1>1, <3>1 DEF Reader!Indent, Reader!kDefaultIndentWidth
  <2> QED
    BY <1>1, <2>1 DEF Headed
<1>4. Len(e.put) \in Nat /\ Len(Endings(e)) \in Nat /\ Level(e) \in Nat
  BY PutTyped, EndingsAre
<1>5. before \in Seq(Tokens)
  BY TextGrows
<1>6. Seen(e, 0, 0) = Append(before, h)
  <2>1. 0 \in 0 .. Len(e.put) /\ 0 \in 0 .. Len(Endings(e))
    BY <1>4
  <2>2. Seen(e, 0, 0) = before \o << h >>
    BY <2>1, SeenTyped, BodyGrows
  <2>3. Append(before, h) = before \o << h >>
    BY ONLY <1>2, <1>5, AppendIsConcat
  <2> QED
    BY <2>2, <2>3
<1>7. Shown(message', e) = 0
  <2>1. CASE e.kind = "bundle"
    <3>1. e.put = << >> /\ message' = << >>
      BY <1>1, <2>1 DEF BundlesPutNothing, NoneHasPut
    <3>2. Len(<< >>) = 0
      BY EmptySeq
    <3> QED
      BY <3>1, <3>2 DEF Shown
  <2>2. CASE e.kind # "bundle"
    <3>1. Len(message') = 1 /\ message'[1].tags.pos = TagPos(e, 0) /\ e.kind = "message"
      BY <1>1, <2>2, ElementsPlaced DEF ElementAt
    <3>2. message' # << >>
      <4>1. Len(<< >>) = 0
        BY EmptySeq
      <4>2. message' = << >> => Len(message') = 0
        BY <4>1
      <4> QED
        BY ONLY <3>1, <4>2
    <3>3. TagPos(e, 0) \in Nat
      <4>1. TagsStart(e) \in Nat
        BY <3>1, MessageHeld DEF MessageSizes
      <4> QED
        BY <4>1 DEF TagPos
    <3> QED
      BY <3>1, <3>2, <3>3 DEF Shown
  <2> QED
    BY <2>1, <2>2
<1>8. \A i \in 2 .. Len(message') : Reader!CharAt(message'[i].tags.end) = "]"
  <2>1. Len(message') \in {0, 1}
    BY <1>1, EmptySeq
  <2> QED
    BY <2>1
<1>9. new \in Seq(Tokens) /\ Inner(new) = Inner(Seen(e, 0, 0))
  <2>1. Append(text, h) \in Seq(Tokens) /\ Inner(Append(text, h)) = Append(Inner(text), h)
    BY <1>2, InnerAppend, AppendProperties
  <2>2. Inner(Append(before, h)) = Append(Inner(before), h)
    BY <1>2, <1>5, InnerAppend
  <2> QED
    BY <1>3, <1>6, <2>1, <2>2
<1>10. EndsPrinted(bundles', message', e) /\ Level(e) - Len(bundles') = 0
  <2>1. Level(e) - Len(bundles') = 0 /\ 0 \in 0 .. Len(Endings(e))
    BY <1>1, <1>4
  <2>2. Cardinality(Left(e, Len(bundles'))) = 0
    BY <1>1, NoneLeft
  <2> QED
    BY <1>1, <2>1, <2>2 DEF EndsPrinted
<1>11. n = args.pos => new = Seen(e, 0, 0)
  BY <1>3, <1>6
<1> QED
  BY <1>4, <1>7, <1>8, <1>9, <1>10, <1>11 DEF Prints

LEMMA BeginPrints ==
  ASSUME Delivered, BundlesPutNothing, Reader!Idle, NEW n \in Nat, n <= args.pos,
         Reader!BeginPrint(n)
  PROVE  PrintsText(n, bundles', message', elements', out')
<1>1. /\ Reader!Begin(n)
      /\ out' = IF ok' THEN Append(<< >>, <<result'.tag, Reader!Indent(0), result'.value>>)
                ELSE << >>
  BY DEF Reader!BeginPrint, Reader!Show
<1>2. bundles = << >> /\ message = << >> /\ elements = 0
  BY DEF Reader!Idle
<1>3. /\ Reads(n, bundles', message', ok', elements', result')
      /\ Reader!Throw \/ \E e \in closed : Entered(0, e)
  BY <1>1, BeginReads
<1>4. CASE Reader!Throw
  <2>1. /\ bundles' = << >> /\ message' = << >> /\ ok' = FALSE
    BY <1>2, <1>4 DEF Reader!Throw
  <2>2. n # args.pos
    BY <1>3, <2>1 DEF Reads
  <2> QED
    BY <1>1, <2>1, <2>2 DEF PrintsText
<1>5. CASE ~Reader!Throw
  <2>1. PICK e \in closed : Entered(0, e)
    BY <1>3, <1>5
  <2>2. ok' = TRUE /\ elements' = 1
    <3>1. Reader!EnterBundle(<< >>, 0, n) \/ Reader!EnterMessage(<< >>, 0, n)
      BY <1>1 DEF Reader!Begin
    <3>2. CASE Reader!EnterBundle(<< >>, 0, n)
      BY <1>2, <3>2 DEF Reader!EnterBundle, Reader!Return
    <3>3. CASE Reader!EnterMessage(<< >>, 0, n)
      <4>1. elements' = elements + 1 /\ ok' = TRUE
        BY <1>5, <3>3 DEF Reader!EnterMessage, Reader!Return
      <4> QED
        BY <1>2, <4>1
    <3> QED
      BY <3>1, <3>2, <3>3
  <2>3. Rank(e) = 1 /\ elements' = Rank(e)
    BY <2>1, <2>2 DEF Entered
  <2>4. TextUpTo(Rank(e) - 1) = << >>
    BY <2>3, TextGrows
  <2>5. << >> \in Seq(Tokens)
    BY EmptySeq
  <2>6. out' = Append(<< >>, <<result'.tag, Reader!Indent(0), result'.value>>)
    BY <1>1, <2>2
  <2>7. Prints(n, bundles', message', out', e)
    BY <2>1, <2>4, <2>5, <2>6, HeadingPrints
  <2> QED
    BY <2>3, <2>7 DEF PrintsText
<1> QED
  BY <1>4, <1>5


(* Before the next element of a bundle all of the last one is printed.     *)
LEMMA AllPrinted ==
  ASSUME Delivered, BundlesPutNothing, ReadsNow, ok = TRUE, message = << >>,
         NEW k, k = Len(bundles), k >= 1, bundles[k].pos # bundles[k].end,
         NEW e \in closed, Rank(e) = elements, NEW text,
         Prints(length, bundles, message, text, e)
  PROVE  /\ text \in Seq(Tokens)
         /\ Inner(text) = Inner(TextUpTo(Rank(e)))
         /\ length = args.pos => text = TextUpTo(Rank(e))
<1>1. /\ length \in Nat /\ InBundles(bundles, length)
      /\ elements = Cardinality(Before(Cursor(bundles, length)))
  BY DEF ReadsNow, Reads
<1>2. bundles \in Seq(Streams) /\ k \in Nat /\ k \in 1 .. Len(bundles) /\ bundles[k] \in Streams
  <2>1. bundles \in Seq(Streams)
    BY <1>1 DEF InBundles
  <2>2. k \in Nat /\ k \in 1 .. Len(bundles)
    BY <2>1
  <2> QED
    BY <2>1, <2>2, ElementOfSeq
<1>3. PICK B, o \in closed : ReadsBundle(bundles, length, k, B) /\ Holding(B, o)
                             /\ o.first = o.slot + 4 /\ o.slot \in Nat
  BY <1>1, ElementFound
<1> PICK pos : pos = bundles[k].pos
  OBVIOUS
<1> PICK end : end = bundles[k].end
  OBVIOUS
<1>4. pos \in Nat /\ end \in Nat /\ pos # end
  BY <1>2 DEF Streams
<1>5. Cursor(bundles, length) = pos
  BY <1>2, CursorAt
<1>6. /\ e = B \/ (B \in Around(e) /\ e.last <= pos /\ Leaf(e))
      /\ pos \in Nat /\ pos <= B.last
  BY <1>1, <1>3, <1>4, <1>5, LastSeen
<1>7. /\ Cardinality(Around(B)) = k - 1 /\ B.kind = "bundle" /\ pos <= end /\ end <= B.last
  BY <1>3 DEF ReadsBundle
<1>8. ASSUME length = args.pos
      PROVE  Level(e) - k = Len(Endings(e))
  <2>1. Level(e) - k = Cardinality(Left(e, k))
    BY <1>8 DEF Prints, EndsPrinted
  <2>2. CASE e = B
    <3>1. B.first \in Nat /\ B.last \in Nat
      BY ElementsPlaced DEF ElementAt
    <3>2. B \in Around(o)
      <4>1. o.slot >= B.first + 16 /\ o.last <= B.last
        BY <1>3 DEF Holding, SizeBundle
      <4>2. B.first <= o.first /\ o.first # B.first
        BY <1>3, <3>1, <4>1
      <4> QED
        BY <1>7, <4>1, <4>2 DEF Around
    <3>3. ~Leaf(e)
      BY <2>2, <3>2 DEF Leaf
    <3>4. Len(Endings(e)) = 0
      BY <3>3, EndingsAre
    <3>5. Level(e) = (k - 1) + 1
      BY <1>7, <2>2 DEF Level
    <3> QED
      BY <1>2, <3>4, <3>5
  <2>3. CASE B \in Around(e) /\ e.last <= pos /\ Leaf(e)
    <3>1. e.last < B.last
      <4>1. e.last \in Nat /\ B.last \in Nat
        BY ElementsPlaced DEF ElementAt
      <4> QED
        BY <1>4, <1>7, <2>3, <4>1
    <3>2. Left(e, Cardinality(Around(B)) + 1) = EndingWith(e)
      BY <2>3, <3>1, AllLeft
    <3>3. Cardinality(Around(B)) + 1 = k
      BY <1>2, <1>7
    <3>4. Len(Endings(e)) = Cardinality(EndingWith(e))
      BY <2>3, EndingsAre
    <3> QED
      BY <2>1, <3>2, <3>3, <3>4
  <2> QED
    BY <1>6, <2>2, <2>3
<1>9. Shown(message, e) = Len(e.put)
  BY DEF Shown
<1>10. Inner(text) = Inner(Seen(e, Len(e.put), 0)) /\ text \in Seq(Tokens)
  BY <1>9 DEF Prints
<1>11. Seen(e, Len(e.put), Len(Endings(e))) = TextUpTo(Rank(e))
  BY SeenWhole
<1>12. Len(e.put) \in 0 .. Len(e.put) /\ Len(Endings(e)) \in 0 .. Len(Endings(e))
  BY PutTyped, EndingsAre
<1>13. Inner(TextUpTo(Rank(e))) = Inner(Seen(e, Len(e.put), 0))
  BY <1>11, <1>12, SeenTyped
<1>14. length = args.pos => text = TextUpTo(Rank(e))
  <2> SUFFICES ASSUME length = args.pos PROVE text = TextUpTo(Rank(e))
    OBVIOUS
  <2>1. text = Seen(e, Len(e.put), Level(e) - k)
    BY <1>9 DEF Prints
  <2> QED
    BY <1>8, <1>11, <2>1
<1> QED
  BY <1>10, <1>13, <1>14

PrintsNow == PrintsText(length, bundles, message, elements, out)
PrintsNext == PrintsText(length, bundles', message', elements', out')

(* The last element of a packet that is being read.                        *)
LEMMA LastPrinted ==
  ASSUME PrintsNow, bundles # << >> \/ message # << >>
  PROVE  \E e \in closed : Rank(e) = elements /\ Prints(length, bundles, message, out, e)
BY DEF PrintsNow, PrintsText

(* An exception prints nothing.                                            *)
LEMMA ThrowPrints ==
  ASSUME PrintsNow, Reader!Throw, out' = out
  PROVE  PrintsNext
BY DEF PrintsNow, PrintsNext, Reader!Throw

LEMMA PacketPrints ==
  ASSUME Delivered, BundlesPutNothing, ReadsNow, PrintsNow, Reader!PrintPacket
  PROVE  PrintsNext
<1> PICK k : k = Len(bundles)
  OBVIOUS
<1> PICK token : token = <<result'.tag, Reader!Indent(k), result'.value>>
  OBVIOUS
<1>1. /\ Reader!NextPacket
      /\ out' = IF ok' THEN Append(out, token) ELSE out
  BY DEF Reader!PrintPacket, Reader!Show
<1>2. /\ ok = TRUE /\ message = << >> /\ bundles # << >> /\ bundles[k].pos # bundles[k].end
  <2>1. ok \in BOOLEAN
    BY DEF ReadsNow, Reads
  <2> QED
    BY <1>1, <2>1 DEF Reader!NextPacket, Reader!reading, Reader!AtEnd, Reader!innermost
<1>3. k >= 1
  <2>1. bundles \in Seq(Streams)
    BY DEF ReadsNow, Reads, InBundles
  <2> QED
    BY <1>2, <2>1, LastIs
<1>4. PICK e \in closed : Rank(e) = elements /\ Prints(length, bundles, message, out, e)
  BY <1>2, LastPrinted
<1> PICK text : text = out
  OBVIOUS
<1>5. /\ text \in Seq(Tokens)
      /\ Inner(text) = Inner(TextUpTo(Rank(e)))
      /\ length = args.pos => text = TextUpTo(Rank(e))
  BY <1>2, <1>3, <1>4, AllPrinted
<1>6. CASE Reader!Throw
  <2>1. out' = out
    BY <1>1, <1>6 DEF Reader!Throw
  <2> QED
    BY <1>6, <2>1, ThrowPrints
<1>7. CASE ~Reader!Throw
  <2>1. PICK o \in closed : Entered(k, o)
    BY <1>1, <1>7, NextPacketReads
  <2>2. ok' = TRUE /\ elements' = elements + 1
    <3> DEFINE Enters(as, first, last) == Reader!EnterBundle(as, first, last)
                                            \/ Reader!EnterMessage(as, first, last)
    <3>1. \E as, first, last : Enters(as, first, last)
      BY <1>1, <1>7 DEF Reader!NextPacket
    <3>2. PICK as, first, last : Enters(as, first, last)
      BY <3>1
    <3>3. CASE Reader!EnterBundle(as, first, last)
      BY <3>3 DEF Reader!EnterBundle, Reader!Return
    <3>4. CASE Reader!EnterMessage(as, first, last)
      BY <1>7, <3>4 DEF Reader!EnterMessage, Reader!Return
    <3> QED
      BY <3>2, <3>3, <3>4
  <2>3. Rank(o) = elements' /\ Rank(o) - 1 = Rank(e)
    <3>1. Rank(o) = elements' /\ Rank(e) \in Nat
      BY <2>1, RankFinite DEF Entered
    <3> QED
      BY <1>4, <2>2, <3>1
  <2> PICK before : before = TextUpTo(Rank(o) - 1)
    OBVIOUS
  <2> PICK new : new = Append(text, token)
    OBVIOUS
  <2>4. Inner(text) = Inner(before) /\ (length = args.pos => text = before)
    BY <1>5, <2>3
  <2>5. Prints(length, bundles', message', new, o)
    BY <1>5, <2>1, <2>4, HeadingPrints
  <2>6. out' = new
    BY <1>1, <2>2
  <2> QED
    BY <2>3, <2>5, <2>6 DEF PrintsNext, PrintsText
<1> QED
  BY <1>6, <1>7


LEMMA BundleEndPrints ==
  ASSUME Delivered, BundlesPutNothing, ReadsNow, PrintsNow, Reader!PrintBundleEnd
  PROVE  PrintsNext
<1> PICK k : k = Len(bundles)
  OBVIOUS
<1> PICK d : d = k - 1
  OBVIOUS
<1> PICK x : x = Ending(d)
  OBVIOUS
<1>1. /\ length \in Nat /\ length <= args.pos /\ InBundles(bundles, length)
      /\ ok = TRUE /\ elements = Cardinality(Before(Cursor(bundles, length)))
      /\ message = << >> /\ bundles # << >> /\ bundles[k].pos = bundles[k].end
      /\ bundles' = SubSeq(bundles, 1, k - 1)
      /\ message' = << >> /\ ok' = TRUE /\ elements' = elements
  <2>1. /\ length \in Nat /\ length <= args.pos /\ InBundles(bundles, length) /\ ok \in BOOLEAN
        /\ ok = TRUE => elements = Cardinality(Before(Cursor(bundles, length)))
    BY DEF ReadsNow, Reads
  <2>2. Reader!LeaveBundle
    BY DEF Reader!PrintBundleEnd
  <2> QED
    BY <2>1, <2>2 DEF Reader!LeaveBundle, Reader!AtEnd, Reader!innermost, Reader!reading
<1>2. out' = Append(out, <<"end", Reader!Indent(k - 1), << >> >>)
  BY <1>1 DEF Reader!PrintBundleEnd, Reader!Show
<1>3. bundles \in Seq(Streams) /\ k \in Nat /\ k >= 1 /\ bundles[k] \in Streams
  <2>1. bundles \in Seq(Streams)
    BY <1>1 DEF InBundles
  <2> QED
    BY <1>1, <2>1, LastIs
<1>4. Len(bundles') = d /\ d \in Nat /\ k = d + 1
  BY <1>1, <1>3, FrontIs
<1>5. out' = Append(out, x)
  <2>1. Reader!Indent(d) = 4 * d
    BY <1>4 DEF Reader!Indent, Reader!kDefaultIndentWidth
  <2> QED
    BY <1>2, <2>1 DEF Ending
<1> PICK pos : pos = bundles[k].pos
  OBVIOUS
<1>6. pos \in Nat /\ bundles[k].end = pos /\ Cursor(bundles, length) = pos
  <2>1. pos \in Nat /\ bundles[k].end = pos
    BY <1>1, <1>3 DEF Streams
  <2>2. Cursor(bundles, length) = IF k = 0 THEN length ELSE bundles[k].pos
    BY <1>3, CursorAt
  <2> QED
    BY <1>3, <2>1, <2>2
<1>7. PICK e \in closed : Rank(e) = elements /\ Prints(length, bundles, message, out, e)
  BY <1>1, LastPrinted
<1>8. PICK B \in closed : ReadsBundle(bundles, length, k, B)
  <2>1. k \in 1 .. Len(bundles)
    BY <1>3
  <2> QED
    BY <1>1, <2>1 DEF InBundles
<1>9. /\ e = B \/ B \in Around(e)
      /\ pos = B.last => e.last = B.last /\ Leaf(e)
      /\ pos <= B.last
  <2>1. Rank(e) = Cardinality(Before(pos)) /\ bundles[k].end \in Nat
    BY <1>1, <1>6, <1>7
  <2>2. Delivered /\ pos = bundles[k].pos
    OBVIOUS
  <2> QED
    BY ONLY <1>8, <2>1, <2>2, LastSeen
<1>10. /\ Cardinality(Around(B)) = k - 1 /\ B.kind = "bundle"
       /\ k > 1 => pos = B.last
       /\ k = 1 => pos = length
  BY <1>6, <1>8 DEF ReadsBundle
<1>11. Shown(message, e) = Len(e.put) /\ Shown(message', e) = Len(e.put)
  BY <1>1 DEF Shown
<1> PICK n : n = Len(e.put)
  OBVIOUS
<1>12. n \in 0 .. Len(e.put) /\ Len(Endings(e)) \in Nat /\ Level(e) \in Nat
  BY PutTyped, EndingsAre
<1> PICK text : text = out
  OBVIOUS
<1>13. /\ text \in Seq(Tokens) /\ Inner(text) = Inner(Seen(e, n, 0))
       /\ length = args.pos => /\ EndsPrinted(bundles, message, e)
                               /\ text = Seen(e, n, Level(e) - k)
  BY <1>7, <1>11 DEF Prints
<1>14. x \in Tokens /\ x[1] = "end"
  <2>1. x \in {Ending(i) : i \in Int}
    BY <1>4
  <2>2. x \in Tokens
    BY ONLY <2>1 DEF Tokens
  <2> QED
    BY <2>2 DEF Ending
<1>15. Append(text, x) \in Seq(Tokens) /\ Inner(Append(text, x)) = Inner(Seen(e, n, 0))
  BY <1>13, <1>14, InnerAppend, AppendProperties
<1>16. ASSUME length = args.pos
       PROVE  /\ EndsPrinted(bundles', message', e)
              /\ Append(text, x) = Seen(e, n, Level(e) - d)
  <2> PICK q : q = Level(e) - k
    OBVIOUS
  <2>1. q \in 0 .. Len(Endings(e)) /\ q = Cardinality(Left(e, k)) /\ text = Seen(e, n, q)
    BY <1>13, <1>16 DEF EndsPrinted
  <2>2. pos = B.last
    <3>1. B.last \in Nat /\ B.last <= args.pos
      BY ElementsPlaced DEF ElementAt
    <3>2. CASE k = 1
      BY <1>6, <1>9, <1>10, <1>16, <3>1, <3>2
    <3>3. CASE k # 1
      BY <1>3, <1>10, <3>3
    <3> QED
      BY <3>2, <3>3
  <2>3. B \in EndingWith(e) /\ Leaf(e)
    BY <1>9, <1>10, <2>2 DEF EndingWith
  <2>4. /\ Cardinality(Left(e, d)) = Cardinality(Left(e, d + 1)) + 1
        /\ Cardinality(Left(e, d)) <= Cardinality(EndingWith(e))
    <3>1. d = Cardinality(Around(B))
      BY <1>10
    <3> QED
      BY <2>3, <3>1, OneMoreLeft
  <2>5. Len(Endings(e)) = Cardinality(EndingWith(e))
    BY <2>3, EndingsAre
  <2>6. Cardinality(Left(e, d)) = q + 1 /\ q + 1 <= Len(Endings(e)) /\ q \in Nat
    BY <1>4, <2>1, <2>4, <2>5
  <2>7. Level(e) - d = q + 1 /\ Level(e) - (q + 1) = d
    BY <1>4, <1>12
  <2>8. q < Len(Endings(e))
    BY <1>12, <2>6
  <2>9. Seen(e, n, q + 1) = Append(Seen(e, n, q), Ending(Level(e) - (q + 1)))
    BY <1>12, <2>6, <2>8, SeenEnding
  <2>10. Append(text, x) = Seen(e, n, Level(e) - d)
    BY <2>1, <2>7, <2>9
  <2>11. EndsPrinted(bundles', message', e)
    <3>1. q + 1 \in 0 .. Len(Endings(e))
      BY <1>12, <2>6
    <3> QED
      BY <1>1, <1>4, <2>6, <2>7, <3>1 DEF EndsPrinted
  <2> QED
    BY <2>10, <2>11
<1>17. \A i \in 2 .. Len(message') : Reader!CharAt(message'[i].tags.end) = "]"
  <2>1. Len(message') = 0
    BY <1>1, EmptySeq
  <2> QED
    BY <2>1
<1>18. Prints(length, bundles', message', out', e)
  <2>1. out' = Append(text, x)
    BY <1>5
  <2> QED
    BY <1>4, <1>11, <1>12, <1>15, <1>16, <1>17, <2>1 DEF Prints
<1> QED
  BY <1>1, <1>7, <1>18 DEF PrintsNext, PrintsText

(* In a message, the element is the message.                               *)
LEMMA MessagePrinted ==
  ASSUME Delivered, BundlesPutNothing, ReadsNow, PrintsNow, message # << >>,
         NEW m \in closed, m.kind = "message", Rank(m) = elements
  PROVE  Prints(length, bundles, message, out, m)
<1>1. PICK e \in closed : Rank(e) = elements /\ Prints(length, bundles, message, out, e)
  BY LastPrinted
<1>2. Nth(Rank(e)) = e /\ Nth(Rank(m)) = m
  BY NthIs
<1> QED
  BY <1>1, <1>2

(* An argument more is printed.                                            *)
LEMMA OneMorePrints ==
  ASSUME Delivered, BundlesPutNothing, NEW m \in closed, m.kind = "message",
         NEW j \in 1 .. m.numTags, NEW n, NEW bs, NEW ms, ms # << >>, NEW text,
         Prints(n, bs, ms, text, m), Shown(ms, m) = j - 1,
         NEW as, Shown(as, m) = j,
         \A i \in 2 .. Len(as) : Reader!CharAt(as[i].tags.end) = "]",
         NEW new, new = Append(text, Token(m.put[j]))
  PROVE  Prints(n, bs, as, new, m)
<1> PICK x : x = Token(m.put[j])
  OBVIOUS
<1> PICK i : i = j - 1
  OBVIOUS
<1>1. Len(m.put) = m.numTags /\ m.numTags \in Nat
  BY MessageHeld DEF IsMessage
<1>2. i \in Nat /\ i < Len(m.put) /\ i + 1 = j /\ j \in 0 .. Len(m.put) /\ i \in 0 .. Len(m.put)
  BY <1>1
<1>3. x \in Tokens /\ x[1] # "end"
  BY TokensAre
<1>4. Seen(m, j, 0) = Append(Seen(m, i, 0), x)
  <2>1. Seen(m, i + 1, 0) = Append(Seen(m, i, 0), Token(m.put[i + 1]))
    BY <1>2, SeenArgument
  <2> QED
    BY <1>2, <2>1
<1>5. /\ text \in Seq(Tokens) /\ Inner(text) = Inner(Seen(m, i, 0))
      /\ n = args.pos => EndsPrinted(bs, ms, m) /\ text = Seen(m, i, Level(m) - Len(bs))
  BY DEF Prints
<1>6. Seen(m, i, 0) \in Seq(Tokens)
  <2>1. 0 \in 0 .. Len(Endings(m))
    BY EndingsAre
  <2> QED
    BY <1>2, <2>1, SeenTyped
<1>7. new \in Seq(Tokens) /\ Inner(new) = Inner(Seen(m, j, 0))
  <2>1. Append(text, x) \in Seq(Tokens) /\ Inner(Append(text, x)) = Append(Inner(text), x)
    BY <1>3, <1>5, InnerAppend, AppendProperties
  <2>2. Inner(Append(Seen(m, i, 0), x)) = Append(Inner(Seen(m, i, 0)), x)
    BY <1>3, <1>6, InnerAppend
  <2> QED
    BY <1>4, <1>5, <2>1, <2>2
<1>8. ASSUME n = args.pos
      PROVE  EndsPrinted(bs, as, m) /\ new = Seen(m, j, Level(m) - Len(bs))
  <2>1. /\ Level(m) = Len(bs) /\ EndsPrinted(bs, ms, m)
        /\ text = Seen(m, i, Level(m) - Len(bs))
    BY <1>5, <1>8 DEF EndsPrinted
  <2>2. Level(m) - Len(bs) = 0
    <3>1. Level(m) \in Nat
      BY EndingsAre
    <3> QED
      BY <2>1, <3>1
  <2>3. EndsPrinted(bs, as, m)
    BY <2>1 DEF EndsPrinted
  <2> QED
    BY <1>4, <2>1, <2>2, <2>3
<1> QED
  BY <1>2, <1>7, <1>8 DEF Prints


(* ms is as with s put after its last element: appending makes a sequence  *)
(* one longer and leaves every other element where it was.                 *)
IsAppended(as, s, ms) ==
  /\ Len(ms) = Len(as) + 1 /\ ms[Len(as) + 1] = s
  /\ \A i \in 1 .. Len(as) : ms[i] = as[i]

LEMMA AppendedLast ==
  ASSUME NEW W, NEW as \in Seq(W), NEW s \in W
  PROVE  IsAppended(as, s, Append(as, s))
<1>1. Len(Append(as, s)) = Len(as) + 1
  BY AppendProperties
<1>2. Append(as, s)[Len(as) + 1] = s
  BY AppendProperties
<1>3. \A i \in 1 .. Len(as) : Append(as, s)[i] = as[i]
  BY AppendProperties
<1> QED
  BY ONLY <1>1, <1>2, <1>3 DEF IsAppended


(* What is printed of an argument.                                         *)
LEMMA TokenOf ==
  ASSUME Delivered, NEW m \in closed, m.kind = "message", NEW j \in 1 .. m.numTags,
         NEW tag, tag = m.put[j].tag, NEW value, value = ArgOf(m, j)
  PROVE  /\ Token(m.put[j]) = <<tag, IF tag = "b" THEN << Head(value) >> ELSE value>>
         /\ tag \in {"[", "]"} => Token(m.put[j]) = <<tag, << >> >>
<1> PICK arg : arg = m.put[j]
  OBVIOUS
<1>1. arg \in Args /\ arg.tag = tag /\ value = arg.head \o arg.data
  BY MessageHeld DEF ArgOf
<1>2. Token(arg) = <<tag, IF tag = "b" THEN arg.head ELSE value>>
  BY <1>1 DEF Token
<1>3. ASSUME tag = "b"
      PROVE  << Head(value) >> = arg.head
  <2> PICK head : head = arg.head
    OBVIOUS
  <2>1. head \in Seq(NumberWords) /\ arg.data \in Seq(TextWords) /\ Len(head) = 1
    BY <1>1, <1>3, CallerAssumption, ArgsAssumption
  <2>2. head[1] \in NumberWords
    BY <2>1, ElementOfSeq
  <2>3. value[1] = head[1] /\ Len(value) = 1 + Len(arg.data) /\ Len(arg.data) \in Nat
    <3>1. head \in Seq(AnyArgWord) /\ arg.data \in Seq(AnyArgWord)
      BY <2>1 DEF AnyArgWord
    <3>2. Len(arg.data) \in Nat
      BY <3>1, LenProperties
    <3>3. /\ Len(head \o arg.data) = Len(head) + Len(arg.data)
          /\ \A i \in 1 .. Len(head) + Len(arg.data) :
               (head \o arg.data)[i] = IF i <= Len(head) THEN head[i] ELSE arg.data[i - Len(head)]
      BY ONLY <3>1, ConcatProperties
    <3>4. 1 \in 1 .. Len(head) + Len(arg.data) /\ 1 <= Len(head)
      BY ONLY <2>1, <3>2
    <3>5. (head \o arg.data)[1] = head[1]
      BY ONLY <3>3, <3>4
    <3>6. value = head \o arg.data
      BY <1>1
    <3> QED
      BY ONLY <2>1, <3>2, <3>3, <3>5, <3>6
  <2>4. Head(value) = value[1]
    BY <2>3
  <2>5. << head[1] >> = head
    BY <2>1, <2>2
  <2> QED
    BY <2>3, <2>4, <2>5
<1>4. tag \in {"[", "]"} => value = << >>
  BY ArgSizes
<1> QED
  BY <1>2, <1>3, <1>4

(* The message goes on behind argument j, which was printed.               *)
LEMMA GivenPrints ==
  ASSUME Delivered, BundlesPutNothing, ReadsNow, PrintsNow, message # << >>,
         NEW m \in closed, NEW j, Gives(m, j),
         \A i \in 2 .. Len(message') : Reader!CharAt(message'[i].tags.end) = "]",
         out' = Append(out, Token(m.put[j]))
  PROVE  PrintsNext
<1>1. /\ m.kind = "message" /\ Rank(m) = elements /\ j \in 1 .. m.numTags
      /\ Reader!current.tags.pos = TagPos(m, j - 1)
      /\ message' # << >> /\ message'[Len(message')].tags.pos = TagPos(m, j)
      /\ bundles' = bundles /\ elements' = elements
  BY DEF Gives
<1>2. Prints(length, bundles, message, out, m)
  BY <1>1, MessagePrinted
<1>3. Shown(message, m) = j - 1 /\ Shown(message', m) = j
  <2> PICK start : start = TagsStart(m)
    OBVIOUS
  <2>1. start \in Nat /\ m.numTags \in Nat
    BY <1>1, MessageHeld DEF MessageSizes, IsMessage
  <2>2. /\ TagPos(m, j - 1) - TagPos(m, 0) = (start + 1 + (j - 1)) - (start + 1 + 0)
        /\ TagPos(m, j) - TagPos(m, 0) = (start + 1 + j) - (start + 1 + 0)
    BY DEF TagPos
  <2>3. /\ (start + 1 + (j - 1)) - (start + 1 + 0) = j - 1
        /\ (start + 1 + j) - (start + 1 + 0) = j
    BY <1>1, <2>1
  <2>4. /\ Shown(message, m) = TagPos(m, j - 1) - TagPos(m, 0)
        /\ Shown(message', m) = TagPos(m, j) - TagPos(m, 0)
    BY <1>1 DEF Shown, Reader!current
  <2> QED
    BY <2>2, <2>3, <2>4
<1> PICK text : text = out
  OBVIOUS
<1> PICK new : new = Append(text, Token(m.put[j]))
  OBVIOUS
<1> PICK ms : ms = message
  OBVIOUS
<1> PICK as : as = message'
  OBVIOUS
<1>4. /\ ms # << >> /\ Prints(length, bundles, ms, text, m) /\ Shown(ms, m) = j - 1
      /\ Shown(as, m) = j /\ \A i \in 2 .. Len(as) : Reader!CharAt(as[i].tags.end) = "]"
  BY <1>2, <1>3
<1>5. Prints(length, bundles, as, new, m)
  BY <1>1, <1>4, OneMorePrints
<1>6. out' = new
  OBVIOUS
<1> QED
  BY <1>1, <1>5, <1>6 DEF PrintsNext, PrintsText

(* Where the arrays end that the message is in.                            *)
LEMMA ArraysEnd ==
  ASSUME PrintsNow, message # << >>
  PROVE  \A i \in 2 .. Len(message) : Reader!CharAt(message[i].tags.end) = "]"
BY LastPrinted DEF Prints

LEMMA ShownTo ==
  ASSUME Delivered, NEW m \in closed, m.kind = "message", NEW k \in 0 .. m.numTags,
         NEW ms, ms # << >>, ms[Len(ms)].tags.pos = TagPos(m, k)
  PROVE  Shown(ms, m) = k
<1> PICK start : start = TagsStart(m)
  OBVIOUS
<1>1. start \in Nat /\ m.numTags \in Nat
  BY MessageHeld DEF MessageSizes, IsMessage
<1>2. Shown(ms, m) = (start + 1 + k) - (start + 1 + 0)
  BY DEF Shown, TagPos
<1>3. (start + 1 + k) - (start + 1 + 0) = k
  BY <1>1
<1> QED
  BY <1>2, <1>3

(* A sequence over a set is one over a larger set.                         *)
LEMMA SeqOfMore ==
  ASSUME NEW W, NEW s \in Seq(W), NEW y
  PROVE  s \in Seq(W \cup {y}) /\ y \in W \cup {y}
<1>1. \A i \in 1 .. Len(s) : s[i] \in W \cup {y}
  BY ElementOfSeq
<1>2. Len(s) \in Nat /\ s = [i \in 1 .. Len(s) |-> s[i]]
  BY LenProperties
<1> QED
  BY <1>1, <1>2

(* The label of the argument that the message is at.                       *)
LEMMA LabelPrints ==
  ASSUME Delivered, BundlesPutNothing, ReadsNow, PrintsNow, Reader!mayRead,
         NEW tag, tag = Reader!tag, NEW new, new = Append(out, <<tag, << >> >>)
  PROVE  Labelled(new)
<1>1. message # << >> /\ Reader!current.tags.pos # Reader!current.tags.end
  BY DEF Reader!mayRead, Reader!AtEnd
<1>2. PICK m \in closed : \E b, k, e : ReadsAt(m, b, k, e)
  BY <1>1, SomewhereIn
<1>3. PICK b, k, e : ReadsAt(m, b, k, e)
  BY <1>2
<1>4. /\ m.kind = "message" /\ m.numTags \in Nat /\ Rank(m) = elements
      /\ k \in 0 .. m.numTags /\ e \in 0 .. m.numTags /\ k <= e
      /\ Reader!current.tags.pos = TagPos(m, k) /\ Reader!current.tags.end = TagPos(m, e)
  BY <1>1, <1>3, ArgumentHere
<1>5. k < m.numTags /\ k + 1 \in 1 .. m.numTags /\ (k + 1) - 1 = k
  <2>1. k # e
    BY <1>1, <1>4
  <2> QED
    BY <1>4, <2>1
<1> PICK x : x = Token(m.put[k + 1])
  OBVIOUS
<1> PICK y : y = <<tag, << >> >>
  OBVIOUS
<1>6. x[1] = tag /\ m.put[k + 1].tag = tag /\ x[1] # "end"
  <2>1. Reader!CharAt(TagPos(m, k)) = m.put[k + 1].tag
    BY <1>4, <1>5, TagRead
  <2>2. x[1] = m.put[k + 1].tag
    BY DEF Token
  <2>3. x[1] # "end"
    BY <1>4, <1>5, TokensAre
  <2> QED
    BY <1>4, <2>1, <2>2, <2>3 DEF Reader!tag
<1>7. Prints(length, bundles, message, out, m) /\ Shown(message, m) = k
  <2>1. message[Len(message)].tags.pos = TagPos(m, k)
    BY <1>4 DEF Reader!current
  <2> QED
    BY <1>1, <1>4, <2>1, MessagePrinted, ShownTo
<1>8. out \in Seq(Tokens) /\ Inner(out) = Inner(Seen(m, k, 0))
  BY <1>7 DEF Prints
<1>9. Inner(new) = Append(Inner(out), y)
  <2> PICK W : W = Tokens \cup {y}
    OBVIOUS
  <2>1. out \in Seq(W) /\ y \in W
    BY <1>8, SeqOfMore
  <2>2. y[1] # "end"
    BY <1>6
  <2>3. Inner(Append(out, y)) = IF y[1] = "end" THEN Inner(out) ELSE Append(Inner(out), y)
    BY ONLY <2>1, InnerAppend
  <2> QED
    BY <2>2, <2>3
<1> QED
  BY <1>4, <1>5, <1>6, <1>8, <1>9 DEF Labelled

LEMMA ArgumentPrints ==
  ASSUME Delivered, BundlesPutNothing, ReadsNow, PrintsNow, Reader!PrintArg
  PROVE  PrintsNext \/ (~ok' /\ Labelled(out'))
<1> PICK tag : tag = Reader!tag
  OBVIOUS
<1> PICK value : value = result'.value
  OBVIOUS
<1>1. /\ Reader!ReadArgument /\ Reader!mayRead
      /\ out' = Append(out, <<tag, IF ok' THEN IF tag = "b" THEN << Head(value) >> ELSE value
                                   ELSE << >> >>)
      /\ message # << >>
  BY DEF Reader!PrintArg, Reader!ReadArgument, Reader!mayRead
<1>2. CASE Reader!Throw
  <2>1. ok' = FALSE
    BY <1>2 DEF Reader!Throw
  <2>2. out' = Append(out, <<tag, << >> >>)
    BY <1>1, <2>1
  <2> QED
    BY <1>1, <2>1, <2>2, LabelPrints
<1>3. CASE ~Reader!Throw
  <2>1. SameEnds(message') /\ \E m \in closed : \E j : Gives(m, j)
    BY <1>1, <1>3, ReadArgumentReads
  <2>2. PICK m \in closed : \E j : Gives(m, j)
    BY <2>1
  <2>3. PICK j : Gives(m, j)
    BY <2>2
  <2>4. ok' = TRUE
    BY <1>1, <1>3 DEF Reader!ReadArgument, Reader!Return
  <2>5. m.kind = "message" /\ j \in 1 .. m.numTags /\ tag = m.put[j].tag /\ value = ArgOf(m, j)
    BY <2>3 DEF Gives
  <2>6. Token(m.put[j]) = <<tag, IF tag = "b" THEN << Head(value) >> ELSE value>>
    BY <2>5, TokenOf
  <2>7. out' = Append(out, Token(m.put[j]))
    BY <1>1, <2>4, <2>6
  <2>8. \A i \in 2 .. Len(message') : Reader!CharAt(message'[i].tags.end) = "]"
    <3>1. \A i \in 2 .. Len(message) : Reader!CharAt(message[i].tags.end) = "]"
      BY <1>1, ArraysEnd
    <3>2. Len(message) \in Nat
      BY <1>1, SomewhereIn
    <3>3. /\ Len(message') = Len(message)
          /\ \A i \in 1 .. Len(message') : message'[i].tags.end = message[i].tags.end
      BY <2>1 DEF SameEnds
    <3>4. \A i \in 2 .. Len(message) : i \in 1 .. Len(message)
      BY <3>2
    <3> QED
      BY <3>1, <3>3, <3>4
  <2>9. PrintsNext
    BY <1>1, <2>3, <2>7, <2>8, GivenPrints
  <2> QED
    BY <2>9
<1> QED
  BY <1>2, <1>3

LEMMA ArrayPrints ==
  ASSUME Delivered, BundlesPutNothing, ReadsNow, PrintsNow, Reader!PrintArray
  PROVE  PrintsNext \/ (~ok' /\ Labelled(out'))
<1> PICK tag : tag = Reader!tag
  OBVIOUS
<1>1. /\ Reader!ReadArray /\ Reader!mayRead
      /\ out' = Append(out, <<tag, << >> >>)
      /\ message # << >> /\ tag = "["
  BY DEF Reader!PrintArray, Reader!ReadArray, Reader!mayRead
<1>2. CASE Reader!Throw
  <2>1. ok' = FALSE
    BY <1>2 DEF Reader!Throw
  <2> QED
    BY <1>1, <2>1, LabelPrints
<1>3. CASE ~Reader!Throw
  <2>1. /\ \E m \in closed : \E j : Gives(m, j)
        /\ \E as, s : /\ message' = Append(as, s) /\ message' \in Seq(ArgStreams)
                      /\ as \in Seq(ArgStreams) /\ s \in ArgStreams
                      /\ SameEnds(as) /\ Reader!CharAt(s.tags.end) = "]"
    BY <1>1, <1>3, ReadArrayReads
  <2>2. PICK m \in closed : \E j : Gives(m, j)
    BY <2>1
  <2>3. PICK j : Gives(m, j)
    BY <2>2
  <2>4. PICK as, s : /\ message' = Append(as, s) /\ message' \in Seq(ArgStreams)
                     /\ as \in Seq(ArgStreams) /\ s \in ArgStreams
                     /\ SameEnds(as) /\ Reader!CharAt(s.tags.end) = "]"
    BY <2>1
  <2>6. m.kind = "message" /\ j \in 1 .. m.numTags /\ tag = m.put[j].tag
    BY <2>3 DEF Gives
  <2>7. Token(m.put[j]) = <<tag, << >> >>
    <3> PICK value : value = ArgOf(m, j)
      OBVIOUS
    <3> QED
      BY <1>1, <2>6, TokenOf
  <2>8. out' = Append(out, Token(m.put[j]))
    BY <1>1, <2>7
  <2>9. \A i \in 2 .. Len(message') : Reader!CharAt(message'[i].tags.end) = "]"
    <3>1. \A i \in 2 .. Len(message) : Reader!CharAt(message[i].tags.end) = "]"
      BY <1>1, ArraysEnd
    <3>2. Len(message) \in Nat
      BY <1>1, SomewhereIn
    <3>3. Len(as) = Len(message) /\ \A i \in 1 .. Len(as) : as[i].tags.end = message[i].tags.end
      BY <2>4 DEF SameEnds
    <3>4. /\ Len(message') = Len(as) + 1 /\ message'[Len(as) + 1] = s
          /\ \A i \in 1 .. Len(as) : message'[i] = as[i]
      <4>1. as \in Seq(ArgStreams) /\ s \in ArgStreams /\ message' = Append(as, s)
        BY <2>4
      <4>2. IsAppended(as, s, Append(as, s))
        BY ONLY <4>1, AppendedLast, Zenon
      <4>3. IsAppended(as, s, message')
        BY ONLY <4>1, <4>2, Zenon
      <4> QED
        BY ONLY <4>3 DEF IsAppended
    <3> TAKE i \in 2 .. Len(message')
    <3>5. CASE i = Len(as) + 1
      BY <2>4, <3>4, <3>5
    <3>6. CASE i # Len(as) + 1
      <4>1. i \in 1 .. Len(as) /\ i \in 2 .. Len(message)
        BY <3>2, <3>3, <3>4, <3>6
      <4> QED
        BY <3>1, <3>3, <3>4, <4>1
    <3> QED
      BY <3>5, <3>6
  <2>10. PrintsNext
    BY <1>1, <2>3, <2>8, <2>9, GivenPrints
  <2> QED
    BY <2>10
<1> QED
  BY <1>2, <1>3

(* The end of an array is printed, that of a message is not.               *)
LEMMA ArgsEndPrints ==
  ASSUME Delivered, BundlesPutNothing, ReadsNow, PrintsNow, Reader!PrintArgsEnd
  PROVE  PrintsNext
<1> PICK i : i = Len(message)
  OBVIOUS
<1> PICK as : as = SubSeq(message, 1, i - 1)
  OBVIOUS
<1>1. /\ message # << >> /\ ok \in BOOLEAN /\ ok = TRUE
      /\ Reader!current.tags.pos = Reader!current.tags.end
      /\ message' = as /\ bundles' = bundles /\ elements' = elements /\ ok' = TRUE
      /\ IF i > 1 THEN out' = Append(out, <<"]", << >> >>) ELSE out' = out
  <2>1. ok \in BOOLEAN
    BY DEF ReadsNow, Reads
  <2> QED
    BY <2>1 DEF Reader!PrintArgsEnd, Reader!LeaveArguments, Reader!reading, Reader!AtEnd,
                Reader!Show
<1>2. PICK m \in closed : \E b, k, e : ReadsAt(m, b, k, e)
  BY <1>1, SomewhereIn
<1>3. PICK b, k, e : ReadsAt(m, b, k, e)
  BY <1>2
<1>4. message \in Seq(ArgStreams) /\ i \in Nat /\ i >= 1
  BY <1>1, SomewhereIn
<1>5. /\ m.kind = "message" /\ m.numTags \in Nat /\ Rank(m) = elements
      /\ e \in 0 .. m.numTags
      /\ message[i].tags.pos = TagPos(m, k) /\ message[i].tags.end = TagPos(m, e) /\ k = e
  BY <1>1, <1>3, ArgumentHere DEF Reader!current
<1>6. /\ \A h \in 1 .. i : ReadsArgs(message, Cursor(bundles, length), m, h)
      /\ i = 1 => e = m.numTags
      /\ i # 1 => message[i - 1].tags.pos = TagPos(m, e + 1)
  BY <1>3 DEF ReadsAt, ReadsMessage, ArgsBetween
<1>7. Prints(length, bundles, message, out, m)
  BY <1>1, <1>5, MessagePrinted
<1>8. as \in Seq(ArgStreams) /\ Len(as) = i - 1 /\ (\A h \in 1 .. i - 1 : as[h] = message[h])
      /\ (as = << >> <=> i = 1)
  <2>1. as \in Seq(ArgStreams) /\ Len(as) = i - 1 /\ \A h \in 1 .. i - 1 : as[h] = message[h]
    BY <1>4, FrontIs
  <2>2. as = << >> <=> Len(as) = 0
    BY <2>1, EmptySeq
  <2> QED
    BY <1>4, <2>1, <2>2
<1>9. \A h \in 2 .. i : Reader!CharAt(message[h].tags.end) = "]"
  BY <1>1, ArraysEnd
<1>10. Shown(message, m) = e
  BY <1>1, <1>5, ShownTo
<1>11. \A h \in 2 .. Len(as) : Reader!CharAt(as[h].tags.end) = "]"
  <2> TAKE h \in 2 .. Len(as)
  <2>1. h \in 1 .. i - 1 /\ h \in 2 .. i
    BY <1>4, <1>8
  <2> QED
    BY <1>8, <1>9, <2>1
<1>12. CASE i = 1
  <2>1. as = << >> /\ out' = out
    BY <1>1, <1>8, <1>12
  <2>2. Shown(as, m) = Len(m.put) /\ Len(m.put) = m.numTags
    BY <1>5, <2>1, MessageHeld DEF Shown
  <2>3. Shown(as, m) = Shown(message, m)
    BY <1>6, <1>10, <1>12, <2>2
  <2>4. EndsPrinted(bundles, message, m) => EndsPrinted(bundles, as, m)
    BY <2>1 DEF EndsPrinted
  <2>5. Prints(length, bundles, as, out, m)
    BY <1>7, <1>11, <2>3, <2>4 DEF Prints
  <2> QED
    BY <1>1, <1>5, <2>1, <2>5 DEF PrintsNext, PrintsText
<1>13. CASE i # 1
  <2> PICK j : j = e + 1
    OBVIOUS
  <2> PICK g : g = i - 1
    OBVIOUS
  <2>1. g \in 1 .. i /\ g \in 1 .. i - 1 /\ g >= 1 /\ Len(as) = g /\ i > 1
    BY <1>4, <1>8, <1>13
  <2>2. message[g].tags.pos = TagPos(m, j)
    BY <1>6, <1>13
  <2>3. PICK h \in 0 .. m.numTags : message[g].tags.pos = TagPos(m, h)
    <3>1. ReadsArgs(message, Cursor(bundles, length), m, g)
      BY <1>6, <2>1
    <3>2. PICK f \in 0 .. m.numTags, h \in 0 .. m.numTags, l \in 0 .. m.numTags :
            ArgsBetween(message, Cursor(bundles, length), m, g, f, h, l)
      BY <3>1 DEF ReadsArgs
    <3>3. message[g].tags.pos = TagPos(m, h)
      BY <3>2 DEF ArgsBetween, ArgStream
    <3> QED
      BY <3>3
  <2>4. j = h
    <3> PICK start : start = TagsStart(m)
      OBVIOUS
    <3>1. start \in Nat
      BY <1>5, MessageHeld DEF MessageSizes
    <3>2. start + 1 + j = start + 1 + h
      BY <2>2, <2>3 DEF TagPos
    <3>3. j \in Nat /\ h \in Nat
      BY <1>5
    <3> QED
      BY ONLY <3>1, <3>2, <3>3
  <2>5. j \in 1 .. m.numTags /\ e < m.numTags /\ j - 1 = e
    BY <1>5, <2>4
  <2>6. m.put[j].tag = "]"
    <3>1. i \in 2 .. i
      BY <1>4, <1>13
    <3>2. Reader!CharAt(TagPos(m, e)) = "]"
      BY <1>5, <1>9, <3>1
    <3>3. Reader!CharAt(TagPos(m, e)) = m.put[e + 1].tag
      BY <1>5, <2>5, TagRead
    <3> QED
      BY <3>2, <3>3
  <2>7. Token(m.put[j]) = <<"]", << >> >>
    <3> PICK value : value = ArgOf(m, j)
      OBVIOUS
    <3> PICK tag : tag = m.put[j].tag
      OBVIOUS
    <3>1. tag \in {"[", "]"} => Token(m.put[j]) = <<tag, << >> >>
      BY <1>5, <2>5, TokenOf
    <3> QED
      BY <2>6, <3>1
  <2>8. Shown(as, m) = j
    <3>1. as # << >> /\ as[Len(as)].tags.pos = TagPos(m, j)
      BY <1>8, <1>13, <2>1, <2>2
    <3>2. j \in 0 .. m.numTags
      BY <2>3, <2>4
    <3> QED
      BY <1>5, <3>1, <3>2, ShownTo
  <2> PICK text : text = out
    OBVIOUS
  <2> PICK new : new = Append(text, Token(m.put[j]))
    OBVIOUS
  <2> PICK ms : ms = message
    OBVIOUS
  <2>9. ms # << >> /\ Prints(length, bundles, ms, text, m) /\ Shown(ms, m) = j - 1
    BY <1>1, <1>7, <1>10, <2>5
  <2>10. Prints(length, bundles, as, new, m)
    <3>1. Delivered /\ BundlesPutNothing /\ new = Append(text, Token(m.put[j]))
      OBVIOUS
    <3> QED
      BY ONLY <1>5, <1>11, <2>5, <2>8, <2>9, <3>1, OneMorePrints
  <2>11. out' = new
    BY <1>1, <2>1, <2>7
  <2> QED
    BY <1>1, <1>5, <2>10, <2>11 DEF PrintsNext, PrintsText
<1> QED
  BY <1>12, <1>13

LEMMA StepPrints ==
  ASSUME Delivered, BundlesPutNothing, ReadsNow, PrintsNow, Reader!PrintStep
  PROVE  PrintsNext \/ (~ok' /\ Labelled(out'))
<1>1. CASE Reader!PrintPacket \/ Reader!PrintBundleEnd \/ Reader!PrintArgsEnd
  <2>1. PrintsNext
    BY <1>1, PacketPrints, BundleEndPrints, ArgsEndPrints
  <2> QED
    BY <2>1
<1>2. CASE Reader!PrintArg
  BY <1>2, ArgumentPrints
<1>3. CASE Reader!PrintArray
  BY <1>3, ArrayPrints
<1> QED
  BY <1>1, <1>2, <1>3 DEF Reader!PrintStep


-----------------------------------------------------------------------------
(***************************************************************************)
(* Only messages are given arguments.                                      *)
(***************************************************************************)
LEMMA ClosingPutsNothing ==
  ASSUME PacketInv, BundlesPutNothing, open \in Seq(Element), open # << >>, Close
  PROVE  BundlesPutNothing'
<1> PICK n : n = Len(open)
  OBVIOUS
<1> PICK c : c = [Innermost EXCEPT !.last = args.pos]
  OBVIOUS
<1>1. /\ n \in Nat /\ n >= 1 /\ n \in 1 .. Len(open) /\ Innermost \in Element /\ Innermost = open[n]
  BY InnermostIsElement DEF Innermost
<1>2. c.kind = Innermost.kind /\ c.put = Innermost.put
  BY <1>1 DEF Element
<1>3. open' = SubSeq(open, 1, n - 1) /\ closed' = closed \cup {c}
  BY DEF Close
<1>4. Len(open') = n - 1 /\ \A i \in 1 .. n - 1 : open'[i] = open[i]
  BY <1>1, <1>3, FrontIs
<1>5. \A i \in 1 .. n : open[i].kind = "bundle" => open[i].put = << >>
  BY DEF BundlesPutNothing, NoneHasPut
<1>6. \A e \in closed : e.kind = "bundle" => e.put = << >>
  BY DEF BundlesPutNothing, NoneHasPut
<1>7. \A e \in closed' : e.kind = "bundle" => e.put = << >>
  <2>1. c.kind = "bundle" => c.put = << >>
    <3>1. n \in 1 .. n
      BY <1>1
    <3>2. open[n].kind = "bundle" => open[n].put = << >>
      BY ONLY <1>5, <3>1
    <3> QED
      BY ONLY <1>1, <1>2, <3>2
  <2> QED
    BY ONLY <1>3, <1>6, <2>1
<1>8. \A i \in 1 .. n - 1 : open'[i].kind = "bundle" => open'[i].put = << >>
  <2> TAKE i \in 1 .. n - 1
  <2>1. i \in 1 .. n
    BY <1>1
  <2> QED
    BY <1>4, <1>5, <2>1
<1> QED
  BY <1>4, <1>7, <1>8 DEF BundlesPutNothing, NoneHasPut

LEMMA NextPutsNothing == PacketInv /\ BundlesPutNothing /\ [Next]_vars => BundlesPutNothing'
<1> SUFFICES ASSUME PacketInv, BundlesPutNothing, [Next]_vars PROVE BundlesPutNothing'
  OBVIOUS
<1>1. \A i \in 1 .. Len(open) : open[i].kind = "bundle" => open[i].put = << >>
  BY DEF BundlesPutNothing, NoneHasPut
<1>2. ASSUME NEW size \in Capacities, NEW atFour \in Alignments, Reset(size, atFour)
      PROVE  BundlesPutNothing'
  <2>1. closed' = {} /\ open' = << >>
    BY <1>2 DEF Reset
  <2>2. Len(open') = 0
    BY <2>1
  <2> QED
    BY <2>1, <2>2 DEF BundlesPutNothing, NoneHasPut
<1>3. ASSUME NEW o \in Element, mayOpen, open' = Append(open, o), closed' = closed, o.put = << >>
      PROVE  BundlesPutNothing'
  <2> PICK n : n = Len(open)
    OBVIOUS
  <2>1. open \in Seq(Element) /\ n \in Nat
    <3>1. open \in Seq(Element)
      BY <1>3, Sizes, OnlyBundlesOpen DEF mayOpen
    <3> QED
      BY <3>1
  <2>2. Len(open') = n + 1 /\ open'[n + 1] = o /\ \A i \in 1 .. n : open'[i] = open[i]
    BY <1>3, <2>1, AppendIndex
  <2>3. \A i \in 1 .. n + 1 : open'[i].kind = "bundle" => open'[i].put = << >>
    <3> TAKE i \in 1 .. n + 1
    <3>1. i \in 1 .. n \/ i = n + 1
      BY <2>1
    <3> QED
      BY <1>1, <1>3, <2>2, <3>1
  <2> QED
    BY <1>3, <2>2, <2>3 DEF BundlesPutNothing, NoneHasPut
<1>4. CASE OpenBundle
  <2> PICK o : o = Opened("bundle", Null, 0)
    OBVIOUS
  <2>1. mayOpen /\ open' = Append(open, o) /\ closed' = closed
    BY <1>4 DEF OpenBundle
  <2>2. OpenedAs(o, "bundle", Null, 0)
    BY <2>1, OpenedPlace
  <2> QED
    BY <1>3, <2>1, <2>2 DEF OpenedAs
<1>5. ASSUME NEW addr \in Addresses, NEW numTags \in TagCounts, OpenMessage(addr, numTags)
      PROVE  BundlesPutNothing'
  <2> PICK o : o = Opened("message", addr, numTags)
    OBVIOUS
  <2>1. mayOpen /\ open' = Append(open, o) /\ closed' = closed /\ numTags \in Nat
    BY <1>5, CallerAssumption DEF OpenMessage
  <2>2. OpenedAs(o, "message", addr, numTags)
    BY <2>1, OpenedPlace
  <2> QED
    BY <1>3, <2>1, <2>2 DEF OpenedAs
<1>6. ASSUME open' = open, closed' = closed
      PROVE  BundlesPutNothing'
  BY <1>6 DEF BundlesPutNothing, NoneHasPut
<1>7. CASE CloseBundle
  <2>1. args.ok = TRUE /\ ~messageOpen /\ inBundle > 0
    BY <1>7, Sizes DEF CloseBundle
  <2>2. open \in Seq(Element) /\ Len(open) = inBundle
    BY <2>1, OnlyBundlesOpen
  <2>3. open # << >>
    <3>1. Len(<< >>) = 0
      OBVIOUS
    <3>2. open = << >> => Len(open) = 0
      BY <3>1
    <3>3. inBundle \in Nat
      BY Sizes
    <3> QED
      BY ONLY <2>1, <2>2, <3>2, <3>3
  <2>4. Close \/ (open' = open /\ closed' = closed)
    BY <1>7 DEF CloseBundle
  <2> QED
    BY <1>6, <2>2, <2>3, <2>4, ClosingPutsNothing
<1>8. ASSUME NEW arg \in Args, PutArg(arg)
      PROVE  BundlesPutNothing'
  <2> PICK n : n = Len(open)
    OBVIOUS
  <2>1. args.ok = TRUE /\ messageOpen /\ closed' = closed
        /\ open' = [open EXCEPT ![n].put = Append(@, arg)]
    BY <1>8, Sizes DEF PutArg
  <2>2. open \in Seq(Element) /\ open # << >>
    BY <2>1, BeforeTheTags
  <2>3. n \in Nat /\ Len(open') = n /\ open[n].kind = "message"
        /\ \A i \in 1 .. n : open'[i].kind = open[i].kind
    BY <2>1, <2>2, PutAppends DEF messageOpen, Innermost
  <2>4. \A i \in 1 .. n : i # n => open'[i] = open[i]
    BY <2>1, <2>2
  <2>5. \A i \in 1 .. n : open'[i].kind = "bundle" => open'[i].put = << >>
    BY <1>1, <2>3, <2>4
  <2>6. \A e \in closed' : e.kind = "bundle" => e.put = << >>
    BY <2>1 DEF BundlesPutNothing, NoneHasPut
  <2> QED
    BY <2>3, <2>5, <2>6 DEF BundlesPutNothing, NoneHasPut
<1>9. CASE CloseMessage
  <2>1. args.ok = TRUE /\ messageOpen
    BY <1>9, Sizes DEF CloseMessage
  <2>2. open \in Seq(Element) /\ open # << >>
    BY <2>1, BeforeTheTags
  <2>3. Close \/ (open' = open /\ closed' = closed)
    BY <1>9 DEF CloseMessage
  <2> QED
    BY <1>6, <2>2, <2>3, ClosingPutsNothing
<1>10. CASE UNCHANGED vars
  BY <1>6, <1>10 DEF vars
<1> QED
  BY <1>2, <1>4, <1>5, <1>7, <1>8, <1>9, <1>10 DEF Next

LEMMA PutsNothingAlways == Spec => []BundlesPutNothing
<1>1. Init => BundlesPutNothing
  <2> SUFFICES ASSUME Init PROVE BundlesPutNothing
    OBVIOUS
  <2>1. closed = {} /\ open = << >>
    BY DEF Init
  <2>2. Len(open) = 0
    BY <2>1
  <2> QED
    BY <2>1, <2>2 DEF BundlesPutNothing, NoneHasPut
<1> QED
  BY <1>1, NextPutsNothing, PacketAlways, PTL DEF Spec

-----------------------------------------------------------------------------
(***************************************************************************)
(* A step of the reader leaves the text of the packet as it is.            *)
(***************************************************************************)
LEMMA SameElements ==
  ASSUME closed' = closed
  PROVE  /\ \A e : Rank(e)' = Rank(e) /\ Around(e)' = Around(e)
         /\ \A k : Nth(k)' = Nth(k)
         /\ Cardinality(closed)' = Cardinality(closed)
<1>1. \A e : Rank(e)' = Rank(e) /\ Around(e)' = Around(e)
  BY DEF Rank, Around
<1>2. ASSUME NEW k
      PROVE  Nth(k)' = Nth(k)
  <2>1. \A e : (e \in closed /\ Rank(e) = k)' <=> e \in closed /\ Rank(e) = k
    BY <1>1
  <2> QED
    BY <2>1, Zenon DEF Nth
<1> QED
  BY <1>1, <1>2

LEMMA SameEndings ==
  ASSUME closed' = closed
  PROVE  \A e : /\ Level(e)' = Level(e)
                /\ EndingWith(e)' = EndingWith(e)
                /\ Endings(e)' = Endings(e)
                /\ \A d : Left(e, d)' = Left(e, d)
<1> SUFFICES ASSUME NEW e
             PROVE  /\ Level(e)' = Level(e)
                    /\ EndingWith(e)' = EndingWith(e)
                    /\ Endings(e)' = Endings(e)
                    /\ \A d : Left(e, d)' = Left(e, d)
  OBVIOUS
<1>1. \A o : Around(o)' = Around(o)
  BY SameElements
<1>2. Level(e)' = Level(e)
  BY <1>1 DEF Level
<1>3. EndingWith(e)' = EndingWith(e)
  BY <1>1 DEF EndingWith
<1>4. (\E o \in closed : e \in Around(o))' <=> \E o \in closed : e \in Around(o)
  BY <1>1
<1>5. Cardinality(EndingWith(e))' = Cardinality(EndingWith(e))
  BY <1>3
<1>6. Endings(e)' = Endings(e)
  BY <1>2, <1>4, <1>5 DEF Endings
<1>7. \A d : Left(e, d)' = Left(e, d)
  BY <1>1, <1>3 DEF Left
<1> QED
  BY <1>2, <1>3, <1>6, <1>7

LEMMA SameText ==
  ASSUME closed' = closed
  PROVE  /\ \A n : TextUpTo(n)' = TextUpTo(n)
         /\ \A e, k, q : Seen(e, k, q)' = Seen(e, k, q)
         /\ Tokens' = Tokens
<1>1. \A e : Headed(e)' = Headed(e)
  BY SameElements DEF Headed
<1>2. \A e, k : BodyTo(e, k)' = BodyTo(e, k)
  BY <1>1 DEF BodyTo
<1>3. \A e : Body(e)' = Body(e)
  BY <1>1 DEF Body, Headed
<1>4. \A e : Printed(e)' = Printed(e)
  BY <1>3, SameEndings DEF Printed
<1>5. \A k : Printed(Nth(k))' = Printed(Nth(k))
  <2> TAKE k
  <2>1. Nth(k)' = Nth(k)
    BY SameElements
  <2>2. \A e : (Body(e) \o Endings(e))' = Body(e) \o Endings(e)
    BY <1>3, SameEndings
  <2> QED
    BY <1>4, <2>1
<1>6. ASSUME NEW n
      PROVE  TextUpTo(n)' = TextUpTo(n)
  <2>1. [k \in 1 .. n |-> Printed(Nth(k))]' = [k \in 1 .. n |-> Printed(Nth(k))]
    BY <1>5
  <2> QED
    BY <2>1 DEF TextUpTo
<1>7. ASSUME NEW e, NEW k, NEW q
      PROVE  Seen(e, k, q)' = Seen(e, k, q)
  <2>1. Rank(e)' = Rank(e)
    BY SameElements
  <2>2. TextUpTo(Rank(e) - 1)' = TextUpTo(Rank(e) - 1)
    BY <1>6, <2>1
  <2> QED
    BY <1>2, <2>2, SameEndings DEF Seen
<1>8. Tokens' = Tokens
  BY <1>1 DEF Tokens
<1> QED
  BY <1>6, <1>7, <1>8

LEMMA SamePrints ==
  ASSUME closed' = closed, args' = args
  PROVE  PrintsText(length, bundles, message, elements, out)'
           <=> PrintsText(length', bundles', message', elements', out')
<1>1. \A e : Shown(message, e)' = Shown(message', e)
  BY DEF Shown
<1>2. \A e : EndsPrinted(bundles, message, e)' <=> EndsPrinted(bundles', message', e)
  BY SameEndings DEF EndsPrinted
<1>3. \A p : Reader!CharAt(p)' = Reader!CharAt(p)
  BY DEF Reader!CharAt, Reader!Word
<1>4. ASSUME NEW e
      PROVE  Prints(length, bundles, message, out, e)'
               <=> Prints(length', bundles', message', out', e)
  <2>1. (\A i \in 2 .. Len(message) : Reader!CharAt(message[i].tags.end) = "]")'
          <=> \A i \in 2 .. Len(message') : Reader!CharAt(message'[i].tags.end) = "]"
    BY <1>3
  <2>2. Inner(Seen(e, Shown(message, e), 0))' = Inner(Seen(e, Shown(message', e), 0))
    <3>1. Seen(e, Shown(message, e), 0)' = Seen(e, Shown(message', e), 0)
      BY <1>1, SameText
    <3> QED
      BY <3>1
  <2>3. Inner(out)' = Inner(out')
    OBVIOUS
  <2>4. Seen(e, Shown(message, e), Level(e) - Len(bundles))'
          = Seen(e, Shown(message', e), Level(e) - Len(bundles'))
    BY <1>1, SameText, SameEndings
  <2> QED
    BY <1>1, <1>2, <2>1, <2>2, <2>3, <2>4, SameText DEF Prints
<1>5. \A e : Rank(e)' = Rank(e)
  BY SameElements
<1> QED
  BY <1>4, <1>5 DEF PrintsText

LEMMA SameLabel ==
  ASSUME closed' = closed
  PROVE  Labelled(out)' <=> Labelled(out')
<1>1. \A e, k : Inner(Seen(e, k, 0))' = Inner(Seen(e, k, 0))
  BY SameText
<1> QED
  BY <1>1 DEF Labelled

(* The reader of a packet that is printed.                                 *)
LEMMA DeliverPrints ==
  ASSUME PacketInv, Content, Tiles, Nesting, TripInv, BundlesPutNothing,
         \A m \in closed : m.kind = "message" => WellFormed(m), Deliver
  PROVE  PrintInv'
<1>1. closed' = closed /\ args' = args
  BY DEF Deliver, scriptVars, vars
<1>2. PICK cut \in {n \in Cuts : n < args.pos} :
        \/ Reader!Begin(args.pos - cut) /\ out' = Null
        \/ Reader!BeginPrint(args.pos - cut)
  BY DEF Deliver
<1>3. CASE out' = Null
  BY <1>3 DEF PrintInv
<1>4. CASE out' # Null
  <2> PICK n : n = args.pos - cut
    OBVIOUS
  <2>1. Reader!BeginPrint(n)
    BY <1>2, <1>4
  <2>2. length = Null /\ length' = n /\ Reader!Idle
    BY <2>1 DEF TripInv, Reader!BeginPrint, Reader!Begin
  <2>3. args.ok \in BOOLEAN /\ args.pos \in Nat
    BY Sizes DEF PacketInv
  <2>4. Complete
    BY <2>3 DEF Deliver, complete, Complete
  <2>5. Delivered
    BY <2>4 DEF Delivered
  <2>6. n \in Nat /\ n <= args.pos
    BY <2>3, CutsAssumption
  <2>7. PrintsText(n, bundles', message', elements', out')
    BY <2>1, <2>2, <2>5, <2>6, BeginPrints
  <2> QED
    BY <1>1, <2>2, <2>7, SamePrints DEF PrintInv
<1> QED
  BY <1>3, <1>4

LEMMA ReadPrints ==
  ASSUME PacketInv, Content, Tiles, Nesting, TripInv, BundlesPutNothing, PrintInv, Read
  PROVE  PrintInv'
<1>1. closed' = closed /\ args' = args
  BY DEF Read, scriptVars, vars
<1>2. CASE out' = Null
  BY <1>2 DEF PrintInv
<1>3. CASE out' # Null
  <2>1. Reader!PrintStep /\ out # Null
    BY <1>3 DEF Read, Reader!PrintStep
  <2>2. Reader!ReaderStep
    BY <2>1 DEF Reader!PrintStep, Reader!ReaderStep, Reader!PrintPacket, Reader!PrintBundleEnd,
                Reader!PrintArg, Reader!PrintArray, Reader!PrintArgsEnd
  <2>3. length # Null
    BY <2>2 DEF Reader!ReaderStep, Reader!NextPacket, Reader!LeaveBundle, Reader!ReadArgument,
         Reader!ReadArray, Reader!DropArgument, Reader!LeaveArguments, Reader!mayRead,
         Reader!reading
  <2>4. Delivered /\ ReadsNow
    BY <2>3, ReadingWhile DEF Reading
  <2>5. PrintsNow
    <3>1. ok
      BY <2>2 DEF Reader!ReaderStep, Reader!NextPacket, Reader!LeaveBundle,
                  Reader!ReadArgument, Reader!ReadArray, Reader!DropArgument,
                  Reader!LeaveArguments, Reader!mayRead, Reader!reading
    <3> QED
      BY <2>1, <2>3, <3>1 DEF PrintInv, PrintsNow
  <2>6. length' = length
    BY <2>2, <2>4, StepReads
  <2>7. PrintsNext \/ (~ok' /\ Labelled(out'))
    BY <2>1, <2>4, <2>5, StepPrints
  <2> QED
    BY <1>1, <2>6, <2>7, SamePrints, SameLabel DEF PrintInv, PrintsNext
<1> QED
  BY <1>2, <1>3

LEMMA NextPrints ==
  PacketInv /\ Content /\ Tiles /\ Nesting /\ TripInv /\ BundlesPutNothing /\ PrintInv
    /\ [RoundTripNext]_tripVars => PrintInv'
<1> SUFFICES ASSUME PacketInv, Content, Tiles, Nesting, TripInv, BundlesPutNothing, PrintInv,
                    [RoundTripNext]_tripVars
             PROVE  PrintInv'
  OBVIOUS
<1>1. CASE Write
  <2>1. length = Null /\ length' = length
    BY <1>1 DEF Write, readerVars
  <2> QED
    BY <2>1 DEF PrintInv
<1>2. CASE (\A m \in closed : m.kind = "message" => WellFormed(m)) /\ Deliver
  BY <1>2, DeliverPrints
<1>3. CASE Read
  BY <1>3, ReadPrints
<1>4. CASE Finish
  BY <1>4 DEF Finish, PrintInv
<1>5. CASE UNCHANGED tripVars
  <2>1. /\ length' = length /\ bundles' = bundles /\ message' = message
        /\ elements' = elements /\ out' = out /\ closed' = closed /\ args' = args
        /\ ok' = ok
    BY <1>5 DEF tripVars, readerVars, scriptVars, vars
  <2> QED
    BY <2>1, SamePrints, SameLabel DEF PrintInv
<1> QED
  BY <1>1, <1>2, <1>3, <1>4, <1>5 DEF RoundTripNext

LEMMA PrintAlways == RoundTrip => [](BundlesPutNothing /\ PrintInv)
<1>1. RoundTripInit => PrintInv
  BY DEF RoundTripInit, PrintInv
<1> QED
  BY <1>1, NextPrints, TripAlways, TripWrites, PutsNothingAlways, PTL DEF RoundTrip

-----------------------------------------------------------------------------
(***************************************************************************)
(* A reader that is through a whole packet is behind its last element, and *)
(* has left all the bundles that end with it.                              *)
(***************************************************************************)
LEMMA LastIsLeaf ==
  ASSUME Delivered, NEW e \in closed, Rank(e) = Cardinality(closed)
  PROVE  Leaf(e) /\ Cardinality(Left(e, 0)) = Len(Endings(e))
<1>1. IsFiniteSet(closed) /\ Rank(e) = Cardinality(UpTo(e))
  BY RankFinite
<1>2. UpTo(e) \in SUBSET closed
  BY DEF UpTo
<1>3. UpTo(e) = closed
  BY <1>1, <1>2, FS_Subset
<1>4. ASSUME NEW o \in closed, e \in Around(o)
      PROVE  FALSE
  <2>1. e.first < o.first
    BY <1>4, AroundLess
  <2>2. o.first <= e.first
    BY <1>3 DEF UpTo
  <2>3. e.first \in Nat /\ o.first \in Nat
    BY ElementsPlaced DEF ElementAt
  <2> QED
    BY <2>1, <2>2, <2>3
<1>5. Leaf(e)
  BY <1>4 DEF Leaf
<1>6. \A b : Cardinality(Around(b)) >= 0
  BY RankFinite
<1>7. Left(e, 0) = EndingWith(e)
  BY <1>6 DEF Left
<1>8. Len(Endings(e)) = Cardinality(EndingWith(e))
  BY <1>5, EndingsAre
<1> QED
  BY <1>5, <1>7, <1>8

LEMMA ContinuesBegins ==
  ASSUME NEW W, NEW s \in Seq(W), NEW t, Continues(W, s, t)
  PROVE  /\ Len(s) \in Nat /\ Len(t) \in Nat /\ Len(s) <= Len(t) /\ DOMAIN s = 1 .. Len(s)
         /\ \A i \in 1 .. Len(s) : s[i] = t[i]
         /\ Begins(s, t)
<1>1. PICK r \in Seq(W) : t = s \o r
  BY DEF Continues
<1>2. Len(s) \in Nat /\ Len(r) \in Nat /\ DOMAIN s = 1 .. Len(s)
  BY LenProperties
<1>3. /\ Len(t) = Len(s) + Len(r)
      /\ \A i \in 1 .. Len(s) + Len(r) : t[i] = IF i <= Len(s) THEN s[i] ELSE r[i - Len(s)]
  BY <1>1, ConcatProperties
<1>4. Len(t) \in Nat /\ Len(s) <= Len(t) /\ \A i \in 1 .. Len(s) : s[i] = t[i]
  BY <1>2, <1>3
<1> QED
  BY <1>2, <1>4 DEF Begins

(* The label stands where the whole text has the argument.                 *)
LEMMA LabelBegins ==
  ASSUME Delivered, BundlesPutNothing, ~ok, Labelled(out),
         NEW whole, whole = TextUpTo(Cardinality(closed))
  PROVE  Begins(Inner(out), Inner(whole))
<1>1. PICK e \in closed : \E j \in 1 .. e.numTags :
        /\ e.kind = "message"
        /\ Inner(out) = Append(Inner(Seen(e, j - 1, 0)), <<e.put[j].tag, << >> >>)
  BY DEF Labelled
<1>2. PICK j \in 1 .. e.numTags :
        /\ e.kind = "message"
        /\ Inner(out) = Append(Inner(Seen(e, j - 1, 0)), <<e.put[j].tag, << >> >>)
  BY <1>1
<1> PICK k : k = j - 1
  OBVIOUS
<1> PICK x : x = Token(e.put[j])
  OBVIOUS
<1> PICK y : y = <<e.put[j].tag, << >> >>
  OBVIOUS
<1>3. Len(e.put) = e.numTags /\ e.numTags \in Nat
  BY <1>2, MessageHeld DEF IsMessage
<1>4. /\ k \in Nat /\ k < Len(e.put) /\ k + 1 = j
      /\ j \in 0 .. Len(e.put) /\ k \in 0 .. Len(e.put)
  BY <1>3
<1>5. x \in Tokens /\ x[1] # "end" /\ x[1] = e.put[j].tag
  <2>1. x[1] = e.put[j].tag
    BY DEF Token
  <2> QED
    BY <1>2, <2>1, TokensAre
<1>6. 0 \in 0 .. Len(Endings(e))
  <2>1. Len(Endings(e)) \in Nat
    BY EndingsAre
  <2> QED
    BY <2>1
<1> PICK s : s = Seen(e, k, 0)
  OBVIOUS
<1> PICK full : full = Seen(e, j, 0)
  OBVIOUS
<1>7. s \in Seq(Tokens) /\ full \in Seq(Tokens) /\ full = Append(s, x)
  <2>1. Seen(e, k, 0) \in Seq(Tokens) /\ Seen(e, j, 0) \in Seq(Tokens)
    BY <1>4, <1>6, SeenTyped
  <2>2. Seen(e, k + 1, 0) = Append(Seen(e, k, 0), Token(e.put[k + 1]))
    BY <1>4, SeenArgument
  <2> QED
    BY <1>4, <2>1, <2>2
<1> PICK is : is = Inner(s)
  OBVIOUS
<1>8. is \in Seq(Tokens) /\ Inner(full) = Append(is, x) /\ Inner(out) = Append(is, y)
  <2>1. /\ Inner(s) \in Seq(Tokens)
        /\ Inner(Append(s, x)) = IF x[1] = "end" THEN Inner(s) ELSE Append(Inner(s), x)
    BY <1>5, <1>7, InnerAppend
  <2> QED
    BY <1>2, <1>5, <1>7, <2>1
<1>9. /\ Len(Inner(full)) <= Len(Inner(whole))
      /\ \A i \in 1 .. Len(Inner(full)) : Inner(full)[i] = Inner(whole)[i]
  <2>1. Continues(Tokens, Seen(e, j, 0), whole)
    BY <1>4, <1>6, SeenContinues
  <2>2. Inner(full) \in Seq(Tokens) /\ Continues(Tokens, Inner(full), Inner(whole))
    BY <1>7, <2>1, InnerContinues
  <2> QED
    BY ONLY <2>2, ContinuesBegins
<1>10. IsAppended(is, x, Inner(full))
  <2>1. IsAppended(is, x, Append(is, x))
    BY <1>5, <1>8, AppendedLast
  <2> QED
    BY <1>8, <2>1
<1>11. IsAppended(is, y, Inner(out)) /\ DOMAIN Inner(out) = 1 .. Len(is) + 1
  <2> PICK W : W = Tokens \cup {y}
    OBVIOUS
  <2>1. is \in Seq(W) /\ y \in W
    BY <1>8, SeqOfMore
  <2>2. IsAppended(is, y, Append(is, y))
    BY ONLY <2>1, AppendedLast
  <2>3. DOMAIN Append(is, y) = 1 .. Len(is) + 1
    BY ONLY <2>1, AppendProperties
  <2> QED
    BY <1>8, <2>2, <2>3
<1>12. Len(is) \in Nat
  BY <1>8, LenProperties
<1>13. Len(Inner(out)) = Len(is) + 1 /\ Len(Inner(full)) = Len(is) + 1
  BY <1>10, <1>11 DEF IsAppended
<1>14. ASSUME NEW i \in 1 .. Len(is) + 1
       PROVE  \/ Inner(out)[i] = Inner(whole)[i]
              \/ ~ok /\ i = Len(Inner(out)) /\ Inner(out)[i] = <<Inner(whole)[i][1], << >> >>
  <2>1. Inner(whole)[i] = Inner(full)[i]
    BY <1>9, <1>13
  <2>2. CASE i = Len(is) + 1
    <3>1. Inner(out)[i] = y /\ Inner(whole)[i] = x
      BY <1>10, <1>11, <2>1, <2>2 DEF IsAppended
    <3> QED
      BY <1>5, <1>13, <2>2, <3>1
  <2>3. CASE i # Len(is) + 1
    <3>1. i \in 1 .. Len(is)
      BY <1>12, <2>3
    <3> QED
      BY <1>10, <1>11, <2>1, <3>1 DEF IsAppended
  <2> QED
    BY <2>2, <2>3
<1> QED
  BY <1>9, <1>11, <1>13, <1>14 DEF Begins

LEMMA PrintsBackWhile ==
  ASSUME Reading, BundlesPutNothing, PrintInv
  PROVE  PrintsBack
<1> PICK whole : whole = TextUpTo(Cardinality(closed))
  OBVIOUS
<1> SUFFICES ASSUME out # Null
             PROVE  /\ Begins(Inner(out), Inner(whole))
                    /\ length = args.pos => IsPrefix(out, whole)
                    /\ length = args.pos /\ Reader!finished => out = whole
  BY DEF PrintsBack
<1>1. Delivered /\ BundlesPutNothing
  BY DEF Reading
<1>2. \/ PrintsText(length, bundles, message, elements, out)
      \/ ~ok /\ Labelled(out)
  BY DEF PrintInv, Reading
<1>3. whole \in Seq(Tokens) /\ Inner(whole) \in Seq(Tokens)
  <2> PICK N : N = Cardinality(closed)
    OBVIOUS
  <2>1. N \in Nat
    BY <1>1, RankFinite
  <2>2. N \in 0 .. N
    BY <2>1
  <2>3. whole \in Seq(Tokens)
    BY <1>1, <2>2, TextGrows
  <2> QED
    BY <2>3, InnerTyped
<1>4. CASE out = << >> /\ length # args.pos
  <2>1. Inner(out) = << >>
    BY <1>4, InnerEmpty
  <2>2. << >> \in Seq(Tokens) /\ Inner(whole) = << >> \o Inner(whole)
    BY <1>3, EmptySeq, ConcatEmptySeq
  <2>3. Continues(Tokens, << >>, Inner(whole))
    BY <1>3, <2>2 DEF Continues
  <2>4. Begins(<< >>, Inner(whole))
    BY <2>2, <2>3, ContinuesBegins
  <2> QED
    BY <1>4, <2>1, <2>4
<1>5. ASSUME NEW e \in closed, Rank(e) = elements, Prints(length, bundles, message, out, e)
      PROVE  /\ Begins(Inner(out), Inner(whole))
             /\ length = args.pos => IsPrefix(out, whole)
             /\ length = args.pos /\ Reader!finished => out = whole
  <2> PICK k : k = Shown(message, e)
    OBVIOUS
  <2> PICK q : q = Level(e) - Len(bundles)
    OBVIOUS
  <2>1. /\ k \in 0 .. Len(e.put) /\ out \in Seq(Tokens)
        /\ Inner(out) = Inner(Seen(e, k, 0))
        /\ length = args.pos => EndsPrinted(bundles, message, e) /\ out = Seen(e, k, q)
    BY <1>5 DEF Prints
  <2>2. Begins(Inner(out), Inner(whole))
    <3>1. 0 \in 0 .. Len(Endings(e))
      <4>1. Len(Endings(e)) \in Nat
        BY <1>1, EndingsAre
      <4> QED
        BY <4>1
    <3>2. Continues(Tokens, Seen(e, k, 0), whole) /\ Seen(e, k, 0) \in Seq(Tokens)
      BY <1>1, <2>1, <3>1, SeenContinues, SeenTyped
    <3> PICK s : s = Seen(e, k, 0)
      OBVIOUS
    <3>3. Inner(s) \in Seq(Tokens) /\ Continues(Tokens, Inner(s), Inner(whole))
      BY <3>2, InnerContinues
    <3>4. Begins(Inner(s), Inner(whole))
      BY <3>3, ContinuesBegins
    <3> QED
      BY <2>1, <3>4
  <2>3. ASSUME length = args.pos
        PROVE  q \in 0 .. Len(Endings(e)) /\ (q = 0 \/ k = Len(e.put)) /\ out = Seen(e, k, q)
    <3>1. EndsPrinted(bundles, message, e) /\ out = Seen(e, k, q)
      BY <2>1, <2>3
    <3>2. q \in 0 .. Len(Endings(e))
      BY <3>1 DEF EndsPrinted
    <3>3. CASE message = << >>
      BY <3>1, <3>2, <3>3 DEF Shown
    <3>4. CASE message # << >>
      <4>1. Level(e) = Len(bundles) /\ Level(e) \in Nat
        BY <1>1, <3>1, <3>4, EndingsAre DEF EndsPrinted
      <4>2. q = 0
        BY <4>1
      <4> QED
        BY <3>1, <3>2, <4>2
    <3> QED
      BY <3>3, <3>4
  <2>4. ASSUME length = args.pos
        PROVE  IsPrefix(out, whole)
    <3>1. Continues(Tokens, Seen(e, k, q), whole)
      BY <1>1, <2>1, <2>3, <2>4, SeenContinues
    <3>2. Continues(Tokens, out, whole)
      BY <2>3, <2>4, <3>1
    <3> QED
      BY <2>1, <3>2, ContinuesPrefix
  <2>5. ASSUME length = args.pos, Reader!finished
        PROVE  out = whole
    <3>1. ok = TRUE /\ elements = Cardinality(closed)
      <4>1. ReadsAll
        BY ReadsAllWhile
      <4>2. ok = TRUE
        BY <2>5 DEF Reading, ReadsNow, Reads
      <4> QED
        BY <2>5, <4>1, <4>2 DEF ReadsAll
    <3>2. bundles = << >> /\ message = << >>
      BY <2>5, <3>1 DEF Reader!finished
    <3>3. Rank(e) = Cardinality(closed)
      BY <1>5, <3>1
    <3>4. k = Len(e.put)
      BY <3>2 DEF Shown
    <3>5. q = Len(Endings(e))
      <4>1. Len(bundles) = 0
        BY <3>2
      <4>2. q = Cardinality(Left(e, 0))
        BY <2>1, <2>5, <4>1 DEF EndsPrinted
      <4> QED
        BY <1>1, <3>3, <4>2, LastIsLeaf
    <3>6. out = Seen(e, Len(e.put), Len(Endings(e)))
      BY <2>3, <2>5, <3>4, <3>5
    <3>7. Seen(e, Len(e.put), Len(Endings(e))) = TextUpTo(Rank(e))
      BY <1>1, SeenWhole
    <3> QED
      BY <3>3, <3>6, <3>7
  <2> QED
    BY <2>2, <2>4, <2>5
<1>6. CASE ~ok /\ Labelled(out)
  <2>1. Begins(Inner(out), Inner(whole))
    BY <1>1, <1>6, LabelBegins
  <2>2. length # args.pos
    <3>1. ReadsAll
      BY ReadsAllWhile
    <3> QED
      BY <1>6, <3>1 DEF ReadsAll
  <2> QED
    BY <2>1, <2>2
<1> QED
  BY <1>2, <1>4, <1>5, <1>6 DEF PrintsText

(***************************************************************************)
(* The printer writes the text of the packet, for any nesting of bundles   *)
(* and arrays: in order, each element at its depth with all its arguments, *)
(* and the end of each bundle behind its last element.  Of a packet that   *)
(* was cut it writes the beginning of that, but for the ends of bundles    *)
(* and, of an argument that is cut, only the label; when it is through a   *)
(* whole packet it has written all of it.                                  *)
(* (print.hpp:72-179)                                                      *)
(***************************************************************************)
THEOREM WhatIsPrintedIsTheText == RoundTrip => []PrintsBack
<1>1. ASSUME PacketInv, Content, Tiles, Nesting, TripInv, BundlesPutNothing, PrintInv
      PROVE  PrintsBack
  <2>1. CASE length = Null
    BY <2>1 DEF PrintsBack
  <2>2. CASE length # Null
    BY <1>1, <2>2, ReadingWhile, PrintsBackWhile
  <2> QED
    BY <2>1, <2>2
<1> QED
  BY <1>1, TripAlways, PrintAlways, PTL
=============================================================================
