-------------------------- MODULE TokenReader_proofs --------------------------
(***************************************************************************)
(* For windows, sub-images and streams of any size: the window of the LZ77 *)
(* decoder holds the last values, and what is read is what LZ77 without a  *)
(* window reads.                                                           *)
(***************************************************************************)
EXTENDS TokenReader, TLAPS

-----------------------------------------------------------------------------
(* Remainders *)

LEMMA Division ==
  ASSUME NEW w \in Nat \ {0}, NEW x \in Nat
  PROVE  /\ x = w * (x \div w) + (x % w)
         /\ x \div w \in Nat /\ x % w \in 0 .. w - 1
BY Z3

LEMMA SmallRemainder ==
  ASSUME NEW w \in Nat \ {0}, NEW x \in Nat, x < w
  PROVE  x % w = x
OBVIOUS

LEMMA NextMultiple ==
  ASSUME NEW w \in Nat \ {0}, NEW a \in Nat, NEW b \in Nat, a < b
  PROVE  w * b >= w * a + w
OBVIOUS

\* Places of the window are not shared by values that are both within reach.
LEMMA DistinctPlaces ==
  ASSUME NEW w \in Nat \ {0}, NEW p \in Nat, NEW q \in Nat, p < q, q < p + w
  PROVE  p % w # q % w
<1> DEFINE a == p \div w
           b == q \div w
           r == p % w
<1>1. p = w * a + r /\ a \in Nat /\ r \in 0 .. w - 1
  BY Division
<1>2. q = w * b + (q % w) /\ b \in Nat /\ q % w \in 0 .. w - 1
  BY Division
<1> SUFFICES ASSUME q % w = r PROVE FALSE
  OBVIOUS
<1>3. q = w * b + r
  BY <1>2
<1> HIDE DEF a, b, r
<1> DEFINE wa == w * a
           wb == w * b
<1>4. wa \in Nat /\ wb \in Nat /\ p = wa + r /\ q = wb + r
  BY <1>1, <1>2, <1>3
<1>5. a < b => wb >= wa + w
  BY <1>1, <1>2, NextMultiple
<1>6. b < a => wa >= wb + w
  BY <1>1, <1>2, NextMultiple
<1>7. a = b => wa = wb
  OBVIOUS
<1> HIDE DEF wa, wb
<1> QED
  BY <1>1, <1>2, <1>4, <1>5, <1>6, <1>7

-----------------------------------------------------------------------------
(* The window *)

Wide(h, w) ==
  \E c \in Nat : DOMAIN w = 0 .. c - 1 /\ (c >= Len(h) \/ c >= WindowSize)
Recent(h, w) ==
  \A p \in 0 .. Len(h) - 1 : p + WindowSize >= Len(h) => w[p % WindowSize] = h[p + 1]

LEMMA RoomEnough ==
  ASSUME NEW o \in 0 .. WindowSize - 1
  PROVE  Enlarged(o) \in Nat /\ Enlarged(o) > o
<1>1. \E c \in Capacities : c > o /\ \A e \in Capacities : e > o => c <= e
  BY WindowAssumption
<1>2. /\ Enlarged(o) \in Capacities /\ Enlarged(o) > o
  BY <1>1 DEF Enlarged
<1> QED
  BY <1>2, WindowAssumption

\* Storing the next value, in a larger window if there is no place for it.
Written(o, v) == [i \in DOMAIN Room(o) |-> IF i = o THEN v ELSE Room(o)[i]]

OneMore(o, c, v) ==
  \E d \in Nat : /\ DOMAIN Written(o, v) = 0 .. d - 1 /\ d > o /\ d >= c
                 /\ Written(o, v)[o] = v
                 /\ \A i \in 0 .. c - 1 : i # o => Written(o, v)[i] = window[i]

LEMMA Placed ==
  ASSUME NEW o \in 0 .. WindowSize - 1, NEW c \in Nat, DOMAIN window = 0 .. c - 1,
         o <= c, NEW v
  PROVE  OneMore(o, c, v)
<1> SUFFICES \E d \in Nat : /\ DOMAIN Written(o, v) = 0 .. d - 1 /\ d > o /\ d >= c
                            /\ Written(o, v)[o] = v
                            /\ \A i \in 0 .. c - 1 : i # o => Written(o, v)[i] = window[i]
  BY DEF OneMore
<1>1. CASE o < c
  <2>1. Fits(o)
    BY <1>1 DEF Fits
  <2>2. Room(o) = window
    BY <2>1 DEF Room
  <2>3. Written(o, v) = [i \in 0 .. c - 1 |-> IF i = o THEN v ELSE window[i]]
    BY <2>2 DEF Written
  <2> QED
    BY <1>1, <2>3
<1>2. CASE o = c
  <2> DEFINE d == Enlarged(o)
  <2>1. ~Fits(o)
    BY <1>2 DEF Fits
  <2>2. d \in Nat /\ d > o
    BY RoomEnough
  <2>3. Room(o) = Copied(o, d)
    BY <2>1 DEF Room
  <2> HIDE DEF d
  <2>4. Room(o) = [i \in 0 .. d - 1 |-> IF i < o THEN window[i] ELSE Stale]
    BY <2>3 DEF Copied
  <2>5. /\ DOMAIN Room(o) = 0 .. d - 1
        /\ \A i \in 0 .. c - 1 : i # o => Room(o)[i] = window[i]
    BY <1>2, <2>2, <2>4
  <2>6. /\ DOMAIN Written(o, v) = 0 .. d - 1
        /\ \A i \in 0 .. d - 1 : Written(o, v)[i] = IF i = o THEN v ELSE Room(o)[i]
    BY <2>5 DEF Written
  <2>7. \A i \in 0 .. c - 1 : i \in 0 .. d - 1
    BY <1>2, <2>2
  <2>8. o \in 0 .. d - 1
    BY <2>2
  <2>9. d >= c
    BY <1>2, <2>2
  <2> QED
    BY <2>2, <2>5, <2>6, <2>7, <2>8, <2>9
<1> QED
  BY <1>1, <1>2

LEMMA StoreKeepsHistory ==
  ASSUME NEW v \in Nat, out \in Seq(Nat), Wide(out, window), Recent(out, window)
  PROVE  LET w == Written(Len(out) % WindowSize, v)
         IN  Wide(Append(out, v), w) /\ Recent(Append(out, v), w)
<1>0. PICK n \in Nat : n = Len(out)
  OBVIOUS
<1>a. PICK o \in 0 .. WindowSize - 1 : o = n % WindowSize
  BY Division, WindowAssumption
<1> DEFINE w == Written(o, v)
           h == Append(out, v)
<1>1. n \in Nat /\ WindowSize \in Nat \ {0} /\ o \in 0 .. WindowSize - 1
  BY WindowAssumption
<1>2. /\ h \in Seq(Nat) /\ Len(h) = n + 1 /\ h[n + 1] = v
      /\ \A i \in 1 .. n : h[i] = out[i]
  BY <1>0
<1>3. PICK c \in Nat : DOMAIN window = 0 .. c - 1 /\ (c >= n \/ c >= WindowSize)
  BY <1>0 DEF Wide
<1> HIDE DEF h
<1>4. o <= c /\ (c < WindowSize => c >= n)
  <2>1. n < WindowSize => o = n
    BY <1>1, <1>a, SmallRemainder
  <2> QED
    BY <1>1, <1>3, <2>1
<1>5. OneMore(o, c, v)
  <2>1. o \in 0 .. WindowSize - 1 /\ c \in Nat /\ DOMAIN window = 0 .. c - 1 /\ o <= c
    BY <1>1, <1>3, <1>4
  <2> QED
    BY <2>1, Placed
<1>6. PICK d \in Nat : /\ DOMAIN w = 0 .. d - 1 /\ d > o /\ d >= c
                       /\ w[o] = v
                       /\ \A i \in 0 .. c - 1 : i # o => w[i] = window[i]
  BY <1>5 DEF OneMore
<1> HIDE DEF w
<1>7. Wide(h, w)
  <2>1. d >= n + 1 \/ d >= WindowSize
    <3>1. CASE c >= WindowSize
      BY <3>1, <1>1, <1>6
    <3>2. CASE c < WindowSize /\ n < WindowSize
      <4>1. o = n
        BY <3>2, <1>1, <1>a, SmallRemainder
      <4> QED
        BY <4>1, <1>1, <1>6
    <3>3. CASE c < WindowSize /\ n >= WindowSize
      BY <3>3, <1>1, <1>3
    <3> QED
      BY <3>1, <3>2, <3>3, <1>1
  <2> QED
    BY <1>2, <1>6, <2>1 DEF Wide
<1>8. ASSUME NEW p \in 0 .. Len(h) - 1, p + WindowSize >= Len(h)
      PROVE  w[p % WindowSize] = h[p + 1]
  <2>1. CASE p = n
    BY <2>1, <1>2, <1>6, <1>a
  <2>2. CASE p < n
    <3>1. p \in Nat /\ p \in 0 .. n - 1 /\ p + WindowSize >= n /\ n < p + WindowSize
      BY <2>2, <1>1, <1>2, <1>8
    <3>2. window[p % WindowSize] = out[p + 1]
      BY <3>1, <1>0 DEF Recent
    <3>3. p % WindowSize # o
      BY <3>1, <2>2, <1>1, <1>a, DistinctPlaces
    <3>4. p % WindowSize \in 0 .. WindowSize - 1
      BY <3>1, <1>1, Division
    <3>5. p < WindowSize => p % WindowSize = p
      BY <3>1, <1>1, SmallRemainder
    <3>6. p % WindowSize \in 0 .. c - 1
      <4> DEFINE r == p % WindowSize
      <4>1. r \in Nat /\ r <= WindowSize - 1 /\ (p < WindowSize => r = p)
        BY <3>4, <3>5, <1>1
      <4> HIDE DEF r
      <4>2. r < c
        BY <4>1, <3>1, <2>2, <1>1, <1>3
      <4> QED
        BY <4>1, <4>2 DEF r
    <3>7. h[p + 1] = out[p + 1]
      BY <3>1, <1>1, <1>2
    <3> QED
      BY <3>2, <3>3, <3>6, <3>7, <1>6
  <2> QED
    BY <2>1, <2>2, <1>1, <1>2
<1>9. Recent(h, w)
  BY <1>8 DEF Recent
<1> QED
  BY <1>7, <1>9, <1>0, <1>a DEF w, h

-----------------------------------------------------------------------------
(* The inductive invariant *)

LzState == [left : Nat, from : Nat, count : Nat]
RleState == [left : Nat, last : Nat]
Pixels == [ch : Nat \ {0}, x : Nat, y : Nat]

Typed ==
  /\ image \in Images /\ hoisted \in BOOLEAN
  /\ lz \in LzState /\ slot \in LzState
  /\ rle \in RleState /\ at \in Pixels /\ taken \in Nat

\* The decoder's part: the run goes on within reach.
InReach(s) == s.left > 0 => s.from < s.count /\ s.count <= s.from + WindowSize
History == out \in Seq(Nat) /\ Wide(out, window) /\ Recent(out, window)
LzInv == History /\ Cur.count = Len(out) /\ InReach(Cur)

\* The run length's part: it repeats the last value, as long as the stream is
\* well-formed.
RleInv ==
  /\ out \in Seq(Nat)
  /\ ~Garbled => /\ taken > 0 <=> out # <<>>
                 /\ out # <<>> => rle.last = out[Len(out)]
                 /\ rle.left > 0 => taken > 0

TokenInv ==
  /\ Typed
  /\ result = "OK" /\ ~UsesRle => LzInv
  /\ Unmixed /\ UsesRle => RleInv

LEMMA CopyingFields ==
  ASSUME NEW l, NEW f, NEW c
  PROVE  /\ Copying(l, f, c).left = l /\ Copying(l, f, c).from = f /\ Copying(l, f, c).count = c
         /\ (l \in Nat /\ f \in Nat /\ c \in Nat => Copying(l, f, c) \in LzState)
BY DEF Copying, LzState

LEMMA LzFields ==
  ASSUME NEW s \in LzState
  PROVE  s.left \in Nat /\ s.from \in Nat /\ s.count \in Nat
BY DEF LzState

LEMMA RepeatingFields ==
  ASSUME NEW l, NEW v
  PROVE  /\ Repeating(l, v).left = l /\ Repeating(l, v).last = v
         /\ (l \in Nat /\ v \in Nat => Repeating(l, v) \in RleState)
BY DEF Repeating, RleState

LEMMA CurTyped ==
  ASSUME Typed
  PROVE  Cur \in LzState /\ Cur.left \in Nat /\ Cur.from \in Nat /\ Cur.count \in Nat
<1>1. Cur \in LzState
  BY DEF Typed, Cur
<1> QED
  BY <1>1, LzFields

\* What a token and a channel are.
LEMMA ElementIn ==
  ASSUME NEW S, NEW q \in Seq(S), NEW k \in 1 .. Len(q)
  PROVE  q[k] \in S
OBVIOUS

Tokens == [run : BOOLEAN, v : Nat, n : Nat, d : Nat]
Chans == [kind : Kinds, width : Nat, height : Nat]

LEMMA ImageTyped ==
  ASSUME image \in Images
  PROVE  /\ Len(image.tokens) \in Nat /\ Len(image.channels) \in Nat
         /\ \A k \in 1 .. Len(image.tokens) : image.tokens[k] \in Tokens
         /\ \A k \in 1 .. Len(image.channels) : image.channels[k] \in Chans
         /\ image.ans \in BOOLEAN /\ image.rle \in BOOLEAN
<1>1. image.tokens \in Seq(Tokens) /\ image.channels \in Seq(Chans)
  BY ImagesAssumption DEF Tokens, Chans
<1>2. image.ans \in BOOLEAN /\ image.rle \in BOOLEAN
  BY ImagesAssumption
<1>3. \A k \in 1 .. Len(image.tokens) : image.tokens[k] \in Tokens
  BY <1>1, ElementIn
<1>4. \A k \in 1 .. Len(image.channels) : image.channels[k] \in Chans
  BY <1>1, ElementIn
<1>5. Len(image.tokens) \in Nat /\ Len(image.channels) \in Nat
  BY <1>1
<1> QED
  BY <1>2, <1>3, <1>4, <1>5

LEMMA TokenTyped ==
  ASSUME image \in Images, taken \in Nat, More
  PROVE  /\ taken + 1 \in 1 .. Len(image.tokens)
         /\ Token = image.tokens[taken + 1]
         /\ Token.run \in BOOLEAN /\ Token.v \in Nat /\ Token.n \in Nat /\ Token.d \in Nat
<1>1. taken + 1 \in 1 .. Len(image.tokens)
  BY ImageTyped DEF More
<1>2. image.tokens[taken + 1] \in Tokens
  BY <1>1, ImageTyped
<1> QED
  BY <1>1, <1>2 DEF Token, Tokens

LEMMA ChannelTyped ==
  ASSUME Typed, InChannel
  PROVE  /\ at.ch \in 1 .. Len(image.channels)
         /\ Channel = image.channels[at.ch]
         /\ Channel.kind \in Kinds /\ Channel.width \in Nat /\ Channel.height \in Nat
         /\ Channel.width # 0
         /\ NextPixel \in Pixels
<1>1. at.ch \in Nat \ {0} /\ at.x \in Nat /\ at.y \in Nat /\ image \in Images
  BY DEF Typed, Pixels
<1>2. at.ch \in 1 .. Len(image.channels)
  BY <1>1, ImageTyped DEF InChannel
<1>3. image.channels[at.ch] \in Chans
  BY <1>1, <1>2, ImageTyped
<1>4. NextPixel \in Pixels
  BY <1>1 DEF NextPixel, At, Pixels
<1> QED
  BY <1>2, <1>3, <1>4 DEF Channel, InChannel, Empty, Chans

LEMMA MultiplierTyped ==
  ASSUME image \in Images
  PROVE  /\ Multiplier \in Nat
         /\ \A k \in 1 .. Len(image.channels) : Multiplier >= image.channels[k].width
<1>1. \E w \in ChannelWidths(image) : \A u \in ChannelWidths(image) : w >= u
  BY WidestAssumption
<1>2. Multiplier \in ChannelWidths(image) /\ \A u \in ChannelWidths(image) : Multiplier >= u
  BY <1>1 DEF Multiplier, Max
<1>3. ASSUME NEW u \in ChannelWidths(image) PROVE u \in Nat
  BY ImageTyped DEF ChannelWidths, Chans
<1>4. \A k \in 1 .. Len(image.channels) : image.channels[k].width \in ChannelWidths(image)
  BY DEF ChannelWidths
<1> QED
  BY <1>2, <1>3, <1>4

LEMMA FarTyped ==
  ASSUME image \in Images, NEW d \in Nat
  PROVE  Far(d) \in Nat
<1>1. Multiplier \in Nat
  BY MultiplierTyped
<1> DEFINE near == Special[d + 1][1] + Multiplier * Special[d + 1][2] - 1
<1>2. d < Len(Special) => near \in Int
  <2> SUFFICES ASSUME d < Len(Special) PROVE near \in Int
    OBVIOUS
  <2>1. Special[d + 1] \in Int \X Int
    BY SpecialAssumption
  <2>2. Special[d + 1][1] \in Int /\ Special[d + 1][2] \in Int
    BY <2>1
  <2> QED
    BY <1>1, <2>2
<1>3. Len(Special) \in Nat
  BY SpecialAssumption
<1>4. Far(d) = IF Multiplier = 0 THEN d
               ELSE IF d < Len(Special) THEN IF near > 0 THEN near ELSE 0
               ELSE d - Len(Special)
  BY DEF Far
<1> HIDE DEF near
<1> QED
  BY <1>2, <1>3, <1>4

\* A run begins within reach of what there is.
LEMMA DistanceTyped ==
  ASSUME image \in Images, NEW d \in Nat, NEW c \in Nat, c > 0
  PROVE  /\ Distance(d, c) \in 1 .. c /\ Distance(d, c) <= WindowSize
         /\ Distance(d, c) = IF (IF Far(d) + 1 > WindowSize THEN WindowSize ELSE Far(d) + 1) > c
                             THEN c
                             ELSE IF Far(d) + 1 > WindowSize THEN WindowSize ELSE Far(d) + 1
<1>1. Far(d) \in Nat /\ WindowSize \in Nat \ {0}
  BY FarTyped, WindowAssumption
<1> QED
  BY <1>1 DEF Distance, Least

\* A value within reach is where a run looks for it.
LEMMA SourceValue ==
  ASSUME History, NEW f \in Nat, f < Len(out), Len(out) <= f + WindowSize
  PROVE  window[f % WindowSize] = out[f + 1] /\ out[f + 1] \in Nat
<1>1. PICK n \in Nat : n = Len(out)
  BY DEF History
<1>2. f \in 0 .. n - 1 /\ f + WindowSize >= n /\ f + 1 \in 1 .. n
  BY <1>1, WindowAssumption
<1>3. window[f % WindowSize] = out[f + 1]
  BY <1>1, <1>2 DEF History, Recent
<1>4. out[f + 1] \in Nat
  BY <1>1, <1>2, ElementIn DEF History
<1> QED
  BY <1>3, <1>4

Outage == result' = "OUT_OF_MEMORY" /\ out' = out

LEMMA BecomesCur ==
  ASSUME NEW s, Becomes(s), hoisted' = hoisted
  PROVE  Cur' = s
BY DEF Becomes, Cur

LEMMA StoreTyped ==
  ASSUME Typed, InChannel, hoisted' = hoisted, NEW s \in LzState, NEW v, Store(s, v)
  PROVE  lz' \in LzState /\ slot' \in LzState /\ at' \in Pixels
<1>1. s.left \in Nat /\ s.from \in Nat /\ s.count + 1 \in Nat
  BY LzFields
<1> DEFINE n == Copying(s.left, s.from, s.count + 1)
<1>2. n \in LzState
  BY <1>1, CopyingFields
<1> HIDE DEF n
<1>3. \/ Becomes(n) /\ at' = NextPixel
      \/ Becomes(s) /\ at' = at
  BY DEF Store, Hand, Error, n
<1>4. lz \in LzState /\ slot \in LzState /\ at \in Pixels /\ NextPixel \in Pixels
  BY ChannelTyped DEF Typed
<1> QED
  BY <1>2, <1>3, <1>4 DEF Becomes

LEMMA StoreStep ==
  ASSUME InChannel, hoisted' = hoisted, NEW s \in LzState, NEW v \in Nat, Store(s, v),
         History, s.count = Len(out),
         s.left > 0 => s.from <= s.count /\ s.count + 1 <= s.from + WindowSize
  PROVE  \/ /\ result' = "OK" /\ out' = Append(out, v)
            /\ Cur' = Copying(s.left, s.from, s.count + 1) /\ LzInv'
         \/ Outage
<1>1. CASE Error("OUT_OF_MEMORY")
  BY <1>1 DEF Error, Outage
<1>2. CASE ~Error("OUT_OF_MEMORY")
  <2> DEFINE n == Copying(s.left, s.from, s.count + 1)
             o == s.count % WindowSize
  <2>1. /\ Becomes(n) /\ Hand(v)
        /\ window' = Written(o, v)
    BY <1>2 DEF Store, n, Written
  <2>2. n.left = s.left /\ n.from = s.from /\ n.count = s.count + 1
    BY CopyingFields
  <2> HIDE DEF n
  <2>3. Cur' = n
    BY <2>1, BecomesCur
  <2>4. out' = Append(out, v) /\ result' = "OK"
    BY <2>1 DEF Hand, InChannel
  <2>5. Wide(Append(out, v), Written(o, v)) /\ Recent(Append(out, v), Written(o, v))
    BY StoreKeepsHistory DEF History
  <2>6. Wide(out', window') /\ Recent(out', window')
    BY <2>1, <2>4, <2>5
  <2>7. out' \in Seq(Nat) /\ Len(out') = Len(out) + 1
    BY <2>4 DEF History
  <2>8. History'
    BY <2>6, <2>7 DEF History, Wide, Recent
  <2>9. s.left \in Nat /\ s.from \in Nat /\ s.count \in Nat /\ WindowSize \in Nat
    BY LzFields, WindowAssumption
  <2>10. Cur'.count = Len(out') /\ InReach(Cur')
    BY <2>2, <2>3, <2>7, <2>9 DEF InReach
  <2>11. LzInv'
    BY <2>8, <2>10 DEF LzInv, InReach
  <2> QED
    BY <2>3, <2>4, <2>11 DEF n
<1> QED
  BY <1>1, <1>2

-----------------------------------------------------------------------------
(* The decoder's three steps *)

LEMMA CopyStep ==
  ASSUME Typed, LzInv, CopyValue
  PROVE  \/ /\ result' = "OK" /\ LzInv' /\ out' = Append(out, out[Cur.from + 1])
            /\ Cur' = Copying(Cur.left - 1, Cur.from + 1, Cur.count + 1)
         \/ Outage
<1> DEFINE s == Copying(Cur.left - 1, Cur.from + 1, Cur.count)
           v == window[Cur.from % WindowSize]
<1>1. PICK c : c = Cur
  OBVIOUS
<1>2. c.left \in Nat /\ c.from \in Nat /\ c.count \in Nat /\ c.left > 0
  BY <1>1, CurTyped DEF CopyValue
<1>3. c.count = Len(out) /\ c.from < c.count /\ c.count <= c.from + WindowSize /\ History
  BY <1>1, <1>2 DEF LzInv, InReach
<1>4. v = out[c.from + 1] /\ v \in Nat
  BY <1>1, <1>2, <1>3, SourceValue
<1>5. /\ s \in LzState
      /\ s.left = c.left - 1 /\ s.from = c.from + 1 /\ s.count = c.count
  BY <1>1, <1>2, CopyingFields
<1>6. InChannel /\ hoisted' = hoisted /\ Store(s, v)
  <2>1. Repeated(Cur)
    BY DEF CopyValue
  <2>2. Store(s, v)
    BY <2>1 DEF Repeated
  <2> QED
    BY <2>2 DEF CopyValue, ByLz77
<1> HIDE DEF s, v
<1>7. s.from <= s.count /\ s.count + 1 <= s.from + WindowSize
  BY <1>2, <1>3, <1>5, WindowAssumption
<1>8. \/ /\ result' = "OK" /\ out' = Append(out, v)
         /\ Cur' = Copying(s.left, s.from, s.count + 1) /\ LzInv'
      \/ Outage
  BY <1>3, <1>4, <1>5, <1>6, <1>7, StoreStep
<1> QED
  BY <1>1, <1>4, <1>5, <1>8

LEMMA LiteralStep ==
  ASSUME Typed, LzInv, ReadLiteral
  PROVE  \/ /\ result' = "OK" /\ LzInv' /\ out' = Append(out, Token.v)
            /\ Cur' = Copying(0, Cur.from, Cur.count + 1)
         \/ Outage
<1>1. /\ Cur \in LzState /\ Cur.left = 0 /\ Store(Cur, Token.v)
      /\ InChannel /\ hoisted' = hoisted /\ History /\ Cur.count = Len(out)
  BY CurTyped DEF ReadLiteral, ByLz77, LzInv
<1>2. Token.v \in Nat
  BY TokenTyped DEF ReadLiteral, Typed
<1> QED
  BY <1>1, <1>2, StoreStep

LEMMA RunStep ==
  ASSUME Typed, LzInv, ReadRun
  PROVE  LET b == Distance(Token.d, Cur.count)
         IN  /\ b \in 1 .. Len(out) /\ b <= WindowSize
             /\ \/ /\ result' = "OK" /\ LzInv'
                   /\ out' = Append(out, out[Len(out) + 1 - b])
                   /\ Cur' = Copying(Token.n + MinLength - 1, Cur.count - b + 1, Cur.count + 1)
                \/ Outage
<1>1. PICK c : c = Cur
  OBVIOUS
<1>2. c.count \in Nat /\ c.count > 0 /\ c.count = Len(out) /\ History
  BY <1>1, CurTyped DEF ReadRun, LzInv
<1>3. Token.n \in Nat /\ Token.d \in Nat /\ image \in Images
  BY TokenTyped DEF ReadRun, Typed
<1>4. PICK b : b = Distance(Token.d, c.count)
  OBVIOUS
<1>5. b \in 1 .. c.count /\ b <= WindowSize
  BY <1>2, <1>3, <1>4, DistanceTyped
<1>6. PICK n \in Nat : n = Token.n + MinLength - 1
  BY <1>3, LengthAssumption
<1> DEFINE s == Copying(n, c.count - b + 1, c.count)
           v == window[(c.count - b) % WindowSize]
<1>7. c.count - b \in Nat /\ c.count - b < Len(out) /\ Len(out) <= (c.count - b) + WindowSize
  BY <1>2, <1>5, WindowAssumption
<1>8. v = out[c.count - b + 1] /\ v \in Nat
  BY <1>2, <1>7, SourceValue
<1>9. s \in LzState /\ s.left = n /\ s.from = c.count - b + 1 /\ s.count = c.count
  BY <1>2, <1>7, CopyingFields
<1>10. InChannel /\ hoisted' = hoisted /\ Store(s, v)
  <2> DEFINE q == Copying(Token.n + MinLength, c.count - b, c.count)
  <2>1. Repeated(q)
    BY <1>1, <1>4 DEF ReadRun
  <2>0. q.left = Token.n + MinLength /\ q.from = c.count - b /\ q.count = c.count
    BY CopyingFields
  <2> HIDE DEF q
  <2>2. q.left - 1 = n /\ q.from = c.count - b /\ q.count = c.count
    BY <1>3, <1>6, <2>0, LengthAssumption
  <2>3. Store(s, v)
    BY <2>1, <2>2 DEF Repeated
  <2> QED
    BY <2>3 DEF ReadRun, ByLz77
<1> HIDE DEF s, v
<1>11. s.from <= s.count /\ s.count + 1 <= s.from + WindowSize
  BY <1>2, <1>5, <1>9, WindowAssumption
<1>12. \/ /\ result' = "OK" /\ out' = Append(out, v)
          /\ Cur' = Copying(s.left, s.from, s.count + 1) /\ LzInv'
       \/ Outage
  BY <1>2, <1>8, <1>9, <1>10, <1>11, StoreStep
<1>13. out[c.count - b + 1] = out[Len(out) + 1 - b]
  BY <1>2, <1>5
<1> QED
  BY <1>1, <1>2, <1>4, <1>5, <1>6, <1>8, <1>9, <1>12, <1>13

-----------------------------------------------------------------------------
(* The invariant is kept *)

LEMMA SameImage ==
  ASSUME image' = image
  PROVE  (UsesRle <=> UsesRle') /\ UsesRle' = UsesRle /\ Symbols' = Symbols
<1>1. UsesRle' = UsesRle
  BY Zenon DEF UsesRle
<1>2. UsesRle <=> UsesRle'
  BY DEF UsesRle
<1>3. Symbols' = Symbols
  BY DEF Symbols, Far, Multiplier, ChannelWidths
<1> QED
  BY <1>1, <1>2, <1>3

\* Which way values are read: always the same for a sub-image.
LEMMA Ways ==
  ASSUME Typed, InChannel
  PROVE  /\ ByRle => UsesRle
         /\ ByLz77 /\ Unmixed => ~UsesRle
<1>1. at.ch \in 1 .. Len(image.channels) /\ Channel = image.channels[at.ch]
  BY ChannelTyped
<1>2. ByRle => UsesRle
  BY <1>1 DEF ByRle, UsesRle
<1>3. ASSUME ByLz77, Unmixed, UsesRle PROVE FALSE
  <2>1. image.rle /\ Channel.kind # "fast"
    BY <1>3 DEF ByLz77, UsesRle
  <2>2. \A k \in 1 .. Len(image.channels) : image.channels[k].kind = "fast"
    BY <1>3, <2>1 DEF Unmixed, UsesRle, Typed
  <2> QED
    BY <1>1, <2>1, <2>2
<1> QED
  BY <1>2, <1>3

LEMMA TypedStep ==
  ASSUME Typed, [TokenNext]_tokenVars
  PROVE  Typed'
<1> USE DEF Typed
<1>1. CASE HoistBegin \/ HoistCommit \/ Finish
  BY <1>1 DEF HoistBegin, HoistCommit, Committed, Finish
<1>2. CASE CopyValue
  <2>1. InChannel /\ hoisted' = hoisted /\ Repeated(Cur)
    BY <1>2 DEF CopyValue, ByLz77
  <2>2. Cur.left - 1 \in Nat /\ Cur.from + 1 \in Nat /\ Cur.count \in Nat
    BY <1>2, CurTyped DEF CopyValue
  <2>3. Copying(Cur.left - 1, Cur.from + 1, Cur.count) \in LzState
    BY <2>2, CopyingFields
  <2>4. lz' \in LzState /\ slot' \in LzState /\ at' \in Pixels
    BY <2>1, <2>3, StoreTyped DEF Repeated
  <2> QED
    BY <1>2, <2>4 DEF CopyValue
<1>3. CASE ReadLiteral
  <2>1. InChannel /\ hoisted' = hoisted /\ Store(Cur, Token.v) /\ Cur \in LzState
    BY <1>3, CurTyped DEF ReadLiteral, ByLz77
  <2>2. lz' \in LzState /\ slot' \in LzState /\ at' \in Pixels
    BY <2>1, StoreTyped
  <2> QED
    BY <1>3, <2>2 DEF ReadLiteral
<1>4. CASE ReadRun
  <2> DEFINE b == Distance(Token.d, Cur.count)
             q == Copying(Token.n + MinLength, Cur.count - b, Cur.count)
  <2>1. InChannel /\ hoisted' = hoisted /\ Repeated(q) /\ Cur.count > 0 /\ More
    BY <1>4 DEF ReadRun, ByLz77
  <2>2. Token.n \in Nat /\ Token.d \in Nat /\ Cur.count \in Nat
    BY <2>1, TokenTyped, CurTyped
  <2>3. b \in 1 .. Cur.count
    BY <2>1, <2>2, DistanceTyped
  <2>4. q.left = Token.n + MinLength /\ q.from = Cur.count - b /\ q.count = Cur.count
    BY CopyingFields
  <2> HIDE DEF q, b
  <2>5. q.left - 1 \in Nat /\ q.from + 1 \in Nat /\ q.count \in Nat
    BY <2>2, <2>3, <2>4, LengthAssumption
  <2>6. Copying(q.left - 1, q.from + 1, q.count) \in LzState
    BY <2>5, CopyingFields
  <2>7. lz' \in LzState /\ slot' \in LzState /\ at' \in Pixels
    BY <2>1, <2>6, StoreTyped DEF Repeated
  <2> QED
    BY <1>4, <2>7 DEF ReadRun
<1>5. CASE RefuseToken
  <2>1. MinLength \in Nat /\ Cur \in LzState /\ Cur.from \in Nat /\ Cur.count \in Nat
    BY CurTyped, LengthAssumption
  <2>2. Copying(MinLength, Cur.from, Cur.count) \in LzState
    BY <2>1, CopyingFields
  <2>3. at' = at /\ (Becomes(Cur) \/ Becomes(Copying(MinLength, Cur.from, Cur.count)))
    BY <1>5 DEF RefuseToken, Error
  <2> QED
    BY <1>5, <2>1, <2>2, <2>3 DEF RefuseToken, Becomes
<1>6. ASSUME NEW t \in Tokens, InChannel, RleSymbol(t)
      PROVE  rle' \in RleState /\ at' \in Pixels
  <2>1. t.v \in Nat /\ t.n \in Nat /\ rle.last \in Nat
    BY <1>6 DEF Tokens, RleState
  <2> DEFINE n == t.n + MinLength - 1
             m == n % (MaxLength + 1)
  <2>2. n \in Nat /\ MaxLength + 1 \in Nat \ {0}
    BY <2>1, LengthAssumption
  <2>3. m \in Nat
    <3> HIDE DEF n
    <3>1. n % (MaxLength + 1) \in 0 .. (MaxLength + 1) - 1
      BY <2>2, Division
    <3> QED
      BY <3>1, <2>2
  <2>4. \/ rle' = Repeating(0, t.v) \/ rle' = Repeating(n, rle.last)
        \/ rle' = Repeating(m, rle.last)
    BY <1>6 DEF RleSymbol
  <2> HIDE DEF n, m
  <2>5. rle' \in RleState
    BY <2>1, <2>2, <2>3, <2>4, RepeatingFields
  <2>6. at' \in Pixels
    BY <1>6, ChannelTyped DEF RleSymbol, Hand
  <2> QED
    BY <2>5, <2>6
<1>7. CASE RepeatValue
  <2>1. rle.left - 1 \in Nat /\ rle.last \in Nat
    BY <1>7 DEF RepeatValue, RleState
  <2>2. rle' \in RleState
    BY <1>7, <2>1, RepeatingFields DEF RepeatValue
  <2>3. at' \in Pixels
    BY <1>7, ChannelTyped DEF RepeatValue, ByRle, Hand
  <2> QED
    BY <1>7, <2>2, <2>3 DEF RepeatValue
<1>8. CASE ReadRle
  <2>1. InChannel /\ RleSymbol(Token) /\ More
    BY <1>8 DEF ReadRle, ByRle
  <2>2. Token \in Tokens
    BY <2>1, TokenTyped, ImageTyped
  <2>3. rle' \in RleState /\ at' \in Pixels
    BY <1>6, <2>1, <2>2
  <2> QED
    BY <1>8, <2>3 DEF ReadRle
<1>9. CASE RefuseRle
  BY <1>9 DEF RefuseRle, Error
<1>10. CASE ReadBehindEnd
  <2> DEFINE Zeros == {[run |-> FALSE, v |-> 0, n |-> 0, d |-> 0],
                       [run |-> TRUE, v |-> 0, n |-> 0, d |-> 1]}
  <2>1. PICK t \in Zeros : RleSymbol(t)
    BY <1>10 DEF ReadBehindEnd
  <2>2. t \in Tokens
    <3>1. \A r \in BOOLEAN : \A d \in Nat : [run |-> r, v |-> 0, n |-> 0, d |-> d] \in Tokens
      BY DEF Tokens
    <3>2. [run |-> FALSE, v |-> 0, n |-> 0, d |-> 0] \in Tokens
      BY <3>1
    <3>3. [run |-> TRUE, v |-> 0, n |-> 0, d |-> 1] \in Tokens
      BY <3>1
    <3> QED
      BY <3>2, <3>3, Zenon
  <2>3. rle' \in RleState /\ at' \in Pixels
    BY <1>6, <1>10, <2>1, <2>2 DEF ReadBehindEnd, ByRle
  <2> QED
    BY <1>10, <2>3 DEF ReadBehindEnd
<1>11. CASE NextChannel
  <2>1. Repeating(0, 0) \in RleState
    BY RepeatingFields
  <2>2. at' \in Pixels
    BY <1>11 DEF NextChannel, At, Pixels
  <2> QED
    BY <1>11, <2>1, <2>2 DEF NextChannel
<1>12. CASE UNCHANGED tokenVars
  BY <1>12 DEF tokenVars
<1> QED
  BY <1>1, <1>2, <1>3, <1>4, <1>5, <1>7, <1>8, <1>9, <1>10, <1>11, <1>12 DEF TokenNext

LEMMA LzSame ==
  ASSUME LzInv, Cur' = Cur, window' = window, out' = out
  PROVE  LzInv'
BY DEF LzInv, History, Wide, Recent, InReach

LEMMA HoistKeepsCur ==
  /\ HoistBegin => Cur' = Cur
  /\ HoistCommit => Cur' = Cur
BY DEF HoistBegin, HoistCommit, Committed, Cur

LEMMA LzKept ==
  ASSUME Typed, LzInv, ~UsesRle, TokenNext, result' = "OK"
  PROVE  LzInv'
<1>1. CASE HoistBegin \/ HoistCommit
  <2>1. Cur' = Cur /\ window' = window /\ out' = out
    BY <1>1, HoistKeepsCur DEF HoistBegin, HoistCommit
  <2> QED
    BY <2>1, LzSame
<1>2. CASE CopyValue
  BY <1>2, CopyStep DEF Outage
<1>3. CASE ReadLiteral
  BY <1>3, LiteralStep DEF Outage
<1>4. CASE ReadRun
  BY <1>4, RunStep DEF Outage
<1>5. CASE RefuseToken \/ RefuseRle \/ Finish
  BY <1>5 DEF RefuseToken, RefuseRle, Finish, Error
<1>6. CASE RepeatValue \/ ReadRle \/ ReadBehindEnd
  <2>1. ByRle /\ InChannel
    BY <1>6 DEF RepeatValue, ReadRle, ReadBehindEnd, ByRle
  <2> QED
    BY <2>1, Ways
<1>7. CASE NextChannel
  <2>1. Cur' = Cur /\ window' = window /\ out' = out
    BY <1>7 DEF NextChannel, Cur
  <2> QED
    BY <2>1, LzSame
<1> QED
  BY <1>1, <1>2, <1>3, <1>4, <1>5, <1>6, <1>7 DEF TokenNext

\* A stream that went wrong stays so; one symbol more may go wrong.
Bad(k) == image.tokens[k].run /\ (k = 1 \/ Excessive(image.tokens[k]))

LEMMA GarbledStays ==
  ASSUME image' = image, taken' = taken
  PROVE  Garbled <=> Garbled'
BY DEF Garbled, UsesRle, Excessive

LEMMA GarbledGrows ==
  ASSUME image' = image, image \in Images, taken \in Nat, taken' = taken + 1
  PROVE  /\ Garbled => Garbled'
         /\ UsesRle /\ ~More => Garbled'
         /\ UsesRle /\ More /\ ~Garbled => (Garbled' <=> Bad(taken + 1))
<1> DEFINE n == Len(image.tokens)
<1>1. n \in Nat
  BY ImageTyped
<1>2. Garbled <=> UsesRle /\ (taken > n \/ \E k \in 1 .. n : k <= taken /\ Bad(k))
  BY DEF Garbled, Bad
<1>3. Garbled' <=> UsesRle /\ (taken + 1 > n \/ \E k \in 1 .. n : k <= taken + 1 /\ Bad(k))
  BY SameImage DEF Garbled, Bad, Excessive
<1>4. More <=> taken < n
  BY DEF More
<1> HIDE DEF n
<1>5. ASSUME Garbled PROVE Garbled'
  BY <1>1, <1>2, <1>3, <1>5
<1>6. ASSUME UsesRle, ~More PROVE Garbled'
  BY <1>1, <1>3, <1>4, <1>6
<1>7. ASSUME UsesRle, More, ~Garbled PROVE Garbled' <=> Bad(taken + 1)
  <2>1. ~(taken + 1 > n) /\ taken + 1 \in 1 .. n
    BY <1>1, <1>4, <1>7
  <2>2. \A k \in 1 .. n : k <= taken + 1 <=> (k <= taken \/ k = taken + 1)
    BY <1>1
  <2> QED
    BY <1>2, <1>3, <1>7, <2>1, <2>2
<1> QED
  BY <1>5, <1>6, <1>7

LEMMA HandedOut ==
  ASSUME NEW v \in Nat, out \in Seq(Nat), out' = Append(out, v)
  PROVE  /\ out' \in Seq(Nat) /\ Len(out') = Len(out) + 1
         /\ out' # <<>> /\ out'[Len(out')] = v
OBVIOUS

LEMMA RleKept ==
  ASSUME Typed, RleInv, UsesRle, Unmixed, TokenNext
  PROVE  RleInv'
<1>0. taken \in Nat /\ image \in Images /\ rle \in RleState
  BY DEF Typed
<1>1. ASSUME UNCHANGED <<image, rle, taken, out>> PROVE RleInv'
  BY <1>1, GarbledStays DEF RleInv
<1>2. CASE \/ HoistBegin \/ HoistCommit \/ Finish \/ RefuseRle \/ RefuseToken
  BY <1>1, <1>2 DEF HoistBegin, HoistCommit, Finish, RefuseRle, RefuseToken, Error
<1>3. CASE CopyValue \/ ReadLiteral \/ ReadRun
  <2>1. ByLz77 /\ InChannel
    BY <1>3 DEF CopyValue, ReadLiteral, ReadRun, ByLz77
  <2> QED
    BY <2>1, Ways
<1>4. CASE RepeatValue
  <2>1. /\ rle' = Repeating(rle.left - 1, rle.last) /\ rle.left > 0 /\ out' = Append(out, rle.last)
        /\ image' = image /\ taken' = taken
    BY <1>4 DEF RepeatValue, Hand
  <2>2. rle.left \in Nat /\ rle.last \in Nat
    BY <1>0 DEF RleState
  <2>3. rle'.left = rle.left - 1 /\ rle'.last = rle.last
    BY <2>1, RepeatingFields
  <2>4. out' \in Seq(Nat) /\ out' # <<>> /\ out'[Len(out')] = rle.last
    BY <2>1, <2>2, HandedOut DEF RleInv
  <2>5. Garbled <=> Garbled'
    BY <2>1, GarbledStays
  <2> QED
    BY <2>1, <2>3, <2>4, <2>5 DEF RleInv
<1>5. CASE ReadRle
  <2>1. More /\ RleSymbol(Token) /\ taken' = taken + 1 /\ image' = image
    BY <1>5 DEF ReadRle
  <2>2. Token.v \in Nat /\ rle.last \in Nat
    BY <1>0, <2>1, TokenTyped DEF RleState
  <2>3. PICK v \in Nat : out' = Append(out, v) /\ rle'.last = v
    <3>1. CASE ~Token.run
      BY <2>1, <2>2, <3>1, RepeatingFields DEF RleSymbol, Hand
    <3>2. CASE Token.run
      BY <2>1, <2>2, <3>2, RepeatingFields DEF RleSymbol, Hand
    <3> QED
      BY <3>1, <3>2
  <2>4. out' \in Seq(Nat) /\ out' # <<>> /\ out'[Len(out')] = v
    BY <2>3, HandedOut DEF RleInv
  <2>5. taken' > 0
    BY <1>0, <2>1
  <2> QED
    BY <2>3, <2>4, <2>5 DEF RleInv
<1>6. CASE ReadBehindEnd
  <2>1. ~More /\ taken' = taken + 1 /\ image' = image
    BY <1>6 DEF ReadBehindEnd
  <2>2. Garbled'
    BY <1>0, <2>1, GarbledGrows
  <2>3. PICK v \in Nat : out' = Append(out, v)
    <3>1. rle.last \in Nat
      BY <1>0 DEF RleState
    <3>2. out' = Append(out, 0) \/ out' = Append(out, rle.last)
      BY <1>6 DEF ReadBehindEnd, RleSymbol, Hand
    <3> QED
      BY <3>1, <3>2
  <2>4. out' \in Seq(Nat)
    BY <2>3, HandedOut DEF RleInv
  <2> QED
    BY <2>2, <2>4 DEF RleInv
<1>7. CASE NextChannel
  <2>1. AllFast
    BY <1>0 DEF AllFast, Unmixed, UsesRle
  <2> QED
    BY <1>1, <1>7, <2>1 DEF NextChannel
<1> QED
  BY <1>2, <1>3, <1>4, <1>5, <1>6, <1>7 DEF TokenNext

-----------------------------------------------------------------------------
(* Theorems *)

LEMMA FirstState ==
  ASSUME TokenInit
  PROVE  TokenInv /\ ~Garbled /\ Cur.left = 0
<1>1. Copying(0, 0, 0) \in LzState /\ Repeating(0, 0) \in RleState /\ At(1, 0, 0) \in Pixels
  BY CopyingFields, RepeatingFields DEF At, Pixels
<1>2. Typed
  BY <1>1 DEF TokenInit, Typed
<1>3. Cur = Copying(0, 0, 0)
  BY DEF TokenInit, Cur
<1>4. Cur.left = 0 /\ Cur.count = 0
  BY <1>3, CopyingFields
<1>5. out = <<>> /\ DOMAIN window = {}
  BY DEF TokenInit
<1>6. History
  <2>1. out \in Seq(Nat) /\ Len(out) = 0
    BY <1>5
  <2>2. Wide(out, window)
    <3>1. DOMAIN window = 0 .. 0 - 1 /\ 0 \in Nat /\ 0 >= Len(out)
      BY <1>5, <2>1
    <3> QED
      BY <3>1 DEF Wide
  <2>3. Recent(out, window)
    BY <2>1 DEF Recent
  <2> QED
    BY <2>1, <2>2, <2>3 DEF History
<1>7. LzInv
  BY <1>4, <1>5, <1>6 DEF LzInv, InReach
<1>8. taken = 0 /\ rle.left = 0 /\ image \in Images
  BY RepeatingFields DEF TokenInit
<1>9. ~Garbled
  BY <1>8, ImageTyped DEF Garbled
<1>10. RleInv
  BY <1>5, <1>8 DEF RleInv
<1> QED
  BY <1>2, <1>4, <1>7, <1>9, <1>10 DEF TokenInv

\* Every step keeps the invariant.
THEOREM TokenInvStep ==
  ASSUME TokenInv, [TokenNext]_tokenVars
  PROVE  TokenInv'
<1>1. Typed /\ Typed'
  BY TypedStep DEF TokenInv
<1>2. CASE TokenNext
  <2>1. image' = image /\ result = "OK"
    BY <1>2 DEF TokenNext, HoistBegin, HoistCommit, MustHoist, CopyValue, ReadLiteral, ReadRun,
                RefuseToken, ByLz77, RepeatValue, ReadRle, RefuseRle, ReadBehindEnd, ByRle,
                NextChannel, Finish, InChannel
  <2>2. UsesRle <=> UsesRle'
    BY <2>1, SameImage
  <2>3. ASSUME result' = "OK", ~UsesRle PROVE LzInv'
    BY <1>1, <1>2, <2>1, <2>3, LzKept DEF TokenInv
  <2>4. ASSUME Unmixed, UsesRle PROVE RleInv'
    BY <1>1, <1>2, <2>4, RleKept DEF TokenInv
  <2> QED
    BY <1>1, <2>2, <2>3, <2>4 DEF TokenInv, Unmixed
<1>3. CASE UNCHANGED tokenVars
  <2>1. UNCHANGED <<image, lz, slot, hoisted, window, rle, at, taken, out, result>>
    BY <1>3 DEF tokenVars
  <2>2. Cur' = Cur /\ (UsesRle <=> UsesRle') /\ (Garbled <=> Garbled')
    BY <2>1, SameImage, GarbledStays DEF Cur
  <2>3. LzInv => LzInv'
    BY <2>1, <2>2, LzSame
  <2>4. RleInv => RleInv'
    BY <2>1, <2>2 DEF RleInv
  <2> QED
    BY <1>1, <2>1, <2>2, <2>3, <2>4 DEF TokenInv, Unmixed
<1> QED
  BY <1>2, <1>3

\* For every size of the window and every stream: however the window grows and
\* wraps around, in and out of hoisted loops, it holds the last values.
THEOREM WindowAlwaysHistory == TokenSpec => []WindowIsHistory
<1>1. TokenInit => TokenInv
  BY FirstState
<1>2. TokenInv /\ [TokenNext]_tokenVars => TokenInv'
  BY TokenInvStep
<1>3. TokenInv => WindowIsHistory
  <2> SUFFICES ASSUME TokenInv, result = "OK", ~UsesRle
               PROVE  /\ Cur.count = Len(out)
                      /\ \A p \in 0 .. Len(out) - 1 :
                           p + WindowSize >= Len(out) =>
                             /\ p % WindowSize \in DOMAIN window
                             /\ window[p % WindowSize] = out[p + 1]
    BY DEF WindowIsHistory
  <2>1. LzInv
    BY DEF TokenInv
  <2>2. PICK n \in Nat : n = Len(out)
    BY <2>1 DEF LzInv, History
  <2>3. PICK c \in Nat : DOMAIN window = 0 .. c - 1 /\ (c >= n \/ c >= WindowSize)
    BY <2>1, <2>2 DEF LzInv, History, Wide
  <2>4. ASSUME NEW p \in 0 .. n - 1, p + WindowSize >= n
        PROVE  p % WindowSize \in DOMAIN window /\ window[p % WindowSize] = out[p + 1]
    <3>1. window[p % WindowSize] = out[p + 1]
      BY <2>1, <2>2, <2>4 DEF LzInv, History, Recent
    <3>2. PICK r : r = p % WindowSize
      OBVIOUS
    <3>0. WindowSize \in Nat \ {0} /\ p \in Nat
      BY WindowAssumption
    <3>3. r \in 0 .. WindowSize - 1 /\ (p < WindowSize => r = p)
      BY <3>0, <3>2, Division, SmallRemainder
    <3>4. r \in 0 .. c - 1
      BY <2>3, <2>4, <3>0, <3>3
    <3> QED
      BY <2>3, <3>1, <3>2, <3>4
  <2> QED
    BY <2>1, <2>2, <2>4 DEF LzInv
<1> QED
  BY <1>1, <1>2, <1>3, PTL DEF TokenSpec

-----------------------------------------------------------------------------
(* Values are read as LZ77 without a window reads them *)

AbstractSymbols == [n : Nat, v : Nat, back : Nat]

LEMMA SymbolAt ==
  ASSUME image \in Images
  PROVE  /\ Len(Symbols) = Len(image.tokens)
         /\ \A k \in 1 .. Len(image.tokens) :
              LET t == image.tokens[k]
              IN  /\ t.run => Symbols[k].n = t.n + MinLength /\ Symbols[k].back = Far(t.d) + 1
                  /\ ~t.run => Symbols[k].n = 0 /\ Symbols[k].v = t.v
<1>1. PICK n \in Nat : n = Len(image.tokens)
  BY ImageTyped
<1> DEFINE S(t) == IF t.run THEN [n |-> t.n + MinLength, v |-> 0, back |-> Far(t.d) + 1]
                   ELSE [n |-> 0, v |-> t.v, back |-> 0]
<1>2. ASSUME NEW t \in Tokens PROVE S(t) \in AbstractSymbols
  <2>1. t.n + MinLength \in Nat /\ t.v \in Nat /\ Far(t.d) + 1 \in Nat
    BY FarTyped, LengthAssumption DEF Tokens
  <2> QED
    BY <2>1 DEF AbstractSymbols
<1>3. ASSUME NEW t PROVE /\ t.run => S(t).n = t.n + MinLength /\ S(t).back = Far(t.d) + 1
                         /\ ~t.run => S(t).n = 0 /\ S(t).v = t.v
  OBVIOUS
<1>4. Symbols = [k \in 1 .. n |-> S(image.tokens[k])]
  BY <1>1 DEF Symbols
<1> HIDE DEF S
<1>5. \A k \in 1 .. n : S(image.tokens[k]) \in AbstractSymbols
  BY <1>1, <1>2, ImageTyped
<1>6. Symbols \in [1 .. n -> AbstractSymbols]
  BY <1>4, <1>5
<1>7. Len(Symbols) = n
  BY <1>6
<1>8. \A k \in 1 .. n : Symbols[k] = S(image.tokens[k])
  BY <1>4
<1> QED
  BY <1>1, <1>3, <1>7, <1>8

\* The run of a stream of runs repeats the last value.
LEMMA LastRepeated ==
  ASSUME Typed, InChannel
  PROVE  Far(1) = 0
<1>1. Channel.width > 0 /\ Multiplier \in Nat /\ Multiplier >= Channel.width
  <2>1. /\ at.ch \in 1 .. Len(image.channels) /\ Channel = image.channels[at.ch]
        /\ Channel.width \in Nat /\ Channel.width # 0 /\ image \in Images
    BY ChannelTyped DEF Typed
  <2> QED
    BY <2>1, MultiplierTyped
<1>2. Channel.width \in Nat
  BY ChannelTyped
<1>3. Multiplier # 0 /\ 1 < Len(Special) /\ Special[1 + 1] = <<1, 0>>
  BY <1>1, <1>2, SpecialAssumption
<1>4. Special[1 + 1][1] + Multiplier * Special[1 + 1][2] - 1 = 0
  <2>1. Special[1 + 1][1] = 1 /\ Special[1 + 1][2] = 0
    BY <1>3
  <2>2. Multiplier * 0 = 0
    BY <1>1
  <2> QED
    BY <2>1, <2>2
<1> QED
  BY <1>3, <1>4 DEF Far

LEMMA BoundedIsDistance ==
  ASSUME NEW d \in Nat, image \in Images, out \in Seq(Nat), Len(out) > 0
  PROVE  Lz!Bounded(Far(d) + 1) = Distance(d, Len(out))
<1>1. Len(out) \in Nat /\ WindowSize \in Nat /\ Far(d) \in Nat
  BY FarTyped, WindowAssumption
<1> QED
  BY <1>1, DistanceTyped DEF Lz!Bounded

\* What the abstract reader sees when values go through the window.
LEMMA SeenByLz ==
  ASSUME ~UsesRle
  PROVE  /\ RunLeft = Cur.left
         /\ RunBack = IF Cur.left = 0 THEN 0 ELSE Cur.count - Cur.from
         /\ Outcome = IF result \in {"OK", "done"} THEN result ELSE "error"
BY DEF RunLeft, RunBack, Outcome, Garbled

LEMMA SeenByRle ==
  ASSUME UsesRle
  PROVE  /\ RunLeft = rle.left
         /\ RunBack = IF rle.left = 0 THEN 0 ELSE 1
BY DEF RunLeft, RunBack

LEMMA StopOnError ==
  ASSUME image' = image, out' = out, result' \notin {"OK"}, ~UsesRle, Outcome = "OK"
  PROVE  Lz!Next
<1>1. UsesRle <=> UsesRle'
  BY SameImage
<1>2. Outcome' \in {"done", "error"}
  BY <1>1 DEF Outcome, Garbled
<1>3. UNCHANGED <<Symbols, UsesRle>>
  BY SameImage
<1>4. Lz!Stop
  BY <1>2, <1>3 DEF Lz!Stop
<1> QED
  BY <1>4 DEF Lz!Next

LEMMA LzImplements ==
  ASSUME Typed, LzInv, ~UsesRle, result = "OK",
         CopyValue \/ ReadLiteral \/ ReadRun
  PROVE  Lz!Next
<1>0. image' = image /\ image \in Images /\ taken \in Nat
  BY DEF CopyValue, ReadLiteral, ReadRun, Typed
<1>1. UsesRle' = UsesRle /\ Symbols' = Symbols /\ ~UsesRle'
  BY <1>0, SameImage
<1>2. /\ RunLeft = Cur.left /\ Outcome = "OK"
      /\ RunBack = IF Cur.left = 0 THEN 0 ELSE Cur.count - Cur.from
  BY SeenByLz
<1>3. /\ RunLeft' = Cur'.left
      /\ RunBack' = IF Cur'.left = 0 THEN 0 ELSE Cur'.count - Cur'.from
      /\ result' = "OK" => Outcome' = "OK"
  BY <1>1 DEF RunLeft, RunBack, Outcome, Garbled
<1>4. Outage => Lz!Next
  BY <1>0, <1>2, StopOnError DEF Outage
<1>5. PICK c : c = Cur
  OBVIOUS
<1>6. /\ c.left \in Nat /\ c.from \in Nat /\ c.count \in Nat /\ c.count = Len(out)
      /\ out \in Seq(Nat)
      /\ c.left > 0 => c.from < c.count
  BY <1>5, CurTyped DEF LzInv, History, InReach
<1>7. CASE CopyValue
  <2>1. SUFFICES ASSUME result' = "OK", out' = Append(out, out[c.from + 1]),
                        Cur' = Copying(c.left - 1, c.from + 1, c.count + 1)
                 PROVE  Lz!Next
    BY <1>4, <1>5, <1>7, CopyStep
  <2>2. c.left > 0 /\ taken' = taken
    BY <1>5, <1>7 DEF CopyValue
  <2>3. RunLeft = c.left /\ RunBack = c.count - c.from
    BY <1>2, <1>5, <1>6, <2>2
  <2>4. Cur'.left = c.left - 1 /\ Cur'.from = c.from + 1 /\ Cur'.count = c.count + 1
    BY <2>1, CopyingFields
  <2>5. RunLeft' = c.left - 1
    BY <1>3, <2>4
  <2>6. RunBack' = IF c.left = 1 THEN 0 ELSE c.count - c.from
    <3>0. \A x, y \in Nat : (x + 1) - (y + 1) = x - y /\ (x - 1 = 0 <=> x = 1)
      OBVIOUS
    <3>1. (c.count + 1) - (c.from + 1) = c.count - c.from /\ (c.left - 1 = 0 <=> c.left = 1)
      BY <1>6, <3>0
    <3> QED
      BY <1>3, <2>4, <3>1
  <2>7. Len(out) + 1 - (c.count - c.from) = c.from + 1
    BY <1>6
  <2>8. Lz!Repeat(RunLeft, RunBack)
    BY <1>1, <1>2, <1>3, <2>1, <2>3, <2>5, <2>6, <2>7 DEF Lz!Repeat
  <2>9. Lz!Run
    BY <2>2, <2>3, <2>8 DEF Lz!Run
  <2> QED
    BY <1>2, <2>9 DEF Lz!Next
<1>8. CASE ReadLiteral
  <2>1. SUFFICES ASSUME result' = "OK", out' = Append(out, Token.v),
                        Cur' = Copying(0, c.from, c.count + 1)
                 PROVE  Lz!Next
    BY <1>4, <1>5, <1>8, LiteralStep
  <2>2. c.left = 0 /\ taken' = taken + 1 /\ More /\ ~Token.run
    BY <1>5, <1>8 DEF ReadLiteral
  <2>3. /\ taken < Len(Symbols)
        /\ Symbols[taken + 1].n = 0 /\ Symbols[taken + 1].v = Token.v
    BY <1>0, <2>2, TokenTyped, SymbolAt DEF More
  <2>4. RunLeft = 0 /\ RunBack = 0
    BY <1>2, <1>5, <2>2
  <2>5. Cur'.left = 0
    BY <2>1, CopyingFields
  <2>6. RunLeft' = 0 /\ RunBack' = 0 /\ Outcome' = "OK"
    BY <1>3, <2>1, <2>5
  <2>7. Lz!WellFormed
    BY <2>3 DEF Lz!WellFormed
  <2>8. Lz!Symbol
    BY <1>1, <1>2, <2>1, <2>2, <2>3, <2>4, <2>6, <2>7 DEF Lz!Symbol
  <2> QED
    BY <1>2, <2>8 DEF Lz!Next
<1>9. CASE ReadRun
  <2>0. PICK b : b = Distance(Token.d, c.count)
    OBVIOUS
  <2>1. /\ b \in 1 .. Len(out)
        /\ \/ /\ result' = "OK" /\ out' = Append(out, out[Len(out) + 1 - b])
              /\ Cur' = Copying(Token.n + MinLength - 1, c.count - b + 1, c.count + 1)
           \/ Outage
    BY <1>5, <1>9, <2>0, RunStep
  <2>2. SUFFICES ASSUME result' = "OK", out' = Append(out, out[Len(out) + 1 - b]),
                        Cur' = Copying(Token.n + MinLength - 1, c.count - b + 1, c.count + 1)
                 PROVE  Lz!Next
    BY <1>4, <2>1
  <2>3. /\ c.left = 0 /\ taken' = taken + 1 /\ More /\ Token.run /\ c.count > 0
        /\ ~Excessive(Token)
    BY <1>5, <1>9 DEF ReadRun
  <2>4. PICK n \in Nat : /\ n = Token.n + MinLength /\ n > 0 /\ n <= MaxLength
                         /\ Token.n + MinLength - 1 = n - 1
    <3>1. Token.n \in Nat
      BY <1>0, <2>3, TokenTyped
    <3> QED
      BY <2>3, <3>1, LengthAssumption DEF Excessive
  <2>5. /\ taken < Len(Symbols)
        /\ Symbols[taken + 1].n = n /\ Symbols[taken + 1].back = Far(Token.d) + 1
    BY <1>0, <2>3, <2>4, TokenTyped, SymbolAt DEF More
  <2>6. Lz!Bounded(Symbols[taken + 1].back) = b
    <3>1. Token.d \in Nat
      BY <1>0, <2>3, TokenTyped
    <3>0. Len(out) > 0 /\ out \in Seq(Nat)
      BY <1>6, <2>3
    <3>2. Lz!Bounded(Far(Token.d) + 1) = Distance(Token.d, Len(out))
      BY <1>0, <3>0, <3>1, BoundedIsDistance
    <3> QED
      BY <1>6, <2>0, <2>5, <3>2
  <2>7. RunLeft = 0 /\ RunBack = 0
    BY <1>2, <1>5, <2>3
  <2>8. Cur'.left = n - 1 /\ Cur'.from = c.count - b + 1 /\ Cur'.count = c.count + 1
    <3>1. Cur' = Copying(n - 1, c.count - b + 1, c.count + 1)
      BY <2>2, <2>4
    <3> QED
      BY <3>1, CopyingFields
  <2>9. RunLeft' = n - 1
    BY <1>3, <2>4, <2>8
  <2>10. b \in Nat /\ (c.count + 1) - (c.count - b + 1) = b
    BY <1>6, <2>1
  <2>11. RunBack' = IF n = 1 THEN 0 ELSE b
    BY <1>3, <2>4, <2>8, <2>9, <2>10
  <2>12. Lz!Repeat(n, b)
    BY <1>1, <1>2, <1>3, <2>2, <2>9, <2>11 DEF Lz!Repeat
  <2>13. Lz!WellFormed
    BY <1>6, <2>3, <2>4, <2>5 DEF Lz!WellFormed
  <2>14. Lz!Symbol
    BY <2>3, <2>4, <2>5, <2>6, <2>7, <2>12, <2>13 DEF Lz!Symbol
  <2> QED
    BY <1>2, <2>14 DEF Lz!Next
<1> QED
  BY <1>7, <1>8, <1>9

LEMMA RleImplements ==
  ASSUME Typed, RleInv, UsesRle, ~Garbled, result = "OK",
         RepeatValue \/ ReadRle \/ ReadBehindEnd
  PROVE  Lz!Next
<1>0. image' = image /\ image \in Images /\ taken \in Nat /\ rle \in RleState /\ ByRle
  BY DEF RepeatValue, ReadRle, ReadBehindEnd, Typed
<1>1. UsesRle' = UsesRle /\ Symbols' = Symbols /\ UsesRle'
  BY <1>0, SameImage
<1>2. /\ RunLeft = rle.left /\ Outcome = "OK"
      /\ RunBack = IF rle.left = 0 THEN 0 ELSE 1
  BY SeenByRle DEF Outcome
<1>3. /\ RunLeft' = rle'.left
      /\ RunBack' = IF rle'.left = 0 THEN 0 ELSE 1
  BY <1>1 DEF RunLeft, RunBack
<1>4. result' = "OK" /\ \E v : out' = Append(out, v)
  BY DEF RepeatValue, ReadRle, ReadBehindEnd, RleSymbol, Hand
<1>5. /\ Garbled' => Outcome' = "garbage"
      /\ ~Garbled' => Outcome' = "OK"
  BY <1>4 DEF Outcome
<1>6. PICK l \in Nat, w \in Nat : l = rle.left /\ w = rle.last
  BY <1>0 DEF RleState
<1>7. /\ out \in Seq(Nat) /\ Len(out) \in Nat
      /\ taken > 0 <=> out # <<>>
      /\ out # <<>> => w = out[Len(out)]
      /\ l > 0 => taken > 0
  BY <1>6 DEF RleInv
<1>8. ASSUME ~Lz!WellFormed, l = 0, Garbled' PROVE Lz!Next
  <2>1. UNCHANGED <<Symbols, UsesRle>>
    BY <1>1
  <2>2. Lz!Malformed
    BY <1>2, <1>5, <1>6, <1>8, <2>1 DEF Lz!Malformed
  <2> QED
    BY <1>2, <2>2 DEF Lz!Next
<1>9. CASE RepeatValue
  <2>1. /\ rle' = Repeating(l - 1, w) /\ l > 0 /\ out' = Append(out, w) /\ taken' = taken
    BY <1>6, <1>9 DEF RepeatValue, Hand
  <2>2. rle'.left = l - 1
    BY <2>1, RepeatingFields
  <2>3. Outcome' = "OK"
    BY <1>0, <1>5, <2>1, GarbledStays
  <2>4. out[Len(out) + 1 - 1] = w
    BY <1>7, <2>1
  <2>5. RunLeft = l /\ RunBack = 1
    BY <1>2, <1>6, <2>1
  <2>6. RunLeft' = l - 1 /\ RunBack' = IF l = 1 THEN 0 ELSE 1
    BY <1>3, <1>6, <2>2
  <2>7. Lz!Repeat(RunLeft, RunBack)
    BY <1>1, <1>2, <2>1, <2>3, <2>4, <2>5, <2>6 DEF Lz!Repeat
  <2>8. Lz!Run
    BY <2>1, <2>5, <2>7 DEF Lz!Run
  <2> QED
    BY <1>2, <2>8 DEF Lz!Next
<1>10. CASE ReadRle
  <2>1. l = 0 /\ More /\ taken' = taken + 1 /\ RleSymbol(Token)
    BY <1>6, <1>10 DEF ReadRle
  <2>2. /\ taken + 1 \in 1 .. Len(image.tokens) /\ Token = image.tokens[taken + 1]
        /\ Token.run \in BOOLEAN /\ Token.v \in Nat /\ Token.n \in Nat
    BY <1>0, <2>1, TokenTyped
  <2>3. Garbled' <=> Token.run /\ (taken = 0 \/ Excessive(Token))
    BY <1>0, <2>1, <2>2, GarbledGrows DEF Bad
  <2>4. /\ taken < Len(Symbols)
        /\ Token.run => /\ Symbols[taken + 1].n = Token.n + MinLength
                        /\ Symbols[taken + 1].back = Far(Token.d) + 1
        /\ ~Token.run => Symbols[taken + 1].n = 0 /\ Symbols[taken + 1].v = Token.v
    BY <1>0, <2>1, <2>2, SymbolAt DEF More
  <2>5. RunLeft = 0 /\ RunBack = 0
    BY <1>2, <1>6, <2>1
  <2>6. PICK n \in Nat : /\ n = Token.n + MinLength /\ n > 0
                         /\ Excessive(Token) <=> n > MaxLength
                         /\ Token.n + MinLength - 1 = n - 1
    <3>1. PICK a \in Nat : a = Token.n
      BY <2>2
    <3>2. Excessive(Token) <=> a > MaxLength - MinLength
      BY <3>1 DEF Excessive
    <3>3. a > MaxLength - MinLength <=> a + MinLength > MaxLength
      BY LengthAssumption
    <3>4. a + MinLength \in Nat /\ a + MinLength > 0
      BY LengthAssumption
    <3>5. Token.n + MinLength = a + MinLength /\ Token.n + MinLength - 1 = (a + MinLength) - 1
      BY <2>2, <3>1, LengthAssumption
    <3>6. PICK n \in Nat : n = a + MinLength
      BY <3>4
    <3> QED
      BY <3>2, <3>3, <3>4, <3>5, <3>6
  <2>7. CASE Garbled'
    <3>1. n > MaxLength \/ out = <<>>
      BY <1>0, <1>7, <2>3, <2>6, <2>7
    <3>2. Symbols[taken + 1].n = n
      BY <2>3, <2>4, <2>6, <2>7
    <3>3. ~Lz!WellFormed
      BY <2>6, <3>1, <3>2, LengthAssumption DEF Lz!WellFormed
    <3> QED
      BY <1>8, <2>1, <2>7, <3>3
  <2>8. CASE ~Garbled' /\ ~Token.run
    <3>1. rle' = Repeating(0, Token.v) /\ out' = Append(out, Token.v)
      BY <2>1, <2>8 DEF RleSymbol, Hand
    <3>2. RunLeft' = 0 /\ RunBack' = 0 /\ Outcome' = "OK"
      BY <1>3, <1>5, <2>8, <3>1, RepeatingFields
    <3>3. Lz!WellFormed
      BY <2>4, <2>8 DEF Lz!WellFormed
    <3>4. Lz!Symbol
      BY <1>1, <1>2, <2>1, <2>4, <2>5, <2>8, <3>1, <3>2, <3>3 DEF Lz!Symbol
    <3> QED
      BY <1>2, <3>4 DEF Lz!Next
  <2>9. CASE ~Garbled' /\ Token.run
    <3>1. n <= MaxLength /\ out # <<>> /\ Len(out) > 0 /\ w = out[Len(out)]
      <4>1. taken # 0 /\ ~Excessive(Token)
        BY <2>3, <2>9
      <4> QED
        BY <4>1, <1>0, <1>7, <2>6, LengthAssumption
    <3>2. rle' = Repeating(n - 1, w) /\ out' = Append(out, w)
      <4>1. PICK m : m = n - 1
        OBVIOUS
      <4>2. m \in Nat /\ MaxLength + 1 \in Nat \ {0} /\ m < MaxLength + 1
        BY <2>6, <3>1, <4>1, LengthAssumption
      <4>3. m % (MaxLength + 1) = m
        BY <4>2, SmallRemainder
      <4>4. rle' = Repeating(m, w) /\ out' = Append(out, w)
        BY <1>6, <2>1, <2>6, <2>9, <4>1, <4>3 DEF RleSymbol, Hand
      <4> QED
        BY <4>1, <4>4
    <3>3. RunLeft' = n - 1 /\ Outcome' = "OK"
      BY <1>3, <1>5, <2>9, <3>2, RepeatingFields
    <3>4. RunBack' = IF n = 1 THEN 0 ELSE 1
      BY <1>1, <2>6, <3>3 DEF RunBack
    <3>5. Far(Token.d) = 0
      <4>1. Token.d = 1
        BY <1>0, <2>2, <2>9, ImagesAssumption DEF ByRle
      <4> QED
        BY <1>0, <4>1, LastRepeated DEF ByRle
    <3>6. Lz!Bounded(1) = 1
      BY <1>7, <3>1, WindowAssumption DEF Lz!Bounded
    <3>7. Symbols[taken + 1].n = n /\ Symbols[taken + 1].back = 1
      BY <2>4, <2>6, <2>9, <3>5
    <3>8. out[Len(out) + 1 - 1] = w
      BY <1>7, <3>1
    <3>9. Lz!Repeat(n, 1)
      BY <1>1, <1>2, <3>2, <3>3, <3>4, <3>8 DEF Lz!Repeat
    <3>10. Lz!WellFormed
      BY <2>4, <2>6, <3>1, <3>7 DEF Lz!WellFormed
    <3>11. Lz!Symbol
      BY <2>1, <2>5, <2>6, <3>6, <3>7, <3>9, <3>10 DEF Lz!Symbol
    <3> QED
      BY <1>2, <3>11 DEF Lz!Next
  <2> QED
    BY <2>2, <2>7, <2>8, <2>9
<1>11. CASE ReadBehindEnd
  <2>1. l = 0 /\ ~More /\ taken' = taken + 1
    BY <1>6, <1>11 DEF ReadBehindEnd
  <2>2. Garbled'
    BY <1>0, <2>1, GarbledGrows
  <2>3. ~Lz!WellFormed
    BY <1>0, <2>1, SymbolAt DEF Lz!WellFormed, More
  <2> QED
    BY <1>8, <2>1, <2>2, <2>3
<1> QED
  BY <1>9, <1>10, <1>11

LEMMA StepImplements ==
  ASSUME TokenInv, Unmixed, TokenNext
  PROVE  Lz!Next \/ UNCHANGED Lz!vars
<1>0. Typed /\ result = "OK" /\ image' = image
  BY DEF TokenInv, TokenNext, HoistBegin, HoistCommit, MustHoist, CopyValue, ReadLiteral, ReadRun,
         RefuseToken, ByLz77, RepeatValue, ReadRle, RefuseRle, ReadBehindEnd, ByRle,
         NextChannel, Finish, InChannel
<1>1. UsesRle' = UsesRle /\ Symbols' = Symbols
  BY <1>0, SameImage
<1>2. CASE UsesRle /\ Garbled
  <2>1. Garbled'
    <3>1. taken' = taken \/ taken' = taken + 1
      BY DEF TokenNext, HoistBegin, HoistCommit, CopyValue, ReadLiteral, ReadRun, RefuseToken,
             RepeatValue, ReadRle, RefuseRle, ReadBehindEnd, NextChannel, Finish
    <3> QED
      BY <1>0, <1>2, <3>1, GarbledStays, GarbledGrows DEF Typed
  <2>2. Lz!Garbage
    BY <1>1, <1>2, <2>1 DEF Lz!Garbage, Outcome
  <2> QED
    BY <2>2 DEF Lz!Next
<1>3. CASE UsesRle /\ ~Garbled
  <2>0. RleInv
    BY <1>3 DEF TokenInv
  <2>1. CASE RepeatValue \/ ReadRle \/ ReadBehindEnd
    BY <1>0, <1>3, <2>0, <2>1, RleImplements
  <2>2. CASE CopyValue \/ ReadLiteral \/ ReadRun \/ RefuseToken
    <3>1. ByLz77 /\ InChannel
      BY <2>2 DEF CopyValue, ReadLiteral, ReadRun, RefuseToken, ByLz77
    <3> QED
      BY <1>0, <1>3, <3>1, Ways
  <2>3. CASE RefuseRle \/ Finish
    <3>1. out' = out /\ taken' = taken /\ result' # "OK"
      BY <2>3 DEF RefuseRle, Finish, Error
    <3>2. Outcome' \in {"done", "error"} /\ Outcome = "OK"
      BY <1>0, <1>3, <3>1, GarbledStays DEF Outcome
    <3>3. UNCHANGED <<Symbols, UsesRle>>
      BY <1>1
    <3>4. Lz!Stop
      BY <3>1, <3>2, <3>3 DEF Lz!Stop
    <3> QED
      BY <3>2, <3>4 DEF Lz!Next
  <2>4. CASE HoistBegin \/ HoistCommit \/ NextChannel
    <3>1. AllFast
      BY <1>0, <1>3 DEF AllFast, Unmixed, UsesRle, Typed
    <3>2. UNCHANGED <<image, rle, taken, out, result>>
      BY <2>4, <3>1 DEF HoistBegin, HoistCommit, NextChannel
    <3>3. RunLeft' = RunLeft /\ RunBack' = RunBack /\ Outcome' = Outcome
      BY <1>1, <1>3, <3>2, GarbledStays DEF RunLeft, RunBack, Outcome
    <3> QED
      BY <1>1, <3>2, <3>3 DEF Lz!vars
  <2> QED
    BY <2>1, <2>2, <2>3, <2>4 DEF TokenNext
<1>4. CASE ~UsesRle
  <2>0. LzInv /\ Outcome = "OK"
    BY <1>0, <1>4, SeenByLz DEF TokenInv
  <2>1. CASE CopyValue \/ ReadLiteral \/ ReadRun
    BY <1>0, <1>4, <2>0, <2>1, LzImplements
  <2>2. CASE RepeatValue \/ ReadRle \/ ReadBehindEnd \/ RefuseRle
    <3>1. ByRle /\ InChannel
      BY <2>2 DEF RepeatValue, ReadRle, ReadBehindEnd, RefuseRle, ByRle
    <3> QED
      BY <1>0, <1>4, <3>1, Ways
  <2>3. CASE RefuseToken \/ Finish
    <3>1. out' = out /\ result' # "OK"
      BY <2>3 DEF RefuseToken, Finish, Error
    <3> QED
      BY <1>0, <1>4, <2>0, <3>1, StopOnError
  <2>4. CASE HoistBegin \/ HoistCommit \/ NextChannel
    <3>1. Cur' = Cur
      BY <2>4, HoistKeepsCur DEF NextChannel, Cur
    <3>2. UNCHANGED <<image, taken, out, result>>
      BY <2>4 DEF HoistBegin, HoistCommit, NextChannel
    <3>3. RunLeft' = RunLeft /\ RunBack' = RunBack /\ Outcome' = Outcome
      BY <1>1, <1>4, <3>1, <3>2 DEF RunLeft, RunBack, Outcome, Garbled
    <3> QED
      BY <1>1, <3>2, <3>3 DEF Lz!vars
  <2> QED
    BY <2>1, <2>2, <2>3, <2>4 DEF TokenNext
<1> QED
  BY <1>2, <1>3, <1>4

LEMMA FirstImplements ==
  ASSUME TokenInit
  PROVE  Lz!Init
<1>1. image \in Images /\ taken = 0 /\ out = <<>> /\ result = "OK" /\ rle.left = 0
  BY RepeatingFields DEF TokenInit
<1>2. UsesRle \in BOOLEAN
  BY <1>1, ImageTyped DEF UsesRle
<1>3. RunLeft = 0 /\ RunBack = 0 /\ Outcome = "OK"
  BY <1>1, FirstState DEF RunLeft, RunBack, Outcome
<1> QED
  BY <1>1, <1>2, <1>3 DEF Lz!Init

\* For every stream, every shape of the channels and every size of the window:
\* if all of a sub-image's channels are fast or none is, the values are those
\* of LZ77 with all of the history, whichever of the three ways they are read.
THEOREM ReadersImplementLz77 ==
  ASSUME Unmixed
  PROVE  TokenSpec => ReadsLz77
<1>1. TokenInit => TokenInv
  BY FirstState
<1>2. TokenInv /\ [TokenNext]_tokenVars => TokenInv'
  BY TokenInvStep
<1>3. TokenInit => Lz!Init
  BY FirstImplements
<1>4. TokenInv /\ [TokenNext]_tokenVars => [Lz!Next]_Lz!vars
  <2>1. CASE TokenNext
    BY <2>1, StepImplements
  <2>2. CASE UNCHANGED tokenVars
    <3>1. UNCHANGED <<image, lz, slot, hoisted, window, rle, at, taken, out, result>>
      BY <2>2 DEF tokenVars
    <3>2. UsesRle' = UsesRle /\ Symbols' = Symbols /\ (Garbled <=> Garbled') /\ Cur' = Cur
      BY <3>1, SameImage, GarbledStays DEF Cur
    <3>3. RunLeft' = RunLeft /\ RunBack' = RunBack /\ Outcome' = Outcome
      BY <3>1, <3>2 DEF RunLeft, RunBack, Outcome
    <3>4. UNCHANGED Lz!vars
      BY <3>1, <3>2, <3>3 DEF Lz!vars
    <3> QED
      BY <3>4
  <2> QED
    BY <2>1, <2>2
<1> QED
  BY <1>1, <1>2, <1>3, <1>4, PTL DEF TokenSpec, ReadsLz77, Lz!Spec
=============================================================================
