------------------------------ MODULE Bits_proofs ------------------------------
(***************************************************************************)
(* Bits in and bits out.  For streams of any length and reads of any size: *)
(* the buffer of jxl_bs always holds the bits of the stream at their       *)
(* places, and the reader implements the abstract one of BitStream.  For   *)
(* every capacity, every size of write and allotment, and any depth of     *)
(* nesting: the storage of the bit writer is exact and suffices.           *)
(***************************************************************************)
EXTENDS BitReader, BitWriter, TLAPS

-----------------------------------------------------------------------------
(* The bit reader *)

At(b) == 8 * b.off - b.rem

Positions == 0 .. 8 * len - 1
Typed(b) == b \in [off : 0 .. len, buf : [Slots -> SUBSET Positions], rem : Slots, num : Nat]

InPlace(b) ==
  \A i \in Slots : /\ b.buf[i] \subseteq {At(b) + i}
                   /\ i < b.rem => b.buf[i] = {At(b) + i}

Sound(b) == Typed(b) /\ InPlace(b)

\* Enough bits for a read, or all there are.
Full(b) == b.rem >= 56 \/ b.off = len

\* The inductive invariant.
BitInv ==
  /\ len \in StreamLengths
  /\ Sound(bs)
  /\ lost \in BOOLEAN
  /\ ~lost => bs.num = At(bs)

\* A step of the abstract reader.
StreamStep == [Stream!Next]_(Stream!vars)

-----------------------------------------------------------------------------
(* A record with its buffer in place stays so under what the calls do to it *)

LEMMA Unfold ==
  ASSUME len \in Nat, NEW b, Sound(b)
  PROVE  /\ b.off \in Nat /\ b.off <= len /\ b.rem \in Nat /\ b.rem <= 63 /\ b.num \in Nat
         /\ b.buf \in [Slots -> SUBSET Positions]
         /\ At(b) \in Int /\ At(b) = 8 * b.off - b.rem
         /\ \A i \in Slots : b.buf[i] \subseteq {At(b) + i}
         /\ \A i \in Slots : i < b.rem => b.buf[i] = {At(b) + i}
<1>1. /\ b.off \in 0 .. len /\ b.rem \in Slots /\ b.num \in Nat
      /\ b.buf \in [Slots -> SUBSET Positions]
  BY DEF Sound, Typed
<1>2. /\ b.off \in Nat /\ b.off <= len /\ b.rem \in Nat /\ b.rem <= 63
  BY <1>1 DEF Slots
<1>3. At(b) \in Int /\ At(b) = 8 * b.off - b.rem
  BY <1>2 DEF At
<1>4. InPlace(b)
  BY DEF Sound
<1> QED
  BY <1>1, <1>2, <1>3, <1>4 DEF InPlace

LEMMA Fold ==
  ASSUME len \in Nat, NEW o \in Nat, o <= len, NEW r \in Nat, r <= 63, NEW n \in Nat,
         NEW f \in [Slots -> SUBSET Positions], NEW p, p = 8 * o - r,
         \A i \in Slots : f[i] \subseteq {p + i},
         \A i \in Slots : i < r => f[i] = {p + i}
  PROVE  /\ Sound(Reader(o, f, r, n)) /\ At(Reader(o, f, r, n)) = p
BY DEF Sound, Typed, InPlace, At, Slots, Reader

LEMMA OredSound ==
  ASSUME len \in Nat, NEW b, Sound(b), NEW word \in Nat,
         b.rem + word <= 64, 8 * b.off + word <= 8 * len
  PROVE  /\ Ored(b, word) \in [Slots -> SUBSET Positions]
         /\ \A i \in Slots : Ored(b, word)[i] \subseteq {At(b) + i}
         /\ \A i \in Slots : i < b.rem + word => Ored(b, word)[i] = {At(b) + i}
<1> DEFINE p == At(b)
           new(i) == IF i \in b.rem .. b.rem + word - 1 THEN {8 * b.off + i - b.rem} ELSE {}
<1>0. /\ b.off \in Nat /\ b.rem \in Nat /\ b.buf \in [Slots -> SUBSET Positions]
      /\ p \in Int /\ p = 8 * b.off - b.rem
      /\ \A i \in Slots : b.buf[i] \subseteq {p + i}
      /\ \A i \in Slots : i < b.rem => b.buf[i] = {p + i}
  BY Unfold
<1>1. Ored(b, word) = [i \in Slots |-> b.buf[i] \cup new(i)]
  BY DEF Ored
<1> HIDE DEF p
<1>2. ASSUME NEW i \in Slots
      PROVE  /\ new(i) \subseteq {p + i} /\ new(i) \subseteq Positions
             /\ (b.rem <= i /\ i < b.rem + word) => new(i) = {p + i}
  <2>1. i \in Nat
    BY DEF Slots
  <2>2. CASE i \in b.rem .. b.rem + word - 1
    <3>1. new(i) = {8 * b.off + i - b.rem}
      BY <2>2
    <3>2. 8 * b.off + i - b.rem = p + i
      BY <1>0, <2>1
    <3>3. 8 * b.off + i - b.rem \in Positions
      BY <1>0, <2>1, <2>2 DEF Positions
    <3> QED
      BY <3>1, <3>2, <3>3
  <2>3. CASE i \notin b.rem .. b.rem + word - 1
    <3>1. new(i) = {}
      BY <2>3
    <3>2. ~(b.rem <= i /\ i < b.rem + word)
      BY <2>1, <2>3, <1>0
    <3> QED
      BY <3>1, <3>2
  <2> QED
    BY <2>2, <2>3
<1>3. ASSUME NEW i \in Slots
      PROVE  /\ b.buf[i] \cup new(i) \subseteq {p + i}
             /\ b.buf[i] \cup new(i) \subseteq Positions
             /\ i < b.rem + word => b.buf[i] \cup new(i) = {p + i}
  <2> HIDE DEF new
  <2>1. i < b.rem \/ b.rem <= i
    BY <1>0 DEF Slots
  <2>2. b.buf[i] \subseteq Positions
    BY <1>0
  <2> QED
    BY <1>0, <1>2, <2>1, <2>2
<1> HIDE DEF new
<1> QED
  BY <1>1, <1>3 DEF p

LEMMA RefillSound ==
  ASSUME len \in Nat, NEW b, Sound(b)
  PROVE  /\ Sound(Refill(b)) /\ At(Refill(b)) = At(b)
         /\ Refill(b).num = b.num /\ Full(Refill(b))
<1> DEFINE p == At(b)
           o == b.off
           r == b.rem
           fit == (63 - r) \div 8
<1>0. /\ o \in Nat /\ o <= len /\ r \in Nat /\ r <= 63 /\ b.num \in Nat
      /\ p \in Int /\ p = 8 * o - r
  BY Unfold
<1>1. fit \in Nat /\ 8 * fit <= 63 - r /\ 63 - r < 8 * fit + 8
  BY <1>0
<1> HIDE DEF p
<1>2. CASE BytesLeft(b) >= 8
  <2> DEFINE f == Ored(b, 64 - r)
  <2>1. 64 - r \in Nat /\ b.rem + (64 - r) = 64 /\ 8 * b.off + (64 - r) <= 8 * len
    BY <1>0, <1>2 DEF BytesLeft
  <2>2. /\ f \in [Slots -> SUBSET Positions]
        /\ \A i \in Slots : f[i] \subseteq {p + i}
        /\ \A i \in Slots : i < 64 => f[i] = {p + i}
    BY <2>1, OredSound DEF p
  <2>3. /\ 56 + (r % 8) \in Nat /\ 56 + (r % 8) <= 63
        /\ 56 + (r % 8) = r + 8 * fit
    BY <1>0, <1>1
  <2>4. o + fit \in Nat /\ o + fit <= len /\ p = 8 * (o + fit) - (56 + (r % 8))
    BY <1>0, <1>1, <1>2, <2>3 DEF BytesLeft
  <2>5. Refill(b) = Reader(o + fit, f, 56 + (r % 8), b.num)
    BY <1>2 DEF Refill, RefillWord
  <2>6. \A i \in Slots : i < 56 + (r % 8) => f[i] = {p + i}
    BY <2>2, <2>3 DEF Slots
  <2> HIDE DEF f, fit, o, r
  <2>7. Sound(Refill(b)) /\ At(Refill(b)) = p
    <3> DEFINE o2 == o + fit
               r2 == 56 + (r % 8)
               n2 == b.num
    <3>1. /\ o2 \in Nat /\ o2 <= len /\ r2 \in Nat /\ r2 <= 63 /\ n2 \in Nat
          /\ p = 8 * o2 - r2
          /\ \A i \in Slots : f[i] \subseteq {p + i}
          /\ \A i \in Slots : i < r2 => f[i] = {p + i}
      BY <2>2, <2>3, <2>4, <2>6, <1>0
    <3>2. f \in [Slots -> SUBSET Positions] /\ Refill(b) = Reader(o2, f, r2, n2)
      BY <2>2, <2>5
    <3> HIDE DEF o2, r2, n2
    <3>3. Sound(Reader(o2, f, r2, n2)) /\ At(Reader(o2, f, r2, n2)) = p
      BY <3>1, <3>2, Fold
    <3> QED
      BY <3>2, <3>3
  <2>8. Full(Refill(b))
    BY <2>3, <2>5, <1>0 DEF Full, Reader
  <2> QED
    BY <2>5, <2>7, <2>8 DEF p, Reader
<1>3. CASE ~(BytesLeft(b) >= 8)
  <2> DEFINE n == BytesFitting(b)
             f == Ored(b, 8 * n)
  <2>1. n \in Nat /\ n <= fit /\ o + n <= len /\ (n = fit \/ o + n = len)
    BY <1>0, <1>1 DEF BytesLeft, BytesFitting
  <2>2. 8 * n \in Nat /\ b.rem + 8 * n <= 63 /\ 8 * b.off + 8 * n <= 8 * len
    <3> HIDE DEF n, fit
    <3> QED
      BY <1>0, <1>1, <2>1
  <2>3. /\ f \in [Slots -> SUBSET Positions]
        /\ \A i \in Slots : f[i] \subseteq {p + i}
        /\ \A i \in Slots : i < r + 8 * n => f[i] = {p + i}
    <3> HIDE DEF n
    <3> QED
      BY <2>2, <1>0, OredSound DEF p
  <2>4. Refill(b) = Reader(o + n, f, r + 8 * n, b.num)
    BY <1>3 DEF Refill, RefillBytes
  <2> HIDE DEF n, f, fit
  <2>5. p = 8 * (o + n) - (r + 8 * n) /\ r + 8 * n \in Nat
    BY <1>0, <2>1
  <2> HIDE DEF o, r
  <2>6. Sound(Refill(b)) /\ At(Refill(b)) = p
    <3> DEFINE o2 == o + n
               r2 == r + 8 * n
               n2 == b.num
    <3>1. /\ o2 \in Nat /\ o2 <= len /\ r2 \in Nat /\ r2 <= 63 /\ n2 \in Nat
          /\ p = 8 * o2 - r2
          /\ \A i \in Slots : f[i] \subseteq {p + i}
          /\ \A i \in Slots : i < r2 => f[i] = {p + i}
      BY <2>1, <2>2, <2>3, <2>5, <1>0 DEF r, o
    <3>2. f \in [Slots -> SUBSET Positions] /\ Refill(b) = Reader(o2, f, r2, n2)
      BY <2>3, <2>4
    <3> HIDE DEF o2, r2, n2
    <3>3. Sound(Reader(o2, f, r2, n2)) /\ At(Reader(o2, f, r2, n2)) = p
      BY <3>1, <3>2, Fold
    <3> QED
      BY <3>2, <3>3
  <2>7. Full(Refill(b))
    <3>1. CASE n = fit
      <4>1. r + 8 * n >= 56
        BY <3>1, <1>0, <1>1
      <4> QED
        BY <4>1, <2>4 DEF Full, Reader
    <3>2. CASE o + n = len
      BY <3>2, <2>4 DEF Full, Reader
    <3> QED
      BY <3>1, <3>2, <2>1
  <2> QED
    BY <2>4, <2>6, <2>7 DEF p, Reader
<1> QED
  BY <1>2, <1>3

\* What stays in place when n bits are shifted out, whatever is counted.
LEMMA ShiftSound ==
  ASSUME len \in Nat, NEW b, Sound(b), NEW n \in Nat, n <= b.rem, NEW m \in Nat
  PROVE  LET c == Reader(b.off, Shifted(b, n), b.rem - n, m)
         IN  Sound(c) /\ At(c) = At(b) + n
<1> DEFINE p == At(b)
           f == Shifted(b, n)
           o == b.off
           r == b.rem - n
<1>0. /\ o \in Nat /\ o <= len /\ b.rem \in Nat /\ b.rem <= 63
      /\ b.buf \in [Slots -> SUBSET Positions]
      /\ p \in Int /\ p = 8 * o - b.rem
      /\ \A i \in Slots : b.buf[i] \subseteq {p + i}
      /\ \A i \in Slots : i < b.rem => b.buf[i] = {p + i}
  BY Unfold
<1> HIDE DEF p
<1>1. f \in [Slots -> SUBSET Positions]
  BY <1>0 DEF Shifted
<1>2. r \in Nat /\ r <= 63 /\ p + n = 8 * o - r
  BY <1>0
<1>3. ASSUME NEW i \in Slots
      PROVE  f[i] \subseteq {(p + n) + i} /\ (i < r => f[i] = {(p + n) + i})
  <2>1. i \in Nat /\ p + (i + n) = (p + n) + i
    BY <1>0 DEF Slots
  <2>2. CASE i + n \in Slots
    <3>1. f[i] = b.buf[i + n]
      BY <2>2 DEF Shifted
    <3>2. i < r => i + n < b.rem
      BY <2>1, <1>0
    <3> QED
      BY <3>1, <3>2, <2>1, <2>2, <1>0
  <2>3. CASE i + n \notin Slots
    <3>1. f[i] = {}
      BY <2>3 DEF Shifted
    <3>2. ~(i < r)
      <4>1. i + n \in Nat /\ i + n > 63
        BY <2>1, <2>3 DEF Slots
      <4> QED
        BY <4>1, <2>1, <1>0
    <3> QED
      BY <3>1, <3>2
  <2> QED
    BY <2>2, <2>3
<1> HIDE DEF f, o, r
<1> DEFINE q == p + n
<1>4. /\ q = 8 * o - r
      /\ \A i \in Slots : f[i] \subseteq {q + i}
      /\ \A i \in Slots : i < r => f[i] = {q + i}
  BY <1>2, <1>3
<1> HIDE DEF q
<1>5. Sound(Reader(o, f, r, m)) /\ At(Reader(o, f, r, m)) = q
  BY <1>0, <1>1, <1>2, <1>4, Fold
<1> QED
  BY <1>5 DEF p, q, f, o, r

LEMMA DropSound ==
  ASSUME len \in Nat, NEW b, Sound(b), NEW n \in Nat, n <= b.rem
  PROVE  /\ Sound(Drop(b, n)) /\ At(Drop(b, n)) = At(b) + n
         /\ Drop(b, n).num = b.num + n /\ Drop(b, n).rem = b.rem - n
         /\ Drop(b, n).off = b.off
<1>1. b.num + n \in Nat
  BY Unfold
<1>2. Sound(Drop(b, n)) /\ At(Drop(b, n)) = At(b) + n
  BY <1>1, ShiftSound DEF Drop
<1> QED
  BY <1>2 DEF Drop, Reader

\* The low bits of a buffer that holds them, or all there are.
LEMMA LowExact ==
  ASSUME len \in Nat, NEW b, Sound(b), NEW n \in Nat, n <= 56, n <= b.rem \/ b.off = len
  PROVE  Low(b, n) = [k \in 0 .. n - 1 |-> {At(b) + k} \cap Positions]
<1> DEFINE p == At(b)
<1>0. /\ b.off \in Nat /\ b.rem \in Nat /\ b.buf \in [Slots -> SUBSET Positions]
      /\ p \in Int /\ p = 8 * b.off - b.rem
      /\ \A i \in Slots : b.buf[i] \subseteq {p + i}
      /\ \A i \in Slots : i < b.rem => b.buf[i] = {p + i}
  BY Unfold
<1> HIDE DEF p
<1>1. ASSUME NEW k \in 0 .. n - 1
      PROVE  b.buf[k] = {p + k} \cap Positions
  <2>1. k \in Slots /\ k \in Nat /\ k < n
    BY DEF Slots
  <2>2. b.buf[k] \subseteq Positions
    BY <2>1, <1>0
  <2>3. CASE k < b.rem
    BY <2>1, <2>2, <2>3, <1>0
  <2>4. CASE ~(k < b.rem)
    <3>1. b.off = len
      BY <2>1, <2>4, <1>0
    <3>2. p + k >= 8 * len
      BY <3>1, <2>1, <2>4, <1>0
    <3>3. p + k \notin Positions
      BY <3>2, <2>1, <1>0 DEF Positions
    <3>4. b.buf[k] \subseteq {p + k}
      BY <2>1, <1>0
    <3> QED
      BY <3>3, <3>4, <2>2
  <2> QED
    BY <2>3, <2>4
<1> QED
  BY <1>1 DEF Low, p

\* A full buffer is short of bits exactly if the stream is.
LEMMA ShortAtEnd ==
  ASSUME len \in Nat, NEW b, Sound(b), NEW k \in Nat,
         k <= b.rem \/ (k <= 56 /\ Full(b)) \/ b.off = len
  PROVE  k > b.rem <=> At(b) + k > 8 * len
<1>0. /\ b.off \in Nat /\ b.off <= len /\ b.rem \in Nat /\ At(b) \in Int
      /\ At(b) = 8 * b.off - b.rem
  BY Unfold
<1>1. k > b.rem => b.off = len
  BY <1>0 DEF Full
<1> QED
  BY <1>0, <1>1

LEMMA EmptiedSound ==
  ASSUME len \in Nat, NEW b, Sound(b)
  PROVE  /\ Sound(Emptied(b)) /\ At(Emptied(b)) = At(b) + b.rem
         /\ Emptied(b).off = b.off /\ Emptied(b).num = b.num + b.rem /\ Emptied(b).rem = 0
         /\ At(b) + b.rem = 8 * b.off /\ Emptied(b).buf = NoBits
<1>0. /\ b.off \in Nat /\ b.off <= len /\ b.rem \in Nat /\ b.num \in Nat
      /\ At(b) = 8 * b.off - b.rem
  BY Unfold
<1>1. /\ NoBits \in [Slots -> SUBSET Positions]
      /\ \A i \in Slots : NoBits[i] = {}
  BY DEF NoBits
<1>2. \A i \in Slots : ~(i < 0)
  BY DEF Slots
<1> DEFINE o == b.off
           n == b.num + b.rem
<1>3. n \in Nat /\ 8 * o = 8 * o - 0
  BY <1>0
<1>4. o \in Nat /\ o <= len
  BY <1>0
<1>5. Emptied(b) = Reader(o, NoBits, 0, n)
  BY DEF Emptied
<1> HIDE DEF o, n
<1>6. Sound(Reader(o, NoBits, 0, n)) /\ At(Reader(o, NoBits, 0, n)) = 8 * o
  BY <1>1, <1>2, <1>3, <1>4, Fold
<1> QED
  BY <1>0, <1>5, <1>6 DEF o, n, Reader

\* A skip: on by n bits, or beyond the end.
LEMMA SkipSound ==
  ASSUME len \in Nat, NEW b, Sound(b), NEW n \in Nat
  PROVE  LET s == SkipFrom(b, n)
         IN  /\ Sound(s.bs) /\ s.st \in {"OK", "EOF"}
             /\ s.st = "OK" => /\ At(s.bs) = At(b) + n /\ s.bs.num = b.num + n
                               /\ At(b) + n <= 8 * len
             /\ s.st # "OK" => At(b) + n > 8 * len
<1> DEFINE s == SkipFrom(b, n)
           e == Emptied(b)
           rest == n - b.rem
           g == SkipBytes(e, rest)
           f == Refill(g)
           low == rest % 8
           whole == rest \div 8
<1>0. /\ b.off \in Nat /\ b.off <= len /\ b.rem \in Nat /\ b.num \in Nat
      /\ At(b) \in Int /\ At(b) = 8 * b.off - b.rem
  BY Unfold
<1>1. CASE n <= b.rem
  <2>1. s = [st |-> "OK", bs |-> Drop(b, n)]
    BY <1>1 DEF SkipFrom
  <2>2. At(b) + n <= 8 * len
    BY <1>0, <1>1
  <2> QED
    BY <1>1, <2>1, <2>2, DropSound
<1>2. CASE ~(n <= b.rem)
  <2>1. rest \in Nat /\ At(b) + n = 8 * b.off + rest
    BY <1>0, <1>2
  <2>2. /\ Sound(e) /\ At(e) = 8 * b.off /\ e.off = b.off
        /\ e.num = b.num + b.rem /\ e.rem = 0 /\ e.buf = NoBits
    BY EmptiedSound
  <2>3. CASE rest > 8 * (len - b.off)
    <3> DEFINE m == e.num + 8 * BytesLeft(e)
    <3>1. m \in Nat
      BY <1>0, <2>2 DEF BytesLeft
    <3>2. s = [st |-> "EOF", bs |-> Reader(e.off, e.buf, e.rem, m)]
      BY <1>2, <2>2, <2>3 DEF SkipFrom, BytesLeft
    <3>3. Sound(Reader(e.off, e.buf, e.rem, m))
      <4>1. /\ e.off \in Nat /\ e.off <= len /\ e.rem \in Nat /\ e.rem <= 63
            /\ e.buf \in [Slots -> SUBSET Positions]
            /\ \A i \in Slots : e.buf[i] \subseteq {At(e) + i}
            /\ \A i \in Slots : i < e.rem => e.buf[i] = {At(e) + i}
            /\ At(e) = 8 * e.off - e.rem
        BY <2>2, Unfold
      <4> HIDE DEF e, m
      <4> QED
        BY <3>1, <4>1, Fold
    <3>4. At(b) + n > 8 * len
      BY <2>1, <2>3, <1>0
    <3> QED
      BY <3>2, <3>3, <3>4
  <2>4. CASE ~(rest > 8 * (len - b.off))
    <3> HIDE DEF rest
    <3>1. low \in Nat /\ low < 8 /\ whole \in Nat /\ rest = 8 * whole + low
      BY <2>1
    <3>2. b.off + whole <= len
      <4> HIDE DEF low, whole
      <4> QED
        BY <2>1, <2>4, <3>1, <1>0
    <3> DEFINE o == b.off + whole
               m == b.num + n
    <3>3. /\ o \in Nat /\ o <= len /\ m \in Nat
          /\ g = Reader(o, NoBits, 0, m)
      <4>1. e.num + rest = m
        BY <2>2, <1>0 DEF rest
      <4> QED
        BY <1>0, <2>2, <3>1, <3>2, <4>1 DEF SkipBytes
    <3>4. Sound(g) /\ At(g) = 8 * o /\ g.num = m
      <4>1. /\ NoBits \in [Slots -> SUBSET Positions]
            /\ \A i \in Slots : NoBits[i] = {}
            /\ \A i \in Slots : ~(i < 0)
        BY DEF NoBits, Slots
      <4>2. 8 * o = 8 * o - 0
        BY <3>3
      <4> HIDE DEF o, m, g
      <4>3. Sound(Reader(o, NoBits, 0, m)) /\ At(Reader(o, NoBits, 0, m)) = 8 * o
        BY <3>3, <4>1, <4>2, Fold
      <4> QED
        BY <3>3, <4>3 DEF Reader
    <3> HIDE DEF g
    <3>5. /\ Sound(f) /\ At(f) = 8 * o /\ f.num = m /\ Full(f)
          /\ f.off \in Nat /\ f.off <= len /\ f.rem \in Nat /\ At(f) = 8 * f.off - f.rem
      BY <3>4, RefillSound, Unfold
    <3>6. 8 * o + low = At(b) + n
      BY <2>1, <3>1, <1>0
    <3>7. At(b) + n <= 8 * len
      BY <2>1, <2>4, <1>0
    <3>8. low <= f.rem
      <4> HIDE DEF f, low, o, m
      <4> QED
        BY <3>1, <3>5, <3>6, <3>7, <1>0 DEF Full
    <3> DEFINE c == Reader(f.off, Shifted(f, low), f.rem - low, f.num)
    <3>9. s = [st |-> "OK", bs |-> c]
      <4>1. ~(rest > 8 * BytesLeft(e)) /\ ~(low > f.rem)
        BY <2>2, <2>4, <3>1, <3>5, <3>8 DEF BytesLeft
      <4> QED
        BY <1>2, <4>1 DEF SkipFrom, rest, g
    <3>10. Sound(c) /\ At(c) = At(f) + low /\ c.num = m
      <4> HIDE DEF f, low, m
      <4>1. m \in Nat /\ f.num = m
        BY <3>3, <3>5
      <4>2. Sound(c) /\ At(c) = At(f) + low
        BY <3>1, <3>5, <3>8, <4>1, ShiftSound
      <4> QED
        BY <4>1, <4>2 DEF Reader
    <3> QED
      BY <3>5, <3>6, <3>7, <3>9, <3>10 DEF m
  <2> QED
    BY <2>3, <2>4 DEF rest
<1> QED
  BY <1>1, <1>2

LEMMA FreshSound ==
  ASSUME len \in Nat
  PROVE  Sound(Fresh) /\ At(Fresh) = 0 /\ Fresh.num = 0
<1>1. /\ NoBits \in [Slots -> SUBSET Positions]
      /\ \A i \in Slots : NoBits[i] = {}
      /\ \A i \in Slots : ~(i < 0)
      /\ 0 = 8 * 0 - 0
  BY DEF NoBits, Slots
<1>2. Sound(Reader(0, NoBits, 0, 0)) /\ At(Reader(0, NoBits, 0, 0)) = 0
  BY <1>1, Fold
<1> QED
  BY <1>2 DEF Fresh, Reader

-----------------------------------------------------------------------------
(* Every call keeps the invariant, and is a call of the abstract reader *)

LEMMA StreamDefs ==
  /\ Positions = 0 .. 8 * len - 1
  /\ \A p, n : Stream!BitsFrom(p, n) = [k \in 0 .. n - 1 |-> {p + k} \cap Positions]
BY DEF Positions, Stream!BitsFrom

LEMMA InvFacts ==
  ASSUME BitInv
  PROVE  /\ len \in Nat /\ len \in StreamLengths /\ Sound(bs) /\ lost \in BOOLEAN
         /\ ~lost => bs.num = At(bs)
         /\ bs.num \in Nat /\ bs.off \in Nat /\ bs.off <= len
         /\ bs.rem \in Nat /\ At(bs) = 8 * bs.off - bs.rem
<1>1. len \in Nat /\ Sound(bs)
  BY StreamAssumption DEF BitInv
<1> QED
  BY <1>1, Unfold DEF BitInv

LEMMA PeekExact ==
  ASSUME len \in Nat, NEW b, Sound(b), NEW n \in Nat, n <= 56, n <= b.rem \/ b.off = len,
         NEW p, At(b) = p
  PROVE  Low(b, n) = Stream!BitsFrom(p, n)
<1>1. Low(b, n) = [k \in 0 .. n - 1 |-> {p + k} \cap Positions]
  BY LowExact
<1>2. Stream!BitsFrom(p, n) = [k \in 0 .. n - 1 |-> {p + k} \cap Positions]
  BY StreamDefs
<1> QED
  BY <1>1, <1>2

LEMMA LostStep ==
  ASSUME lost, UNCHANGED len
  PROVE  StreamStep
<1>1. Stream!Lost
  BY DEF Stream!Lost
<1> QED
  BY <1>1 DEF StreamStep, Stream!Next

LEMMA ReadBitsStep ==
  ASSUME BitInv, NEW n \in Widths, NEW k \in Widths, ReadBits(n, k)
  PROVE  BitInv' /\ StreamStep
<1> DEFINE b == Refill(bs)
<1>0. n \in Nat /\ k \in Nat /\ n <= 32 /\ k <= n
  BY StreamAssumption DEF ReadBits
<1>1. /\ Sound(b) /\ At(b) = At(bs) /\ b.num = bs.num /\ Full(b)
      /\ b.rem \in Nat
  BY InvFacts, RefillSound, Unfold
<1>2. value' = Low(b, n) /\ Consume(b, k) /\ len' = len /\ lost' = lost
  BY DEF ReadBits
<1> HIDE DEF b
<1>5. ASSUME ~lost PROVE At(b) = bs.num /\ Low(b, n) = Stream!BitsFrom(bs.num, n)
  <2>1. n <= 56 /\ (n <= b.rem \/ b.off = len) /\ At(b) = bs.num
    BY <1>0, <1>1, <1>5, InvFacts DEF Full
  <2> QED
    BY <2>1, <1>0, <1>1, InvFacts, PeekExact
<1>3. CASE k > b.rem
  <2>1. bs' = b /\ status' = "EOF"
    BY <1>2, <1>3 DEF Consume
  <2>2. BitInv'
    BY <2>1, <1>1, <1>2, InvFacts DEF BitInv, Sound, Typed, InPlace, At, Positions
  <2>3. ASSUME ~lost PROVE Stream!Read(n, k)
    <3>1. bs.num + k > 8 * len
      BY <1>0, <1>1, <1>3, <1>5, <2>3, InvFacts, ShortAtEnd
    <3>2. ~(bs.num + k <= 8 * len)
      BY <3>1, <1>0, InvFacts
    <3> QED
      BY <2>1, <1>1, <1>2, <1>5, <2>3, <3>2 DEF Stream!Read, Stream!Advance
  <2>4. StreamStep
    BY <2>3, <1>2, LostStep DEF StreamStep, Stream!Next
  <2> QED
    BY <2>2, <2>4
<1>4. CASE ~(k > b.rem)
  <2>1. bs' = Drop(b, k) /\ status' = "OK"
    BY <1>2, <1>4 DEF Consume
  <2>0. k <= b.rem
    BY <1>0, <1>1, <1>4
  <2>2. Sound(bs') /\ At(bs') = At(bs) + k /\ bs'.num = bs.num + k
    BY <2>0, <2>1, <1>0, <1>1, InvFacts, DropSound
  <2>3. BitInv'
    BY <2>2, <1>2, InvFacts DEF BitInv, Sound, Typed, InPlace, At, Positions
  <2>4. ASSUME ~lost PROVE Stream!Read(n, k)
    <3>1. ~(bs.num + k > 8 * len)
      BY <1>0, <1>1, <1>4, <1>5, <2>4, InvFacts, ShortAtEnd
    <3>2. bs.num + k <= 8 * len
      BY <3>1, <1>0, InvFacts
    <3> QED
      BY <2>1, <2>2, <1>2, <1>5, <2>4, <3>2 DEF Stream!Read, Stream!Advance
  <2>5. StreamStep
    BY <2>4, <1>2, LostStep DEF StreamStep, Stream!Next
  <2> QED
    BY <2>3, <2>5
<1> QED
  BY <1>3, <1>4

LEMMA ReadSymbolStep ==
  ASSUME BitInv, NEW n \in Widths, NEW k \in Widths, NEW m \in Widths, ReadSymbol(n, k, m)
  PROVE  BitInv' /\ StreamStep
<1> DEFINE b == Refill(bs)
           c == Drop(b, k)
<1>0. n \in Nat /\ k \in Nat /\ m \in Nat /\ n <= 32 /\ k <= n /\ m <= 24
  BY StreamAssumption DEF ReadSymbol
<1>1. /\ Sound(b) /\ At(b) = At(bs) /\ b.num = bs.num /\ Full(b) /\ b.rem \in Nat
  BY InvFacts, RefillSound, Unfold
<1>2. len' = len /\ lost' = lost
  BY DEF ReadSymbol
<1>3. CASE k > b.rem
  <2>1. bs' = b /\ status' = "EOF" /\ value' = NoValue
    BY <1>3 DEF ReadSymbol, Consume
  <2> HIDE DEF b
  <2>2. BitInv'
    BY <2>1, <1>1, <1>2, InvFacts DEF BitInv, Sound, Typed, InPlace, At, Positions
  <2>3. ASSUME ~lost PROVE Stream!ReadTwo(k, m)
    <3>1. bs.num + k > 8 * len
      BY <1>0, <1>1, <1>3, <2>3, InvFacts, ShortAtEnd
    <3> QED
      BY <2>1, <1>1, <1>2, <3>1 DEF Stream!ReadTwo, Stream!NoValue, NoValue
  <2>4. StreamStep
    BY <2>3, <1>2, LostStep DEF StreamStep, Stream!Next
  <2> QED
    BY <2>2, <2>4
<1>4. CASE ~(k > b.rem)
  <2>1. value' = Low(c, m) /\ Consume(c, m)
    BY <1>4 DEF ReadSymbol
  <2>2. k <= b.rem
    BY <1>0, <1>1, <1>4
  <2> HIDE DEF b
  <2>3. /\ Sound(c) /\ At(c) = At(bs) + k /\ c.num = bs.num + k
        /\ c.rem = b.rem - k /\ c.off = b.off
    BY <2>2, <1>0, <1>1, InvFacts, DropSound
  <2>4. c.rem \in Nat /\ (m <= c.rem \/ c.off = len)
    BY <2>2, <2>3, <1>0, <1>1 DEF Full
  <2> HIDE DEF c
  <2>5. ASSUME ~lost
        PROVE  /\ At(c) = bs.num + k /\ bs.num + k <= 8 * len
               /\ value' = Stream!BitsFrom(bs.num + k, m)
    <3>1. At(c) = bs.num + k
      BY <2>3, <2>5, InvFacts
    <3>2. ~(k > b.rem) /\ At(b) = bs.num
      BY <1>1, <1>4, <2>5, InvFacts
    <3>3. bs.num + k <= 8 * len
      BY <3>2, <1>0, <1>1, InvFacts, ShortAtEnd
    <3>4. Low(c, m) = Stream!BitsFrom(bs.num + k, m)
      BY <3>1, <2>3, <2>4, <1>0, InvFacts, PeekExact
    <3> QED
      BY <3>1, <3>3, <3>4, <2>1
  <2>6. CASE m > c.rem
    <3>1. bs' = c /\ status' = "EOF"
      BY <2>1, <2>6 DEF Consume
    <3>2. BitInv'
      BY <3>1, <2>3, <1>0, <1>2, InvFacts DEF BitInv, Sound, Typed, InPlace, At, Positions
    <3>3. ASSUME ~lost PROVE Stream!ReadTwo(k, m)
      <4>1. At(c) + m > 8 * len
        BY <2>3, <2>4, <2>6, <1>0, InvFacts, ShortAtEnd
      <4>2. ~(bs.num + k + m <= 8 * len) /\ ~(bs.num + k > 8 * len)
        BY <4>1, <2>5, <3>3, <1>0, InvFacts
      <4> QED
        BY <3>1, <2>3, <2>5, <3>3, <1>2, <4>2 DEF Stream!ReadTwo
    <3>4. StreamStep
      BY <3>3, <1>2, LostStep DEF StreamStep, Stream!Next
    <3> QED
      BY <3>2, <3>4
  <2>7. CASE ~(m > c.rem)
    <3>1. bs' = Drop(c, m) /\ status' = "OK" /\ m <= c.rem
      BY <2>1, <2>4, <2>7, <1>0 DEF Consume
    <3>2. Sound(bs') /\ At(bs') = At(bs) + k + m /\ bs'.num = bs.num + k + m
      BY <3>1, <2>3, <1>0, InvFacts, DropSound
    <3>3. BitInv'
      BY <3>2, <1>0, <1>2, InvFacts DEF BitInv, Sound, Typed, InPlace, At, Positions
    <3>4. ASSUME ~lost PROVE Stream!ReadTwo(k, m)
      <4>0. len \in Nat /\ Sound(c)
        BY <2>3, InvFacts
      <4>1. c.off \in Nat /\ c.off <= len /\ c.rem \in Nat /\ At(c) = 8 * c.off - c.rem
        BY <4>0, Unfold
      <4>2. bs.num + k + m <= 8 * len /\ ~(bs.num + k > 8 * len)
        BY <4>0, <4>1, <3>1, <2>5, <3>4, <1>0, InvFacts
      <4> QED
        BY <3>1, <3>2, <2>5, <3>4, <1>2, <4>2 DEF Stream!ReadTwo
    <3>5. StreamStep
      BY <3>4, <1>2, LostStep DEF StreamStep, Stream!Next
    <3> QED
      BY <3>3, <3>5
  <2> QED
    BY <2>6, <2>7
<1> QED
  BY <1>3, <1>4

LEMMA SkipBitsStep ==
  ASSUME BitInv, NEW n \in Widths, SkipBits(n)
  PROVE  BitInv' /\ StreamStep
<1> DEFINE s == SkipFrom(bs, n)
<1>0. n \in Nat
  BY StreamAssumption
<1>1. /\ bs' = s.bs /\ status' = s.st /\ lost' = (lost \/ s.st # "OK")
      /\ value' = NoValue /\ len' = len
  BY DEF SkipBits
<1>2. /\ Sound(s.bs) /\ s.st \in {"OK", "EOF"}
      /\ s.st = "OK" => /\ At(s.bs) = At(bs) + n /\ s.bs.num = bs.num + n
                        /\ At(bs) + n <= 8 * len
      /\ s.st # "OK" => At(bs) + n > 8 * len
  BY <1>0, InvFacts, SkipSound
<1> HIDE DEF s
<1>3. lost' \in BOOLEAN /\ (~lost' => bs'.num = At(bs'))
  BY <1>0, <1>1, <1>2, InvFacts
<1>4. BitInv'
  BY <1>1, <1>2, <1>3, InvFacts DEF BitInv, Sound, Typed, InPlace, At, Positions
<1>5. bs'.num \in Nat
  BY <1>1, <1>2, InvFacts, Unfold
<1>6. ASSUME ~lost PROVE Stream!Skip(n)
  <2>1. CASE s.st = "OK"
    <3>1. bs.num + n <= 8 * len /\ bs'.num = bs.num + n /\ status' = "OK" /\ lost' = FALSE
      BY <2>1, <1>1, <1>2, <1>6, InvFacts
    <3> QED
      BY <3>1, <1>1 DEF Stream!Skip, Stream!NoValue, NoValue
  <2>2. CASE s.st # "OK"
    <3>0. At(bs) + n > 8 * len /\ At(bs) = bs.num
      BY <2>2, <1>2, <1>6, InvFacts
    <3>1. ~(bs.num + n <= 8 * len) /\ status' = "EOF" /\ lost' = TRUE
      <4>1. ~(bs.num + n <= 8 * len)
        BY <3>0, <1>0, InvFacts
      <4> QED
        BY <4>1, <2>2, <1>1, <1>2
    <3> QED
      BY <3>1, <1>1, <1>5 DEF Stream!Skip, Stream!NoValue, NoValue
  <2> QED
    BY <2>1, <2>2
<1> QED
  BY <1>1, <1>4, <1>6, LostStep DEF StreamStep, Stream!Next

LEMMA InitAtBitStep ==
  ASSUME BitInv, NEW n \in Widths, InitAtBit(n)
  PROVE  BitInv' /\ StreamStep
<1> DEFINE s == SkipFrom(Fresh, n)
<1>0. n \in Nat
  BY StreamAssumption
<1>1. /\ bs' = s.bs /\ status' = s.st /\ lost' = (s.st # "OK")
      /\ value' = NoValue /\ len' = len
  BY DEF InitAtBit
<1>2. /\ Sound(s.bs) /\ s.st \in {"OK", "EOF"}
      /\ s.st = "OK" => At(s.bs) = n /\ s.bs.num = n /\ n <= 8 * len
  <2>1. Sound(Fresh) /\ At(Fresh) = 0 /\ Fresh.num = 0 /\ len \in Nat
    BY InvFacts, FreshSound
  <2>2. /\ Sound(s.bs) /\ s.st \in {"OK", "EOF"}
        /\ s.st = "OK" => /\ At(s.bs) = At(Fresh) + n /\ s.bs.num = Fresh.num + n
                          /\ At(Fresh) + n <= 8 * len
    BY <1>0, <2>1, SkipSound
  <2>3. At(Fresh) + n = n /\ Fresh.num + n = n
    BY <2>1, <1>0
  <2> HIDE DEF s
  <2> QED
    BY <2>2, <2>3
<1> HIDE DEF s
<1>3. lost' \in BOOLEAN /\ (~lost' => bs'.num = At(bs'))
  BY <1>1, <1>2
<1>4. BitInv'
  BY <1>1, <1>2, <1>3, InvFacts DEF BitInv, Sound, Typed, InPlace, At, Positions
<1>5. bs'.num \in Nat
  BY <1>1, <1>2, InvFacts, Unfold
<1>6. CASE s.st = "OK"
  <2>1. Stream!Seek(n)
    BY <1>1, <1>2, <1>6 DEF Stream!Seek, Stream!NoValue, NoValue
  <2> QED
    BY <1>4, <2>1 DEF StreamStep, Stream!Next
<1>7. CASE s.st # "OK"
  <2>1. Stream!SeekLost
    BY <1>1, <1>2, <1>5, <1>7 DEF Stream!SeekLost, Stream!NoValue, NoValue
  <2> QED
    BY <1>4, <2>1 DEF StreamStep, Stream!Next
<1> QED
  BY <1>6, <1>7

LEMMA PadStep ==
  ASSUME BitInv, ZeroPadToByte
  PROVE  BitInv' /\ StreamStep
<1> DEFINE n == Padding(bs)
           b == Refill(bs)
<1>0. n \in Nat /\ n <= 7 /\ bs.num + n = 8 * ((bs.num + 7) \div 8)
  BY InvFacts DEF Padding
<1>1. /\ Sound(b) /\ At(b) = At(bs) /\ b.num = bs.num /\ Full(b) /\ b.rem \in Nat
  BY InvFacts, RefillSound, Unfold
<1>2. /\ len' = len /\ lost' = lost /\ value' = Low(b, n)
      /\ IF n > b.rem THEN status' = "EOF" /\ bs' = b
         ELSE /\ bs' = Drop(b, n)
              /\ status' \in IF n = 0 THEN {"OK"} ELSE {"OK", "NON_ZERO_PADDING"}
  BY DEF ZeroPadToByte
<1>3. Stream!Pad <=> /\ value' = Stream!BitsFrom(bs.num, n) /\ bs'.num = bs.num + n
                     /\ status' \in {"OK", "NON_ZERO_PADDING"} /\ (n = 0 => status' = "OK")
                     /\ 8 * len' = 8 * len /\ lost' = lost
  BY DEF Stream!Pad, Padding
<1> HIDE DEF n, b
<1>4. CASE n > b.rem
  <2>1. bs' = b
    BY <1>2, <1>4
  <2>2. BitInv'
    BY <2>1, <1>1, <1>2, InvFacts DEF BitInv, Sound, Typed, InPlace, At, Positions
  <2>3. lost
    <3>1. SUFFICES ASSUME ~lost PROVE FALSE
      BY InvFacts
    <3>2. bs.num + n > 8 * len
      BY <1>0, <1>1, <1>4, <3>1, InvFacts, ShortAtEnd
    <3>3. bs.num <= 8 * len
      BY <3>1, InvFacts
    <3> QED
      BY <3>2, <3>3, <1>0, InvFacts
  <2> QED
    BY <2>2, <2>3, <1>2, LostStep
<1>5. CASE ~(n > b.rem)
  <2>1. /\ bs' = Drop(b, n) /\ n <= b.rem
        /\ status' \in {"OK", "NON_ZERO_PADDING"} /\ (n = 0 => status' = "OK")
    BY <1>0, <1>1, <1>2, <1>5
  <2>2. Sound(bs') /\ At(bs') = At(bs) + n /\ bs'.num = bs.num + n
    BY <2>1, <1>0, <1>1, InvFacts, DropSound
  <2>3. BitInv'
    BY <2>2, <1>2, InvFacts DEF BitInv, Sound, Typed, InPlace, At, Positions
  <2>4. ASSUME ~lost PROVE Stream!Pad
    <3>1. Low(b, n) = Stream!BitsFrom(bs.num, n)
      <4>1. n <= 56 /\ (n <= b.rem \/ b.off = len) /\ At(b) = bs.num
        BY <1>0, <1>1, <2>1, <2>4, InvFacts
      <4> QED
        BY <4>1, <1>0, <1>1, InvFacts, PeekExact
    <3> QED
      BY <3>1, <2>1, <2>2, <1>2, <1>3
  <2> QED
    BY <2>3, <2>4, <1>2, LostStep DEF StreamStep, Stream!Next
<1> QED
  BY <1>4, <1>5

LEMMA RefuseStep ==
  ASSUME BitInv, Refuse
  PROVE  BitInv' /\ StreamStep
<1>1. BitInv'
  BY DEF Refuse, BitInv, Sound, Typed, InPlace, At, Positions
<1>2. Stream!Refuse
  BY DEF Refuse, Stream!Refuse, Stream!NoValue, NoValue
<1> QED
  BY <1>1, <1>2 DEF StreamStep, Stream!Next

LEMMA BitStep ==
  ASSUME BitInv, [BitNext]_bitVars
  PROVE  BitInv' /\ StreamStep
<1>1. CASE BitNext
  <2>1. ASSUME NEW n \in Widths, NEW k \in Widths, Reading /\ ReadBits(n, k)
        PROVE  BitInv' /\ StreamStep
    BY <2>1, ReadBitsStep
  <2>2. ASSUME NEW n \in Widths, Reading /\ ReadTooMany(n)
        PROVE  BitInv' /\ StreamStep
    BY <2>2, RefuseStep DEF ReadTooMany
  <2>3. ASSUME NEW n \in Widths, NEW k \in Widths, NEW m \in Widths,
               Reading /\ ReadSymbol(n, k, m)
        PROVE  BitInv' /\ StreamStep
    BY <2>3, ReadSymbolStep
  <2>4. ASSUME NEW n \in Widths, Reading /\ SkipBits(n)
        PROVE  BitInv' /\ StreamStep
    BY <2>4, SkipBitsStep
  <2>5. ASSUME NEW n \in Widths, InitAtBit(n)
        PROVE  BitInv' /\ StreamStep
    BY <2>5, InitAtBitStep
  <2>6. CASE Reading /\ ZeroPadToByte
    BY <2>6, PadStep
  <2> QED
    BY <1>1, <2>1, <2>2, <2>3, <2>4, <2>5, <2>6 DEF BitNext
<1>2. CASE UNCHANGED bitVars
  <2>1. BitInv'
    BY <1>2 DEF bitVars, BitInv, Sound, Typed, InPlace, At, Positions
  <2>2. UNCHANGED Stream!vars
    BY <1>2 DEF bitVars, Stream!vars
  <2> QED
    BY <2>1, <2>2 DEF StreamStep
<1> QED
  BY <1>1, <1>2

LEMMA BitStart ==
  ASSUME BitInit
  PROVE  BitInv /\ Stream!Init
<1>1. len \in Nat /\ len \in StreamLengths
  BY StreamAssumption DEF BitInit
<1>2. bs = Fresh /\ Sound(Fresh) /\ At(Fresh) = 0 /\ Fresh.num = 0
  BY <1>1, FreshSound DEF BitInit
<1>3. BitInv
  BY <1>1, <1>2 DEF BitInv, BitInit
<1>4. 8 * len \in Nat /\ (8 * len) % 8 = 0
  BY <1>1
<1>5. Stream!Init
  BY <1>2, <1>4 DEF BitInit, Stream!Init, Stream!NoValue, NoValue
<1> QED
  BY <1>3, <1>5

LEMMA InvMeans ==
  ASSUME BitInv
  PROVE  BitTypeOK /\ BufferExact /\ PositionExact
<1>1. BitTypeOK
  BY InvFacts DEF BitInv, Sound, Typed, Positions, BitTypeOK
<1>2. BufferExact
  BY InvFacts DEF Sound, InPlace, At, BufferExact, NextBit
<1>3. PositionExact
  BY InvFacts DEF At, PositionExact, NextBit
<1> QED
  BY <1>1, <1>2, <1>3

-----------------------------------------------------------------------------
(* The theorems *)

LEMMA BitInvariance == BitSpec => []BitInv
<1>1. BitInit => BitInv
  BY BitStart
<1>2. BitInv /\ [BitNext]_bitVars => BitInv'
  BY BitStep
<1> QED
  BY <1>1, <1>2, PTL DEF BitSpec

\* The reader's state is well formed: it never takes a byte behind the end, and
\* never buffers 64 bits, of which a shift could drop none.
THEOREM BitTypeCorrect == BitSpec => []BitTypeOK
<1>1. BitInv => BitTypeOK
  BY InvMeans
<1> QED
  BY <1>1, BitInvariance, PTL

\* Whatever refills, reads and skips come, the buffer holds the bits of the
\* stream that belong there, although bits are OR'd in twice.
THEOREM BufferStaysExact == BitSpec => []BufferExact
<1>1. BitInv => BufferExact
  BY InvMeans
<1> QED
  BY <1>1, BitInvariance, PTL

\* Until a skip beyond the end, num_read_bits is where the next bit is read.
THEOREM PositionStaysExact == BitSpec => []PositionExact
<1>1. BitInv => PositionExact
  BY InvMeans
<1> QED
  BY <1>1, BitInvariance, PTL

\* jxl_bs is the abstract reader: all bits in order, none twice or left out, EOF
\* exactly at the end, zeros behind it for a look ahead.
THEOREM ReaderImplementsStream == BitSpec => ImplementsStream
<1>1. BitInit => Stream!Init
  BY BitStart
<1>2. BitInv /\ [BitNext]_bitVars => [Stream!Next]_(Stream!vars)
  BY BitStep DEF StreamStep
<1> QED
  BY <1>1, <1>2, BitInvariance, PTL DEF BitSpec, ImplementsStream, Stream!Spec

-----------------------------------------------------------------------------
(* The bit writer *)

\* Where the writing of the i-th of the allotments a itself has come to: the
\* next one was opened there, or it is the current one.
Upto(a, bits, i) == IF i = Len(a) THEN bits ELSE a[i + 1].prev

\* The allotments are charged for what they wrote themselves, no more than they
\* asked for; open is the sum it says.
Charged(a, bits) ==
  \A i \in 1 .. Len(a) :
    /\ a[i].prev <= Upto(a, bits, i) /\ Upto(a, bits, i) <= a[i].prev + a[i].max
    /\ Upto(a, bits, i) <= a[1].prev + a[i].open
    /\ a[i].open = a[i].max + IF i = 1 THEN 0 ELSE a[i - 1].open

\* The bit up to which the open allotments may write.
Limit(a, bits) == IF Len(a) = 0 THEN bits ELSE a[1].prev + a[Len(a)].open

WInv ==
  /\ WriterTypeOK /\ WriterExact
  /\ Charged(allotment, bits_written)
  /\ Limit(allotment, bits_written) <= 8 * store.size

Level == [prev : Nat, max : Nat \ {0}, open : Nat]
Levels == Seq(Level)

-----------------------------------------------------------------------------
(* Arithmetic *)

LEMMA ByteOf ==
  ASSUME NEW n \in Nat
  PROVE  /\ n \div 8 \in Nat /\ 8 * (n \div 8) <= n /\ n < 8 * (n \div 8) + 8
         /\ CeilBytes(n) \in Nat /\ n <= 8 * CeilBytes(n) /\ 8 * CeilBytes(n) < n + 8
BY DEF CeilBytes

\* A capacity that is asked for, grown by half and never small.
LEMMA GrownEnough ==
  ASSUME NEW size \in Nat, store.capacity \in Nat
  PROVE  Grown(size) \in Nat \ {0} /\ size <= Grown(size) /\ store.capacity <= Grown(size)
<1>1. store.capacity \div 2 \in Nat
  OBVIOUS
<1>2. ASSUME NEW half \in Nat, NEW c, c = Larger(MinCapacity, Larger(size, store.capacity + half))
      PROVE  c \in Nat \ {0} /\ size <= c /\ store.capacity <= c
  <2>1. MinCapacity \in Nat \ {0}
    BY WriterAssumption DEF WriterAssumption
  <2> QED
    BY <1>2, <2>1 DEF Larger
<1> QED
  BY <1>1, <1>2 DEF Grown

-----------------------------------------------------------------------------
(* The storage *)

Allocated(s) == 
  DOMAIN s.mem = IF s.capacity = 0 THEN {} ELSE 0 .. 8 * (s.capacity + 8) - 1
Exact(mem, n) ==
  \A k \in 0 .. 8 * (n \div 8) + 7 : mem[k] = IF k < n THEN {k} ELSE {}

LEMMA StorageFields ==
  ASSUME NEW a, NEW b, NEW c
  PROVE  Storage(a, b, c).size = a /\ Storage(a, b, c).capacity = b /\ Storage(a, b, c).mem = c
BY DEF Storage

\* A reallocation keeps what was written and zeroes the byte behind it.
LEMMA MovedExact ==
  ASSUME WriterTypeOK, WriterExact, bits_written <= 8 * store.size,
         NEW c \in Nat \ {0}, store.size <= c
  PROVE  /\ Moved(c) = Storage(store.size, c, Moved(c).mem)
         /\ Allocated(Moved(c)) /\ Exact(Moved(c).mem, bits_written)
<1> DEFINE q == bits_written \div 8
           m == [k \in 0 .. 8 * (c + 8) - 1 |->
                   IF k < 8 * store.size THEN store.mem[k]
                   ELSE IF k < 8 * (store.size + 1) THEN {} ELSE Junk]
<1>t. bits_written \in Nat /\ store.size \in Nat /\ store.capacity \in Nat
      /\ store.size <= store.capacity
  BY DEF WriterTypeOK
<1>q. q \in Nat /\ 8 * q <= bits_written /\ bits_written < 8 * q + 8
  BY <1>t, ByteOf
<1>m. Moved(c) = Storage(store.size, c, m)
  BY DEF Moved
<1>f. Moved(c).size = store.size /\ Moved(c).capacity = c /\ Moved(c).mem = m
  BY <1>m, StorageFields
<1>1. Allocated(Moved(c))
  BY <1>f DEF Allocated
<1>d. 8 * q + 7 <= 8 * (c + 8) - 1
  <2> HIDE DEF q
  <2> QED
    BY <1>q, <1>t
<1>2. ASSUME NEW k \in 0 .. 8 * q + 7
      PROVE  m[k] = IF k < bits_written THEN {k} ELSE {}
  <2>0. k \in 0 .. 8 * (c + 8) - 1
    <3> HIDE DEF q
    <3> QED
      BY <1>2, <1>d, <1>q
  <2>1. CASE k < 8 * store.size
    <3>1. store.capacity > 0
      BY <2>1, <1>t
    <3>2. store.mem[k] = IF k < bits_written THEN {k} ELSE {}
      BY <3>1, <1>2 DEF WriterExact
    <3> QED
      BY <3>2, <2>1, <1>2, <2>0
  <2>2. CASE ~(k < 8 * store.size)
    <3> HIDE DEF q
    <3>1. k < 8 * (store.size + 1) /\ ~(k < bits_written)
      BY <2>2, <1>q, <1>t
    <3> QED
      BY <3>1, <2>2, <1>2, <2>0
  <2> QED
    BY <2>1, <2>2
<1>3. Exact(Moved(c).mem, bits_written)
  BY <1>2, <1>f DEF Exact
<1> QED
  BY <1>1, <1>3, <1>m, <1>f

\* Any resize that leaves room for what was written keeps it.
LEMMA ResizedExact ==
  ASSUME WriterTypeOK, WriterExact, bits_written <= 8 * store.size, NEW size \in Nat
  PROVE  LET r == Resized(size)
         IN  /\ r = Storage(size, r.capacity, r.mem) /\ r.size = size
             /\ r.capacity \in Nat /\ size <= r.capacity /\ Allocated(r)
             /\ r.capacity > 0 => Exact(r.mem, bits_written)
<1> DEFINE v == Reserved(size)
           r == Resized(size)
<1>t. bits_written \in Nat /\ store.size \in Nat /\ store.capacity \in Nat
      /\ store.size <= store.capacity
  BY DEF WriterTypeOK
<1>u. Allocated(store) /\ (store.capacity > 0 => Exact(store.mem, bits_written))
  BY DEF WriterTypeOK, WriterExact, Allocated, Exact
<1>1. /\ v.capacity \in Nat /\ size <= v.capacity /\ Allocated(v)
      /\ (v.capacity > 0 => Exact(v.mem, bits_written))
  <2>1. CASE size <= store.capacity
    <3>1. v = store
      BY <2>1 DEF Reserved
    <3> HIDE DEF v, r
    <3>2. v.capacity \in Nat /\ size <= v.capacity
      BY <2>1, <3>1, <1>t
    <3> QED
      BY <3>1, <3>2, <1>u
  <2>2. CASE ~(size <= store.capacity)
    <3> DEFINE c == Grown(size)
    <3>0. c \in Nat \ {0} /\ size <= c /\ store.capacity <= c
      BY <1>t, GrownEnough
    <3>2. v = Moved(c)
      BY <2>2 DEF Reserved
    <3> HIDE DEF c, v
    <3>1. store.size <= c
      BY <3>0, <1>t
    <3>3. /\ v = Storage(store.size, c, v.mem)
          /\ Allocated(v) /\ Exact(v.mem, bits_written)
      BY <3>0, <3>1, <3>2, <1>t, MovedExact
    <3>4. v.capacity = c
      BY <3>3, StorageFields
    <3> QED
      BY <3>0, <3>3, <3>4
  <2> QED
    BY <2>1, <2>2
<1>2. r = Storage(size, v.capacity, v.mem)
  BY DEF Resized
<1> HIDE DEF v, r
<1>3. r.size = size /\ r.capacity = v.capacity /\ r.mem = v.mem
  BY <1>2, StorageFields
<1>4. Allocated(r) /\ r = Storage(size, r.capacity, r.mem)
  BY <1>1, <1>2, <1>3 DEF Allocated
<1> QED
  BY <1>1, <1>3, <1>4 DEF r

\* A store of up to 56 bits writes them and leaves the byte behind them zero.
LEMMA StoredExact ==
  ASSUME WriterTypeOK, WriterExact, store.capacity > 0,
         bits_written <= 8 * store.capacity, NEW n \in 0 .. MaxBitsPerCall
  PROVE  /\ DOMAIN Stored(n) = DOMAIN store.mem
         /\ Exact(Stored(n), bits_written + n)
<1> DEFINE q == bits_written \div 8
           p == (bits_written + n) \div 8
<1>t. bits_written \in Nat /\ store.capacity \in Nat /\ n \in Nat /\ n <= 56
      /\ DOMAIN store.mem = 0 .. 8 * (store.capacity + 8) - 1
  BY DEF WriterTypeOK, MaxBitsPerCall
<1>q. q \in Nat /\ 8 * q <= bits_written /\ bits_written < 8 * q + 8
  BY <1>t, ByteOf
<1>p. p \in Nat /\ 8 * p <= bits_written + n /\ bits_written + n < 8 * p + 8
  <2>1. bits_written + n \in Nat
    BY <1>t
  <2> QED
    BY <2>1, ByteOf
<1>x. \A k \in 0 .. 8 * q + 7 : store.mem[k] = IF k < bits_written THEN {k} ELSE {}
  BY DEF WriterExact
<1>s. Stored(n) =
      [k \in DOMAIN store.mem |->
         IF k \in 8 * q .. 8 * q + 7
         THEN store.mem[k] \cup IF k \in bits_written .. bits_written + n - 1 THEN {k} ELSE {}
         ELSE IF k \in 8 * q + 8 .. 8 * q + 63
         THEN IF k \in bits_written .. bits_written + n - 1 THEN {k} ELSE {}
         ELSE store.mem[k]]
  BY DEF Stored
<1> HIDE DEF q, p
<1>1. ASSUME NEW k \in 0 .. 8 * p + 7
      PROVE  Stored(n)[k] = IF k < bits_written + n THEN {k} ELSE {}
  <2>0. k \in DOMAIN store.mem /\ k \in Nat /\ k <= 8 * q + 63
    BY <1>1, <1>t, <1>q, <1>p
  <2>1. CASE k < 8 * q
    <3>1. store.mem[k] = {k} /\ k < bits_written + n
      <4>1. k \in 0 .. 8 * q + 7 /\ k < bits_written /\ k < bits_written + n
        BY <2>1, <2>0, <1>q, <1>t
      <4> QED
        BY <4>1, <1>x
    <3>2. ~(k \in 8 * q .. 8 * q + 7) /\ ~(k \in 8 * q + 8 .. 8 * q + 63)
      BY <2>1, <2>0, <1>q
    <3> QED
      BY <3>1, <3>2, <2>0, <1>s
  <2>2. CASE k \in 8 * q .. 8 * q + 7
    <3>1. store.mem[k] = IF k < bits_written THEN {k} ELSE {}
      <4>1. k \in 0 .. 8 * q + 7
        BY <2>2, <2>0, <1>q
      <4> QED
        BY <4>1, <1>x
    <3>2. Stored(n)[k] = store.mem[k] \cup
                          IF k \in bits_written .. bits_written + n - 1 THEN {k} ELSE {}
      BY <2>2, <2>0, <1>s
    <3>3. CASE k < bits_written
      BY <3>1, <3>2, <3>3, <1>t, <2>0
    <3>4. CASE ~(k < bits_written)
      <4>1. k \in bits_written .. bits_written + n - 1 <=> k < bits_written + n
        BY <3>4, <1>t, <2>0
      <4> QED
        BY <3>1, <3>2, <3>4, <4>1
    <3> QED
      BY <3>3, <3>4
  <2>3. CASE k \in 8 * q + 8 .. 8 * q + 63
    <3>1. ~(k \in 8 * q .. 8 * q + 7) /\ ~(k < bits_written)
      BY <2>3, <2>0, <1>q, <1>t
    <3>2. Stored(n)[k] = IF k \in bits_written .. bits_written + n - 1 THEN {k} ELSE {}
      BY <2>3, <2>0, <1>s, <3>1
    <3>3. k \in bits_written .. bits_written + n - 1 <=> k < bits_written + n
      BY <3>1, <1>t, <2>0
    <3> QED
      BY <3>2, <3>3
  <2> QED
    BY <2>0, <2>1, <2>2, <2>3, <1>q
<1>2. DOMAIN Stored(n) = DOMAIN store.mem
  BY <1>s
<1> QED
  BY <1>1, <1>2 DEF Exact, p

LEMMA ElementIn ==
  ASSUME NEW S, NEW s \in Seq(S), NEW i \in 1 .. Len(s)
  PROVE  s[i] \in S
OBVIOUS

LEMMA AppendIn ==
  ASSUME NEW S, NEW s \in Seq(S), NEW x \in S, NEW t, t = Append(s, x)
  PROVE  /\ t \in Seq(S) /\ Len(t) = Len(s) + 1 /\ t[Len(s) + 1] = x
         /\ \A i \in 1 .. Len(s) : t[i] = s[i]
OBVIOUS

-----------------------------------------------------------------------------
(* The allotments *)

LEMMA Fields ==
  ASSUME NEW a \in Levels, NEW i \in 1 .. Len(a)
  PROVE  a[i].prev \in Nat /\ a[i].max \in Nat \ {0} /\ a[i].open \in Nat
<1>1. a[i] \in Level
  BY ElementIn DEF Levels
<1> QED
  BY <1>1 DEF Level

LEMMA UptoNat ==
  ASSUME NEW a \in Levels, NEW bits \in Nat, NEW i \in 1 .. Len(a)
  PROVE  Upto(a, bits, i) \in Nat
<1>1. Len(a) \in Nat
  BY DEF Levels
<1>2. i # Len(a) => i + 1 \in 1 .. Len(a)
  BY <1>1
<1> QED
  BY <1>2, Fields DEF Upto

Pushed(a, bits, max, open) == Append(a, [prev |-> bits, max |-> max, open |-> open + max])

\* A new allotment starts where its parent has come to.
LEMMA AllotCharged ==
  ASSUME NEW a \in Levels, NEW bits \in Nat, Charged(a, bits), NEW max \in Nat \ {0},
         NEW open \in Nat, open = IF Len(a) = 0 THEN 0 ELSE a[Len(a)].open,
         NEW b, b = Pushed(a, bits, max, open)
  PROVE  b \in Levels /\ Charged(b, bits) /\ Limit(b, bits) = Limit(a, bits) + max
<1> DEFINE n == Len(a)
           e == [prev |-> bits, max |-> max, open |-> open + max]
<1>n. n \in Nat
  BY DEF Levels
<1>e. e \in Level /\ e.prev = bits /\ e.max = max /\ e.open = open + max
  BY DEF Level
<1>b. /\ b \in Levels /\ Len(b) = n + 1 /\ b[n + 1] = e
      /\ \A i \in 1 .. n : b[i] = a[i]
  <2> HIDE DEF e
  <2>1. b = Append(a, e)
    BY DEF e, Pushed
  <2> QED
    BY <2>1, <1>e, AppendIn DEF Levels
<1>s. \A i \in 1 .. n :
        /\ a[i].prev <= Upto(a, bits, i) /\ Upto(a, bits, i) <= a[i].prev + a[i].max
        /\ Upto(a, bits, i) <= a[1].prev + a[i].open
        /\ a[i].open = a[i].max + IF i = 1 THEN 0 ELSE a[i - 1].open
  BY DEF Charged
<1>u. n \in 1 .. n => Upto(a, bits, n) = bits
  BY DEF Upto
<1>o. open = IF n = 0 THEN 0 ELSE a[n].open
  OBVIOUS
<1>v. \A i \in 1 .. n : Upto(b, bits, i) = Upto(a, bits, i)
  <2> SUFFICES ASSUME NEW i \in 1 .. n
               PROVE  Upto(b, bits, i) = Upto(a, bits, i)
    OBVIOUS
  <2>1. Upto(b, bits, i) = b[i + 1].prev
    BY <1>b, <1>n DEF Upto
  <2> HIDE DEF e
  <2>2. CASE i = n
    BY <2>1, <2>2, <1>b, <1>e, <1>u
  <2>3. CASE i # n
    <3>1. i + 1 \in 1 .. n
      BY <2>3, <1>n
    <3> QED
      BY <2>1, <2>3, <3>1, <1>b DEF Upto
  <2> QED
    BY <2>2, <2>3
<1>w. Upto(b, bits, n + 1) = bits
  BY <1>b DEF Upto
<1>h. b[1].prev = IF n = 0 THEN bits ELSE a[1].prev
  <2> HIDE DEF e
  <2>1. n # 0 => 1 \in 1 .. n
    BY <1>n
  <2> QED
    BY <2>1, <1>b, <1>e
<1>a. n # 0 => n \in 1 .. n /\ 1 \in 1 .. n /\ a[1].prev \in Nat /\ a[n].open \in Nat
  BY <1>n, Fields
<1> HIDE DEF n, e
<1>1. bits <= b[1].prev + open
  BY <1>h, <1>o, <1>s, <1>u, <1>a
<1>2. ASSUME NEW i \in 1 .. n + 1
      PROVE  /\ b[i].prev <= Upto(b, bits, i) /\ Upto(b, bits, i) <= b[i].prev + b[i].max
             /\ Upto(b, bits, i) <= b[1].prev + b[i].open
             /\ b[i].open = b[i].max + IF i = 1 THEN 0 ELSE b[i - 1].open
  <2>1. CASE i = n + 1
    <3>1. open = IF i = 1 THEN 0 ELSE b[i - 1].open
      <4>1. CASE n = 0
        BY <4>1, <2>1, <1>o
      <4>2. CASE n # 0
        <5>1. i # 1 /\ i - 1 = n /\ b[i - 1] = a[n]
          BY <4>2, <2>1, <1>n, <1>a, <1>b
        <5> QED
          BY <5>1, <4>2, <1>o
      <4> QED
        BY <4>1, <4>2
    <3>2. b[1].prev \in Nat
      BY <1>h, <1>a
    <3>3. /\ e.prev <= bits /\ bits <= e.prev + e.max
          /\ bits <= b[1].prev + e.open /\ e.open = e.max + open
      BY <1>1, <3>2, <1>e
    <3> QED
      BY <2>1, <3>1, <3>3, <1>w, <1>b
  <2>2. CASE i \in 1 .. n
    <3>1. b[i] = a[i] /\ b[1].prev = a[1].prev /\ Upto(b, bits, i) = Upto(a, bits, i)
      BY <2>2, <1>v, <1>b, <1>h, <1>n
    <3>2. i # 1 => b[i - 1] = a[i - 1]
      <4>1. i # 1 => i - 1 \in 1 .. n
        BY <2>2, <1>n
      <4> QED
        BY <4>1, <1>b
    <3> QED
      BY <2>2, <3>1, <3>2, <1>s
  <2>3. i = n + 1 \/ i \in 1 .. n
    BY <1>n
  <2> QED
    BY <2>1, <2>2, <2>3
<1>3. Charged(b, bits)
  BY <1>2, <1>b DEF Charged
<1>4. Limit(b, bits) = Limit(a, bits) + max
  <2>1. Limit(b, bits) = b[1].prev + e.open
    BY <1>b, <1>n DEF Limit
  <2>2. Limit(a, bits) = b[1].prev + open
    BY <1>h, <1>o, <1>a DEF Limit, n
  <2>3. b[1].prev \in Nat
    BY <1>h, <1>a
  <2> QED
    BY <2>1, <2>2, <2>3, <1>e
<1> QED
  BY <1>b, <1>3, <1>4

\* What the current one writes is charged to it.
LEMMA WriteCharged ==
  ASSUME NEW a \in Levels, NEW bits \in Nat, Charged(a, bits), Len(a) # 0,
         NEW k \in Nat, k <= a[Len(a)].max - (bits - a[Len(a)].prev)
  PROVE  Charged(a, bits + k) /\ Limit(a, bits + k) = Limit(a, bits)
<1> DEFINE n == Len(a)
<1>n. n \in Nat /\ n \in 1 .. n
  BY DEF Levels
<1>s. \A i \in 1 .. n :
        /\ a[i].prev <= Upto(a, bits, i) /\ Upto(a, bits, i) <= a[i].prev + a[i].max
        /\ Upto(a, bits, i) <= a[1].prev + a[i].open
        /\ a[i].open = a[i].max + IF i = 1 THEN 0 ELSE a[i - 1].open
  BY DEF Charged
<1>f. \A i \in 1 .. n : a[i].prev \in Nat /\ a[i].max \in Nat /\ a[i].open \in Nat
  BY Fields
<1>u. Upto(a, bits, n) = bits /\ Upto(a, bits + k, n) = bits + k
  BY DEF Upto
<1>v. \A i \in 1 .. n : i # n => Upto(a, bits + k, i) = Upto(a, bits, i)
  BY DEF Upto
<1>k. k <= a[n].max - (bits - a[n].prev)
  OBVIOUS
<1> HIDE DEF n
<1>1. bits + k <= a[n].prev + a[n].max /\ a[n].prev <= bits + k
  BY <1>k, <1>f, <1>n, <1>s, <1>u
<1>2. bits + k <= a[1].prev + a[n].open
  <2>1. CASE n = 1
    BY <2>1, <1>1, <1>s, <1>n, <1>f
  <2>2. CASE n # 1
    <3>1. n - 1 \in 1 .. n /\ 1 \in 1 .. n
      BY <2>2, <1>n
    <3>2. Upto(a, bits, n - 1) = a[n].prev
      BY <3>1, <1>n DEF Upto, n
    <3>3. a[n].prev <= a[1].prev + a[n - 1].open
      BY <3>1, <3>2, <1>s
    <3>4. a[n].open = a[n].max + a[n - 1].open
      BY <2>2, <1>n, <1>s
    <3>5. /\ a[n].prev \in Nat /\ a[n].max \in Nat /\ a[1].prev \in Nat
          /\ a[n - 1].open \in Nat
      BY <3>1, <1>f, <1>n
    <3> DEFINE p == a[n].prev
               x == a[n].max
               q == a[1].prev
               o == a[n - 1].open
               y == a[n].open
    <3>6. /\ p \in Nat /\ x \in Nat /\ q \in Nat /\ o \in Nat /\ y = x + o
          /\ bits + k <= p + x /\ p <= q + o
      BY <1>1, <3>3, <3>4, <3>5
    <3> HIDE DEF p, x, q, o, y
    <3>7. bits + k <= q + y
      BY <3>6
    <3> QED
      BY <3>7 DEF q, y
  <2> QED
    BY <2>1, <2>2
<1>3. ASSUME NEW i \in 1 .. n
      PROVE  /\ a[i].prev <= Upto(a, bits + k, i)
             /\ Upto(a, bits + k, i) <= a[i].prev + a[i].max
             /\ Upto(a, bits + k, i) <= a[1].prev + a[i].open
             /\ a[i].open = a[i].max + IF i = 1 THEN 0 ELSE a[i - 1].open
  <2>1. CASE i = n
    BY <2>1, <1>1, <1>2, <1>u, <1>s
  <2>2. CASE i # n
    BY <2>2, <1>v, <1>s
  <2> QED
    BY <2>1, <2>2
<1>4. Charged(a, bits + k)
  BY <1>3 DEF Charged, n
<1> QED
  BY <1>4 DEF Limit

\* Closing the current one: what it used is taken off the others, so that none
\* of them is charged for it, and the limit moves down by what it left over.
LEMMA ReclaimCharged ==
  ASSUME NEW a \in Levels, NEW bits \in Nat, Charged(a, bits), Len(a) # 0,
         NEW used \in Nat, bits = a[Len(a)].prev + used, NEW b,
         b = [i \in 1 .. Len(a) - 1 |->
                [prev |-> a[i].prev + used, max |-> a[i].max, open |-> a[i].open]]
  PROVE  /\ b \in Levels /\ Charged(b, bits)
         /\ Limit(b, bits) <= Limit(a, bits) - (a[Len(a)].max - used)
<1> DEFINE n == Len(a)
<1>n. n \in Nat /\ n \in 1 .. n /\ n - 1 \in Nat
  BY DEF Levels
<1>s. \A i \in 1 .. n :
        /\ a[i].prev <= Upto(a, bits, i) /\ Upto(a, bits, i) <= a[i].prev + a[i].max
        /\ Upto(a, bits, i) <= a[1].prev + a[i].open
        /\ a[i].open = a[i].max + IF i = 1 THEN 0 ELSE a[i - 1].open
  BY DEF Charged
<1>f. \A i \in 1 .. n : /\ a[i].prev \in Nat /\ a[i].max \in Nat \ {0} /\ a[i].open \in Nat
                        /\ Upto(a, bits, i) \in Nat
  BY Fields, UptoNat
<1>b. \A i \in 1 .. n - 1 : b[i].prev = a[i].prev + used /\ b[i].max = a[i].max
                            /\ b[i].open = a[i].open
  OBVIOUS
<1>l. b \in Levels /\ Len(b) = n - 1
  <2>1. \A i \in 1 .. n - 1 :
          [prev |-> a[i].prev + used, max |-> a[i].max, open |-> a[i].open]
          \in Level
    BY <1>f, <1>n DEF Level
  <2>2. b \in [1 .. n - 1 -> Level]
    BY <2>1
  <2> HIDE DEF n
  <2> QED
    BY <2>2, <1>n DEF Levels
<1>p. bits = a[n].prev + used
  OBVIOUS
<1>u. Upto(a, bits, n) = bits
  BY DEF Upto
<1>v. \A i \in 1 .. n - 1 : Upto(b, bits, i) = Upto(a, bits, i) + used
  <2> SUFFICES ASSUME NEW i \in 1 .. n - 1
               PROVE  Upto(b, bits, i) = Upto(a, bits, i) + used
    OBVIOUS
  <2>1. Upto(a, bits, i) = a[i + 1].prev
    BY <1>n DEF Upto
  <2>2. CASE i = n - 1
    <3>1. Upto(b, bits, i) = bits
      BY <2>2, <1>l DEF Upto
    <3>2. i + 1 = n
      BY <2>2, <1>n
    <3> QED
      BY <3>1, <3>2, <2>1, <1>p
  <2>3. CASE i # n - 1
    <3>1. Upto(b, bits, i) = b[i + 1].prev
      BY <2>3, <1>l DEF Upto
    <3>2. i + 1 \in 1 .. n - 1
      BY <2>3, <1>n
    <3> QED
      BY <3>1, <3>2, <2>1, <1>b
  <2> QED
    BY <2>2, <2>3
<1> HIDE DEF n
<1>1. ASSUME NEW i \in 1 .. n - 1
      PROVE  /\ b[i].prev <= Upto(b, bits, i) /\ Upto(b, bits, i) <= b[i].prev + b[i].max
             /\ Upto(b, bits, i) <= b[1].prev + b[i].open
             /\ b[i].open = b[i].max + IF i = 1 THEN 0 ELSE b[i - 1].open
  <2>1. i \in 1 .. n /\ 1 \in 1 .. n - 1 /\ 1 \in 1 .. n
    BY <1>n
  <2>2. i # 1 => i - 1 \in 1 .. n - 1
    BY <1>n
  <2>t. /\ a[i].prev \in Nat /\ a[i].max \in Nat /\ a[i].open \in Nat
        /\ Upto(a, bits, i) \in Nat /\ a[1].prev \in Nat
    BY <2>1, <1>f
  <2>e. /\ b[i].prev = a[i].prev + used /\ b[i].max = a[i].max /\ b[i].open = a[i].open
        /\ b[1].prev = a[1].prev + used /\ Upto(b, bits, i) = Upto(a, bits, i) + used
    BY <2>1, <1>b, <1>v
  <2>l. /\ a[i].prev <= Upto(a, bits, i) /\ Upto(a, bits, i) <= a[i].prev + a[i].max
        /\ Upto(a, bits, i) <= a[1].prev + a[i].open
    BY <2>1, <1>s
  <2> DEFINE p == a[i].prev
             x == a[i].max
             o == a[i].open
             q == a[1].prev
             t == Upto(a, bits, i)
  <2>a. /\ p \in Nat /\ x \in Nat /\ o \in Nat /\ q \in Nat /\ t \in Nat
        /\ p <= t /\ t <= p + x /\ t <= q + o
    BY <2>t, <2>l
  <2>m. /\ b[i].prev = p + used /\ b[i].max = x /\ b[i].open = o
        /\ b[1].prev = q + used /\ Upto(b, bits, i) = t + used
    BY <2>e
  <2> HIDE DEF p, x, o, q, t
  <2>c. p + used <= t + used /\ t + used <= (p + used) + x /\ t + used <= (q + used) + o
    BY <2>a
  <2>3. b[i].prev <= Upto(b, bits, i) /\ Upto(b, bits, i) <= b[i].prev + b[i].max
    BY <2>c, <2>m
  <2>4. Upto(b, bits, i) <= b[1].prev + b[i].open
    BY <2>c, <2>m
  <2>5. b[i].open = b[i].max + IF i = 1 THEN 0 ELSE b[i - 1].open
    BY <2>1, <2>2, <1>b, <1>s
  <2> QED
    BY <2>3, <2>4, <2>5
<1>2. Charged(b, bits)
  BY <1>1, <1>l DEF Charged
<1>3. Limit(b, bits) <= Limit(a, bits) - (a[n].max - used)
  <2>1. Limit(a, bits) = a[1].prev + a[n].open
    BY <1>n DEF Limit, n
  <2>2. CASE n = 1
    <3>1. Limit(b, bits) = bits
      BY <2>2, <1>l DEF Limit
    <3>2. a[1].prev \in Nat /\ a[1].max \in Nat
      BY <2>2, <1>f, <1>n
    <3>3. a[1].open = a[1].max + 0
      BY <2>2, <1>s, <1>n
    <3>4. bits = a[1].prev + used /\ Limit(a, bits) = a[1].prev + a[1].open
      BY <2>1, <2>2, <1>p
    <3> QED
      BY <2>2, <3>1, <3>2, <3>3, <3>4
  <2>3. CASE n # 1
    <3>1. n - 1 \in 1 .. n - 1 /\ 1 \in 1 .. n - 1 /\ n - 1 \in 1 .. n /\ 1 \in 1 .. n
          /\ n - 1 # 0
      BY <2>3, <1>n
    <3>2. Limit(b, bits) = a[1].prev + used + a[n - 1].open
      BY <3>1, <1>l, <1>b DEF Limit
    <3>3. a[n].open = a[n].max + a[n - 1].open
      BY <2>3, <1>s, <1>n
    <3>4. a[1].prev \in Nat /\ a[n].max \in Nat /\ a[n - 1].open \in Nat
      BY <3>1, <1>f, <1>n
    <3> DEFINE q == a[1].prev
               x == a[n].max
               o == a[n - 1].open
    <3>5. /\ q \in Nat /\ x \in Nat /\ o \in Nat /\ Limit(a, bits) = q + (x + o)
          /\ Limit(b, bits) = q + used + o
      BY <2>1, <3>2, <3>3, <3>4
    <3> HIDE DEF q, x, o
    <3>6. Limit(b, bits) <= Limit(a, bits) - (x - used)
      BY <3>5
    <3> QED
      BY <3>6 DEF x
  <2> QED
    BY <2>2, <2>3
<1> QED
  BY <1>l, <1>2, <1>3 DEF n

-----------------------------------------------------------------------------
(* The steps *)

\* What the invariant says of the bits and the storage.
LEMMA Room ==
  ASSUME WInv
  PROVE  /\ bits_written \in Nat /\ store.size \in Nat /\ store.capacity \in Nat
         /\ store.size <= store.capacity /\ allotment \in Levels
         /\ Len(allotment) \in Nat /\ ((allotment = <<>>) <=> (Len(allotment) = 0))
         /\ Limit(allotment, bits_written) \in Nat
         /\ bits_written <= Limit(allotment, bits_written)
         /\ bits_written <= 8 * store.size
<1>1. /\ bits_written \in Nat /\ store.size \in Nat /\ store.capacity \in Nat
      /\ store.size <= store.capacity /\ allotment \in Levels
  BY DEF WInv, WriterTypeOK, Levels, Level
<1>2. Len(allotment) \in Nat /\ ((allotment = <<>>) <=> (Len(allotment) = 0))
  BY <1>1 DEF Levels
<1>3. /\ Limit(allotment, bits_written) \in Nat
      /\ bits_written <= Limit(allotment, bits_written)
  <2>1. CASE Len(allotment) = 0
    BY <2>1, <1>1 DEF Limit
  <2>2. CASE Len(allotment) # 0
    <3>1. 1 \in 1 .. Len(allotment) /\ Len(allotment) \in 1 .. Len(allotment)
      BY <2>2, <1>2
    <3>2. bits_written <= allotment[1].prev + allotment[Len(allotment)].open
      BY <3>1 DEF WInv, Charged, Upto
    <3>3. allotment[1].prev \in Nat /\ allotment[Len(allotment)].open \in Nat
      BY <1>1, <3>1, Fields
    <3> QED
      BY <2>2, <3>2, <3>3 DEF Limit
  <2> QED
    BY <2>1, <2>2
<1>4. bits_written <= 8 * store.size
  <2>1. Limit(allotment, bits_written) <= 8 * store.size
    BY DEF WInv
  <2> QED
    BY <2>1, <1>1, <1>3
<1> QED
  BY <1>1, <1>2, <1>3, <1>4

LEMMA StoreStep ==
  ASSUME NEW r, store' = r, r = Storage(r.size, r.capacity, r.mem),
         r.size \in Nat, r.capacity \in Nat, r.size <= r.capacity, Allocated(r),
         r.capacity > 0 => Exact(r.mem, bits_written'),
         bits_written' \in Nat, allotment' \in Levels
  PROVE  WriterTypeOK' /\ WriterExact'
BY DEF WriterTypeOK, WriterExact, Allocated, Exact, Levels, Level

LEMMA AllotStep ==
  ASSUME WInv, NEW max \in Budgets, Allot(max)
  PROVE  WInv'
<1> DEFINE r == Resized(store.size + CeilBytes(max))
           open == OpenBits
<1>1. max \in Nat \ {0} /\ CeilBytes(max) \in Nat /\ max <= 8 * CeilBytes(max)
  BY WriterAssumption, ByteOf DEF WriterAssumption
<1>2. store' = r /\ bits_written' = bits_written
      /\ allotment' = Append(allotment, [prev |-> bits_written, max |-> max, open |-> open + max])
  BY DEF Allot
<1>3. open \in Nat /\ open = IF Len(allotment) = 0 THEN 0 ELSE allotment[Len(allotment)].open
  <2>1. Len(allotment) # 0 => Len(allotment) \in 1 .. Len(allotment)
    BY Room
  <2> QED
    BY <2>1, Room, Fields DEF OpenBits, Current
<1>4. store.size + CeilBytes(max) \in Nat
  BY <1>1, Room
<1>5. /\ r = Storage(r.size, r.capacity, r.mem) /\ r.size = store.size + CeilBytes(max)
      /\ r.capacity \in Nat /\ r.size <= r.capacity /\ Allocated(r)
      /\ (r.capacity > 0 => Exact(r.mem, bits_written))
  BY <1>4, Room, ResizedExact DEF WInv
<1> HIDE DEF r, open
<1>6. /\ allotment' \in Levels /\ Charged(allotment', bits_written)
      /\ Limit(allotment', bits_written) = Limit(allotment, bits_written) + max
  <2>1. /\ allotment \in Levels /\ bits_written \in Nat /\ max \in Nat \ {0}
        /\ Charged(allotment, bits_written)
    BY <1>1, Room DEF WInv
  <2>2. allotment' = Pushed(allotment, bits_written, max, open)
    BY <1>2 DEF Pushed
  <2> QED
    BY <2>1, <2>2, <1>3, AllotCharged
<1>7. WriterTypeOK' /\ WriterExact'
  BY <1>2, <1>4, <1>5, <1>6, Room, StoreStep
<1>8. Limit(allotment', bits_written') <= 8 * (store').size
  <2>1. Limit(allotment, bits_written) <= 8 * store.size
    BY DEF WInv
  <2> QED
    BY <2>1, <1>1, <1>2, <1>5, <1>6, Room
<1> QED
  BY <1>2, <1>6, <1>7, <1>8 DEF WInv

\* The current allotment: what it has written and what it has left.
LEMMA Top ==
  ASSUME WInv, allotment # <<>>
  PROVE  /\ Len(allotment) # 0 /\ Current = allotment[Len(allotment)]
         /\ UsedBits \in Nat /\ Unspent \in Nat /\ UsedBits + Unspent = Current.max
         /\ bits_written = Current.prev + UsedBits
         /\ Current.prev \in Nat /\ Current.max \in Nat
<1>1. Len(allotment) # 0 /\ Len(allotment) \in 1 .. Len(allotment)
  BY Room
<1>2. Current = allotment[Len(allotment)]
  BY DEF Current
<1>3. Upto(allotment, bits_written, Len(allotment)) = bits_written
  BY DEF Upto
<1>4. Current.prev <= bits_written /\ bits_written <= Current.prev + Current.max
  BY <1>1, <1>2, <1>3 DEF WInv, Charged
<1>5. Current.prev \in Nat /\ Current.max \in Nat /\ bits_written \in Nat
  BY <1>1, <1>2, Room, Fields
<1> HIDE DEF Current
<1>6. UsedBits \in Nat /\ Unspent \in Nat
  BY <1>4, <1>5 DEF UsedBits, Unspent
<1>7. UsedBits + Unspent = Current.max /\ bits_written = Current.prev + UsedBits
  BY <1>4, <1>5 DEF UsedBits, Unspent
<1> QED
  BY <1>1, <1>2, <1>5, <1>6, <1>7

\* Bits that the current allotment, or the last byte in use, has room for.
LEMMA StoreBits ==
  ASSUME WInv, NEW n \in 0 .. MaxBitsPerCall, bits_written + n <= 8 * store.size,
         store.capacity > 0, allotment # <<>> => n <= Unspent,
         store' = Storage(store.size, store.capacity, Stored(n)),
         bits_written' = bits_written + n, allotment' = allotment
  PROVE  WInv'
<1> DEFINE r == Storage(store.size, store.capacity, Stored(n))
<1>n. n \in Nat
  BY DEF MaxBitsPerCall
<1>1. DOMAIN Stored(n) = DOMAIN store.mem /\ Exact(Stored(n), bits_written + n)
  <2>1. bits_written <= 8 * store.capacity
    BY Room
  <2> QED
    BY <2>1, StoredExact DEF WInv
<1>2. r.size = store.size /\ r.capacity = store.capacity /\ r.mem = Stored(n)
  BY StorageFields
<1>3. Allocated(r)
  BY <1>1, <1>2 DEF WInv, WriterTypeOK, Allocated
<1> HIDE DEF r
<1>4. WriterTypeOK' /\ WriterExact'
  <2>1. store' = r /\ r = Storage(r.size, r.capacity, r.mem)
    BY <1>2 DEF r
  <2>2. bits_written' \in Nat /\ Exact(r.mem, bits_written')
    BY <1>1, <1>2, <1>n, Room
  <2> QED
    BY <2>1, <2>2, <1>2, <1>3, Room, StoreStep
<1>5. Charged(allotment', bits_written') /\ Limit(allotment', bits_written') <= 8 * (store').size
  <2>0. (store').size = store.size
    BY <1>2 DEF r
  <2>1. CASE allotment = <<>>
    BY <2>0, <2>1 DEF Charged, Limit
  <2>2. CASE allotment # <<>>
    <3>1. n <= Current.max - (bits_written - Current.prev)
      BY <2>2 DEF Unspent, UsedBits
    <3>2. /\ Charged(allotment, bits_written + n)
          /\ Limit(allotment, bits_written + n) = Limit(allotment, bits_written)
      BY <2>2, <3>1, <1>n, Room, Top, WriteCharged DEF WInv
    <3> QED
      BY <2>0, <3>2 DEF WInv
  <2> QED
    BY <2>1, <2>2
<1> QED
  BY <1>4, <1>5 DEF WInv

LEMMA WriteStep ==
  ASSUME WInv, NEW n \in Sizes, Write(n)
  PROVE  WInv'
<1>1. n \in 0 .. MaxBitsPerCall /\ n \in Nat
  BY WriterAssumption DEF WriterAssumption, Write, MaxBitsPerCall
<1>2. /\ allotment # <<>> /\ n <= Unspent /\ bits_written' = bits_written + n
      /\ store' = Storage(store.size, store.capacity, Stored(n)) /\ allotment' = allotment
  BY DEF Write
<1>3. bits_written + n <= Limit(allotment, bits_written)
  <2>1. n <= Current.max - (bits_written - Current.prev)
    BY <1>2 DEF Unspent, UsedBits
  <2>2. /\ Charged(allotment, bits_written + n)
        /\ Limit(allotment, bits_written + n) = Limit(allotment, bits_written)
    BY <1>1, <1>2, <2>1, Room, Top, WriteCharged DEF WInv
  <2>3. Len(allotment) \in 1 .. Len(allotment) /\ Len(allotment) # 0
    BY <1>2, Room
  <2>4. bits_written + n <= allotment[1].prev + allotment[Len(allotment)].open
    BY <2>2, <2>3 DEF Charged, Upto
  <2> QED
    BY <2>3, <2>4 DEF Limit
<1>4. bits_written + n <= 8 * store.size /\ store.capacity > 0
  <2>1. Limit(allotment, bits_written) <= 8 * store.size
    BY DEF WInv
  <2>2. Current.max \in Nat \ {0}
    BY <1>2, Room, Top, Fields
  <2>3. bits_written + n <= 8 * store.size
    BY <1>1, <1>3, <2>1, Room
  <2>4. store.size > 0
    <3>1. Len(allotment) \in 1 .. Len(allotment) /\ 1 \in 1 .. Len(allotment)
      BY <1>2, Room
    <3>2. /\ allotment[Len(allotment)].open \in Nat /\ allotment[1].prev \in Nat
          /\ allotment[Len(allotment)].max \in Nat \ {0}
      BY <3>1, Room, Fields
    <3>3. allotment[Len(allotment)].open >= allotment[Len(allotment)].max
      <4>1. allotment[Len(allotment)].open = allotment[Len(allotment)].max
              + IF Len(allotment) = 1 THEN 0 ELSE allotment[Len(allotment) - 1].open
        BY <3>1 DEF WInv, Charged
      <4>2. CASE Len(allotment) = 1
        BY <4>1, <4>2, <3>2
      <4>3. CASE Len(allotment) # 1
        <5>1. Len(allotment) - 1 \in 1 .. Len(allotment)
          <6> DEFINE d == Len(allotment)
          <6>1. d \in Nat /\ d # 1 /\ d # 0
            BY <3>1, <4>3, Room
          <6> HIDE DEF d
          <6>2. d - 1 \in 1 .. d
            BY <6>1
          <6> QED
            BY <6>2 DEF d
        <5>2. allotment[Len(allotment) - 1].open \in Nat
          BY <5>1, Room, Fields
        <5> QED
          BY <4>1, <4>3, <5>2, <3>2
      <4> QED
        BY <4>2, <4>3
    <3>4. Limit(allotment, bits_written) > 0
      <4>1. Limit(allotment, bits_written)
            = allotment[1].prev + allotment[Len(allotment)].open
        BY <3>1 DEF Limit
      <4> QED
        BY <4>1, <3>2, <3>3
    <3> QED
      BY <3>4, <2>1, Room
  <2> QED
    BY <2>3, <2>4, Room
<1> QED
  BY <1>1, <1>2, <1>4, StoreBits

LEMMA ReclaimStep ==
  ASSUME WInv, Reclaim
  PROVE  WInv'
<1> DEFINE u == UnusedBytes
           r == Resized(store.size - u)
           used == UsedBits
<1>1. allotment # <<>> /\ store' = r /\ bits_written' = bits_written
  BY DEF Reclaim
<1>2. /\ used \in Nat /\ Unspent \in Nat /\ used + Unspent = Current.max
      /\ bits_written = Current.prev + used /\ Len(allotment) # 0
      /\ Current = allotment[Len(allotment)] /\ Current.max \in Nat
  BY <1>1, Top
<1>3. u \in Nat /\ 8 * u <= Unspent
  BY <1>2, ByteOf DEF UnusedBytes
<1>4. allotment' = [i \in 1 .. Len(allotment) - 1 |->
                      [prev |-> allotment[i].prev + used, max |-> allotment[i].max,
                       open |-> allotment[i].open]]
  BY DEF Reclaim, Credit
<1> HIDE DEF u, r, used
<1>5. /\ allotment' \in Levels /\ Charged(allotment', bits_written)
      /\ Limit(allotment', bits_written)
         <= Limit(allotment, bits_written) - (allotment[Len(allotment)].max - used)
  <2>1. bits_written = allotment[Len(allotment)].prev + used
    BY <1>2
  <2> QED
    BY <2>1, <1>2, <1>4, Room, ReclaimCharged DEF WInv
<1>6. Limit(allotment', bits_written) + Unspent <= Limit(allotment, bits_written)
      /\ Limit(allotment', bits_written) \in Int
  <2>1. allotment[Len(allotment)].max - used = Unspent
    BY <1>2
  <2>2. Limit(allotment', bits_written) \in Int
    <3> DEFINE b == allotment'
    <3>1. b \in Levels
      BY <1>5
    <3> HIDE DEF b
    <3>2. Len(b) \in Nat
      BY <3>1 DEF Levels
    <3>3. Len(b) # 0 => 1 \in 1 .. Len(b) /\ Len(b) \in 1 .. Len(b)
      BY <3>2
    <3>4. Limit(b, bits_written) \in Int
      BY <3>1, <3>3, Fields, Room DEF Limit
    <3> QED
      BY <3>4 DEF b
  <2> QED
    BY <1>2, <1>5, <2>1, <2>2, Room
<1>7. bits_written <= 8 * (store.size - u) /\ store.size - u \in Nat
      /\ Limit(allotment', bits_written) <= 8 * (store.size - u)
  <2>1. Limit(allotment, bits_written) <= 8 * store.size
    BY DEF WInv
  <2>2. Limit(allotment', bits_written) <= 8 * (store.size - u)
    BY <1>2, <1>3, <1>6, <2>1, Room
  <2>3. bits_written <= Limit(allotment', bits_written)
    <3> DEFINE b == allotment'
    <3>1. b \in Levels /\ Charged(b, bits_written)
      BY <1>5
    <3> HIDE DEF b
    <3>2. CASE Len(b) = 0
      BY <3>2, Room DEF b, Limit
    <3>3. CASE Len(b) # 0
      <4>1. Len(b) \in 1 .. Len(b)
        BY <3>1, <3>3 DEF Levels
      <4>2. bits_written <= b[1].prev + b[Len(b)].open
        BY <3>1, <4>1 DEF Charged, Upto
      <4> QED
        BY <3>3, <4>2 DEF Limit, b
    <3> QED
      BY <3>2, <3>3
  <2> QED
    BY <1>3, <1>6, <2>2, <2>3, Room
<1>8. /\ r = Storage(r.size, r.capacity, r.mem) /\ r.size = store.size - u
      /\ r.capacity \in Nat /\ r.size <= r.capacity /\ Allocated(r)
      /\ (r.capacity > 0 => Exact(r.mem, bits_written))
  BY <1>7, Room, ResizedExact DEF WInv, r
<1>9. WriterTypeOK' /\ WriterExact'
  BY <1>1, <1>5, <1>7, <1>8, Room, StoreStep
<1> QED
  BY <1>1, <1>5, <1>7, <1>8, <1>9 DEF WInv

LEMMA ZeroPadStep ==
  ASSUME WInv, ZeroPad
  PROVE  WInv'
<1> DEFINE n == 8 * CeilBytes(bits_written) - bits_written
<1>1. /\ CeilBytes(bits_written) \in Nat
      /\ bits_written <= 8 * CeilBytes(bits_written)
      /\ 8 * CeilBytes(bits_written) < bits_written + 8
  BY Room, ByteOf
<1>2. /\ n > 0 /\ (allotment # <<>> => n <= Unspent) /\ bits_written' = bits_written + n
      /\ store' = Storage(store.size, store.capacity, Stored(n)) /\ allotment' = allotment
  BY DEF ZeroPad
<1>3. n \in 0 .. MaxBitsPerCall /\ bits_written + n = 8 * CeilBytes(bits_written)
  <2> DEFINE c == CeilBytes(bits_written)
  <2>1. c \in Nat /\ bits_written <= 8 * c /\ 8 * c < bits_written + 8
    BY <1>1
  <2> HIDE DEF c
  <2>0. bits_written \in Nat
    BY Room
  <2>2. 8 * c - bits_written \in 0 .. 56 /\ bits_written + (8 * c - bits_written) = 8 * c
    BY <2>0, <2>1
  <2> QED
    BY <2>2 DEF c, MaxBitsPerCall
<1>4. 8 * CeilBytes(bits_written) <= 8 * store.size
  <2> DEFINE c == CeilBytes(bits_written)
  <2>1. c \in Nat /\ 8 * c < bits_written + 8
    BY <1>1
  <2> HIDE DEF c
  <2>2. 8 * c <= 8 * store.size
    BY <2>1, Room
  <2> QED
    BY <2>2 DEF c
<1> HIDE DEF n
<1>5. store.capacity > 0
  BY <1>2, <1>3, <1>4, Room
<1> QED
  BY <1>2, <1>3, <1>4, <1>5, StoreBits

\* Whole bytes behind whole bytes, and a zero behind those.
LEMMA AppendingExact ==
  ASSUME NEW mem, NEW pos \in Nat, NEW m \in Nat, NEW capacity \in Nat, pos % 8 = 0,
         DOMAIN mem = 0 .. 8 * (capacity + 8) - 1, pos + 8 * m <= 8 * capacity,
         Exact(mem, pos)
  PROVE  DOMAIN Appending(mem, pos, m) = DOMAIN mem /\ Exact(Appending(mem, pos, m), pos + 8 * m)
<1> DEFINE last == pos + 8 * m
           new == Appending(mem, pos, m)
<1>1. 8 * (pos \div 8) = pos /\ 8 * (last \div 8) = last /\ last \in Nat /\ pos <= last
  OBVIOUS
<1>2. \A k \in 0 .. pos + 7 : mem[k] = IF k < pos THEN {k} ELSE {}
  BY <1>1 DEF Exact
<1>3. DOMAIN new = DOMAIN mem
  BY DEF Appending
<1>4. \A k \in DOMAIN mem : new[k] = IF k \in pos .. last - 1 THEN {k}
                                    ELSE IF k \in last .. last + 7 THEN {} ELSE mem[k]
  BY DEF Appending
<1>5. last <= 8 * capacity
  OBVIOUS
<1> HIDE DEF last, new
<1>6. ASSUME NEW k \in 0 .. last + 7
      PROVE  new[k] = IF k < last THEN {k} ELSE {}
  <2>1. k \in DOMAIN mem
    BY <1>1, <1>5
  <2>2. CASE k < pos
    <3>1. mem[k] = {k} /\ k < last
      <4>1. k \in 0 .. pos + 7 /\ k < last
        BY <2>2, <1>1
      <4> QED
        BY <4>1, <2>2, <1>2
    <3>2. ~(k \in pos .. last - 1) /\ ~(k \in last .. last + 7)
      BY <2>2, <3>1, <1>1
    <3> QED
      BY <2>1, <3>1, <3>2, <1>4
  <2>3. CASE k \in pos .. last - 1
    <3>1. k < last
      BY <2>3, <1>1
    <3> QED
      BY <2>1, <2>3, <3>1, <1>4
  <2>4. CASE k \in last .. last + 7
    <3>1. ~(k < last) /\ ~(k \in pos .. last - 1)
      BY <2>4, <1>1
    <3> QED
      BY <2>1, <2>4, <3>1, <1>4
  <2> QED
    BY <2>2, <2>3, <2>4, <1>1
<1>7. Exact(new, last)
  BY <1>1, <1>6 DEF Exact
<1> QED
  BY <1>3, <1>7 DEF new, last

LEMMA AppendStep ==
  ASSUME WInv, NEW m \in Appended, AppendByteAligned(m)
  PROVE  WInv'
<1> DEFINE r == Resized(store.size + m + 1)
           pos == bits_written
           mem == Appending(r.mem, pos, m)
           s == Storage(r.size, r.capacity, mem)
<1>1. m \in Nat /\ m > 0 /\ pos \in Nat /\ store.size \in Nat /\ pos <= 8 * store.size
  BY Room, WriterAssumption DEF WriterAssumption
<1>0. store.size + m + 1 \in Nat
  BY <1>1
<1>2. /\ r = Storage(r.size, r.capacity, r.mem) /\ r.size = store.size + m + 1
      /\ r.capacity \in Nat /\ r.size <= r.capacity /\ Allocated(r)
      /\ (r.capacity > 0 => Exact(r.mem, pos))
  BY <1>0, Room, ResizedExact DEF WInv
<1>3. allotment' = <<>> /\ allotment' \in Levels
  BY Room DEF AppendByteAligned
<1>4. CASE pos % 8 # 0
  <2>1. store' = r /\ bits_written' = pos
    BY <1>4 DEF AppendByteAligned
  <2> HIDE DEF r
  <2>2. WriterTypeOK' /\ WriterExact'
    BY <1>0, <1>1, <1>2, <1>3, <2>1, StoreStep
  <2>3. Limit(allotment', bits_written') <= 8 * (store').size
    BY <1>1, <1>2, <1>3, <2>1 DEF Limit
  <2> QED
    BY <1>3, <2>2, <2>3 DEF WInv, Charged
<1>5. CASE pos % 8 = 0
  <2>1. store' = s /\ bits_written' = pos + 8 * m
    BY <1>5 DEF AppendByteAligned
  <2>2. s.size = r.size /\ s.capacity = r.capacity /\ s.mem = mem
    BY StorageFields
  <2> HIDE DEF r
  <2>3. r.capacity > 0 /\ pos + 8 * m <= 8 * r.size /\ pos + 8 * m <= 8 * r.capacity
    BY <1>1, <1>2
  <2>4. DOMAIN r.mem = 0 .. 8 * (r.capacity + 8) - 1
    <3>1. r.capacity # 0
      BY <2>3
    <3> QED
      BY <3>1, <1>2 DEF Allocated
  <2>5. DOMAIN mem = DOMAIN r.mem /\ Exact(mem, pos + 8 * m)
    BY <1>1, <1>2, <1>5, <2>3, <2>4, AppendingExact
  <2> HIDE DEF mem
  <2>6. Allocated(s)
    BY <1>2, <2>2, <2>5 DEF Allocated
  <2>7. s = Storage(s.size, s.capacity, s.mem)
    BY <2>2
  <2> HIDE DEF s
  <2>8. /\ s.size \in Nat /\ s.capacity \in Nat /\ s.size <= s.capacity
        /\ bits_written' \in Nat
    BY <1>0, <1>1, <1>2, <2>1, <2>2
  <2>9. Exact(s.mem, bits_written')
    BY <2>1, <2>2, <2>5
  <2>10. WriterTypeOK' /\ WriterExact'
    BY <1>3, <2>1, <2>6, <2>7, <2>8, <2>9, StoreStep
  <2>11. Limit(allotment', bits_written') <= 8 * (store').size
    BY <1>3, <2>1, <2>2, <2>3 DEF Limit
  <2> QED
    BY <1>3, <2>10, <2>11 DEF WInv, Charged
<1> QED
  BY <1>4, <1>5

LEMMA TakeStep ==
  ASSUME WInv, TakeBytes
  PROVE  WInv'
<1>1. store' = NoStorage /\ bits_written' = 0 /\ allotment' = <<>> /\ allotment' \in Levels
  BY Room DEF TakeBytes
<1>2. /\ (store').size = 0 /\ (store').capacity = 0 /\ (store').mem = [k \in {} |-> {}]
  BY <1>1, StorageFields DEF NoStorage
<1>3. Allocated(NoStorage)
  BY <1>1, <1>2 DEF Allocated
<1>4. NoStorage = Storage(NoStorage.size, NoStorage.capacity, NoStorage.mem)
  BY <1>1, <1>2 DEF NoStorage
<1>5. WriterTypeOK' /\ WriterExact'
  BY <1>1, <1>2, <1>3, <1>4, StoreStep
<1>6. Charged(allotment', bits_written') /\ Limit(allotment', bits_written') <= 8 * (store').size
  BY <1>1, <1>2 DEF Charged, Limit
<1> QED
  BY <1>5, <1>6 DEF WInv

LEMMA WInvInit == WriterInit => WInv
<1> SUFFICES ASSUME WriterInit PROVE WInv
  OBVIOUS
<1>1. store = NoStorage /\ bits_written = 0 /\ allotment = <<>>
  BY DEF WriterInit
<1>2. store.size = 0 /\ store.capacity = 0 /\ store.mem = [k \in {} |-> {}]
  BY <1>1, StorageFields DEF NoStorage
<1>3. WriterTypeOK /\ WriterExact
  BY <1>1, <1>2 DEF NoStorage, WriterTypeOK, WriterExact
<1>4. Charged(allotment, bits_written) /\ Limit(allotment, bits_written) <= 8 * store.size
  BY <1>1, <1>2 DEF Charged, Limit
<1> QED
  BY <1>3, <1>4 DEF WInv

LEMMA WInvNext == WInv /\ [WriterNext]_writerVars => WInv'
<1> SUFFICES ASSUME WInv, [WriterNext]_writerVars PROVE WInv'
  OBVIOUS
<1>1. ASSUME NEW max \in Budgets, Allot(max) PROVE WInv'
  BY <1>1, AllotStep
<1>2. ASSUME NEW n \in Sizes, Write(n) PROVE WInv'
  BY <1>2, WriteStep
<1>3. CASE Reclaim
  BY <1>3, ReclaimStep
<1>4. CASE ZeroPad
  BY <1>4, ZeroPadStep
<1>5. ASSUME NEW m \in Appended, AppendByteAligned(m) PROVE WInv'
  BY <1>5, AppendStep
<1>6. CASE TakeBytes
  BY <1>6, TakeStep
<1>7. CASE UNCHANGED writerVars
  BY <1>7 DEF writerVars, WInv, WriterTypeOK, WriterExact
<1> QED
  BY <1>1, <1>2, <1>3, <1>4, <1>5, <1>6, <1>7 DEF WriterNext

LEMMA WInvAlways == WriterSpec => []WInv
BY WInvInit, WInvNext, PTL DEF WriterSpec

-----------------------------------------------------------------------------
(* The theorems *)

\* The storage is exact after any sequence of calls: small and large writes,
\* nested allotments, reallocations, appended writers and bytes taken away.
THEOREM WriterStaysExact == WriterSpec => []WriterExact
<1>1. WInv => WriterExact
  BY DEF WInv
<1> QED
  BY <1>1, WInvAlways, PTL

\* The unchecked stores stay inside the storage for every nesting of
\* allotments and however much of each is given back.
THEOREM StorageAlwaysSuffices == WriterSpec => []StorageSuffices
<1>1. WInv => StorageSuffices
  <2> SUFFICES ASSUME WInv PROVE StorageSuffices
    OBVIOUS
  <2>1. Limit(allotment, bits_written) <= 8 * store.size
    BY DEF WInv
  <2>2. CASE allotment = <<>>
    BY <2>2, Room DEF StorageSuffices
  <2>3. CASE allotment # <<>>
    <3>1. Len(allotment) # 0 /\ Current = allotment[Len(allotment)]
      BY <2>3, Top
    <3>2. Limit(allotment, bits_written) = allotment[1].prev + Current.open
      BY <3>1 DEF Limit
    <3> QED
      BY <2>1, <2>3, <3>2, Room DEF StorageSuffices
  <2> QED
    BY <2>2, <2>3
<1> QED
  BY <1>1, WInvAlways, PTL
================================================================================
