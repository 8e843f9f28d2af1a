------------------------------ MODULE BitReader ------------------------------
(***************************************************************************)
(* jxl_bs (bitstream/bitstream.c and bitstream.h): a 64-bit buffer in      *)
(* front of the bytes of a stream.  Eight bytes at a time are OR'd into    *)
(* the buffer while there are eight, so that bits beyond remaining_buf_bits*)
(* are in it too, to be OR'd in again by the next refill.                  *)
(*                                                                         *)
(* A bit of the buffer is the set of the stream's bits OR'd into it: {p}   *)
(* is the p-th bit of the stream, {} is 0.                                 *)
(***************************************************************************)
EXTENDS Integers, FiniteSets

CONSTANTS
  StreamLengths,        \* lengths of streams, in bytes
  Widths,               \* numbers of bits that are asked for
  MaxPosition           \* bound: num_read_bits up to which the caller goes on

ASSUME StreamAssumption ==
  StreamLengths \subseteq Nat /\ Widths \subseteq Nat /\ MaxPosition \in Nat

VARIABLES
  len,        \* the stream's bytes (never changes)
  bs,         \* [off, buf, rem, num]: bytes, buf, remaining_buf_bits, num_read_bits
  value,      \* what the last call stored in *out
  status,     \* what it returned
  lost        \* a skip since the last init ran beyond the end

bitVars == <<len, bs, value, status, lost>>

Slots == 0 .. 63
NoBits == [i \in Slots |-> {}]
NoValue == [k \in {} |-> {}]
Reader(off, buf, rem, num) == [off |-> off, buf |-> buf, rem |-> rem, num |-> num]
Fresh == Reader(0, NoBits, 0, 0)
BytesLeft(b) == len - b.off

\* The word at bytes, shifted up; word bits of it.
Ored(b, word) ==
  [i \in Slots |-> b.buf[i] \cup IF i \in b.rem .. b.rem + word - 1
                                  THEN {8 * b.off + i - b.rem} ELSE {}]

RefillWord(b) ==
  Reader(b.off + (63 - b.rem) \div 8, Ored(b, 64 - b.rem), 56 + (b.rem % 8), b.num)
BytesFitting(b) ==
  LET fit == (63 - b.rem) \div 8
  IN  IF BytesLeft(b) < fit THEN BytesLeft(b) ELSE fit
RefillBytes(b) ==
  LET n == BytesFitting(b)
  IN  Reader(b.off + n, Ored(b, 8 * n), b.rem + 8 * n, b.num)
RefillTooFar(b) == IF BytesLeft(b) >= 7 THEN RefillWord(b) ELSE RefillBytes(b)
Refill(b) == IF BytesLeft(b) >= 8 THEN RefillWord(b) ELSE RefillBytes(b)

Shifted(b, n) == [i \in Slots |-> IF i + n \in Slots THEN b.buf[i + n] ELSE {}]
Drop(b, n) == Reader(b.off, Shifted(b, n), b.rem - n, b.num + n)
Low(b, n) == [k \in 0 .. n - 1 |-> b.buf[k]]

BitInit ==
  /\ len \in StreamLengths
  /\ bs = Fresh /\ value = NoValue /\ status = "OK" /\ lost = FALSE

Refuse == value' = NoValue /\ status' = "VALIDATION_FAILED" /\ UNCHANGED <<len, bs, lost>>

\* Peek at n bits and consume k of them; k = n is read_bits, k = 0 is peek_bits.
Consume(b, k) ==
  IF k > b.rem THEN status' = "EOF" /\ bs' = b
  ELSE status' = "OK" /\ bs' = Drop(b, k)

ReadBits(n, k) ==
  /\ n <= 32 /\ k <= n
  /\ LET b == Refill(bs)
     IN  value' = Low(b, n) /\ Consume(b, k)
  /\ UNCHANGED <<len, lost>>
ReadTooMany(n) == n > 32 /\ Refuse

\* A symbol and the extra bits behind it, which no refill precedes.
ReadSymbol(n, k, m) ==
  /\ n <= 32 /\ k <= n /\ m <= 24
  /\ LET b == Refill(bs)
     IN  IF k > b.rem
         THEN value' = NoValue /\ Consume(b, k)
         ELSE LET c == Drop(b, k) IN value' = Low(c, m) /\ Consume(c, m)
  /\ UNCHANGED <<len, lost>>

\* skip_bits: what it returns and leaves behind.
EmptiedOfCount(b) == Reader(b.off, b.buf, 0, b.num + b.rem)
Emptied(b) == Reader(b.off, NoBits, 0, b.num + b.rem)
SkipBytesRoundedUp(b, n) == Reader(b.off + (n + 7) \div 8, b.buf, b.rem, b.num + n)
SkipBytes(b, n) == Reader(b.off + n \div 8, b.buf, b.rem, b.num + n)
SkipFrom(b, n) ==
  IF n <= b.rem THEN [st |-> "OK", bs |-> Drop(b, n)]
  ELSE LET rest == n - b.rem
           e == Emptied(b)
           f == Refill(SkipBytes(e, rest))
       IN  IF rest > 8 * BytesLeft(e)
           THEN [st |-> "EOF", bs |-> Reader(e.off, e.buf, e.rem, e.num + 8 * BytesLeft(e))]
           ELSE IF rest % 8 > f.rem THEN [st |-> "EOF", bs |-> f]
           ELSE [st |-> "OK", bs |-> Reader(f.off, Shifted(f, rest % 8),
                                              f.rem - (rest % 8), f.num)]

SkipBits(n) ==
  /\ LET s == SkipFrom(bs, n)
     IN  /\ bs' = s.bs /\ status' = s.st
         /\ lost' = (lost \/ s.st # "OK")
  /\ value' = NoValue /\ UNCHANGED len

\* The callers go on from wherever the skip ends: its status is dropped.
InitAtBit(n) ==
  /\ LET s == SkipFrom(Fresh, n)
     IN  bs' = s.bs /\ status' = s.st /\ lost' = (s.st # "OK")
  /\ value' = NoValue /\ UNCHANGED len

\* Whether the bits are 0 is the stream's.
PaddingOfByte(b) == 8 - (b.num % 8)
Padding(b) == 8 * ((b.num + 7) \div 8) - b.num
ZeroPadToByte ==
  LET n == Padding(bs)
      b == Refill(bs)
  IN  /\ value' = Low(b, n)
      /\ IF n > b.rem THEN status' = "EOF" /\ bs' = b
         ELSE /\ bs' = Drop(b, n)
              /\ status' \in IF n = 0 THEN {"OK"} ELSE {"OK", "NON_ZERO_PADDING"}
      /\ UNCHANGED <<len, lost>>

Reading == bs.num <= MaxPosition

BitNext ==
  \/ \E n, k \in Widths : Reading /\ ReadBits(n, k)
  \/ \E n \in Widths : Reading /\ ReadTooMany(n)
  \/ \E n, k, m \in Widths : Reading /\ ReadSymbol(n, k, m)
  \/ \E n \in Widths : Reading /\ SkipBits(n)
  \/ \E n \in Widths : InitAtBit(n)
  \/ Reading /\ ZeroPadToByte

BitSpec == BitInit /\ [][BitNext]_bitVars

-----------------------------------------------------------------------------
(* Properties *)

NextBit == 8 * bs.off - bs.rem

BitTypeOK ==
  /\ len \in StreamLengths
  /\ bs \in [off : 0 .. len, buf : [Slots -> SUBSET (0 .. 8 * len - 1)],
             rem : Slots, num : Nat]
  /\ lost \in BOOLEAN

\* However refills, reads and skips follow each other, each bit of the buffer is
\* the bit of the stream that belongs there or not loaded yet: what a refill ORs
\* in twice is the same bit, nothing left over is of another place, and behind
\* the end there are zeros.
BufferExact ==
  \A i \in Slots : /\ bs.buf[i] \subseteq {NextBit + i}
                   /\ i < bs.rem => bs.buf[i] = {NextBit + i}

\* num_read_bits, which positions and padding are computed from, is where the
\* next bit is read, as long as no skip ran beyond the end: then it says the end,
\* and the bytes skipped over are read after all.
PositionExact == ~lost => bs.num = NextBit /\ 0 <= NextBit

\* The abstract reader: every bit once and in order, EOF exactly at the end.
Stream == INSTANCE BitStream WITH total <- 8 * len, pos <- bs.num
ImplementsStream == Stream!Spec
=============================================================================
