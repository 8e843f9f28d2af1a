------------------------------ MODULE BitWriter ------------------------------
(***************************************************************************)
(* jxl_bit_writer (encoder/enc_bit_writer.c and .h) over jxl_padded_bytes  *)
(* (encoder/padded_bytes.h): bits are appended with unchecked 8-byte       *)
(* stores into storage that allotments, nested ones too, reserve ahead of  *)
(* them and give back.                                                     *)
(*                                                                         *)
(* A bit of the storage is the set of the written bits OR'd into it: {k}   *)
(* is the k-th one, {} is 0 and Junk is what malloc left there.            *)
(***************************************************************************)
EXTENDS Integers, Sequences

CONSTANTS
  MinCapacity,    \* bytes of the smallest allocation, 64 in the code
  Sizes,          \* numbers of bits that are written in one call
  Budgets,        \* numbers of bits that allotments are opened for
  Appended,       \* bytes of the writers appended to this one
  MaxDepth,       \* bound: allotments open at a time
  MaxBytes        \* bound: size of the storage up to which the caller goes on

ASSUME WriterAssumption ==
  /\ MinCapacity \in Nat \ {0} /\ MaxDepth \in Nat /\ MaxBytes \in Nat
  /\ Sizes \subseteq Nat /\ Budgets \subseteq Nat \ {0} /\ Appended \subseteq Nat \ {0}

VARIABLES
  store,          \* [size, capacity, mem]: the bytes in use, allocated; their bits
  bits_written,
  allotment       \* open ones, the current one last: [prev, max, open]; open is
                  \* a history of what it and its ancestors asked for

writerVars == <<store, bits_written, allotment>>

MaxBitsPerCall == 56
Junk == {-1}
Storage(size, capacity, mem) == [size |-> size, capacity |-> capacity, mem |-> mem]
NoStorage == Storage(0, 0, [k \in {} |-> {}])
Larger(a, b) == IF a > b THEN a ELSE b
CeilBytes(n) == (n + 7) \div 8

\* change_capacity: the bytes in use are kept and one zero follows them; the
\* allocation is 8 bytes longer than the capacity.
MovedBytesOnly(capacity) ==
  Storage(store.size, capacity,
          [k \in 0 .. 8 * (capacity + 8) - 1 |->
             IF k < 8 * store.size THEN store.mem[k] ELSE Junk])
Moved(capacity) ==
  Storage(store.size, capacity,
          [k \in 0 .. 8 * (capacity + 8) - 1 |->
             IF k < 8 * store.size THEN store.mem[k]
             ELSE IF k < 8 * (store.size + 1) THEN {} ELSE Junk])
Grown(size) == Larger(MinCapacity, Larger(size, store.capacity + store.capacity \div 2))
Reserved(size) == IF size <= store.capacity THEN store ELSE Moved(Grown(size))
Resized(size) == LET r == Reserved(size) IN Storage(size, r.capacity, r.mem)

Current == allotment[Len(allotment)]
UsedBits == bits_written - Current.prev
Unspent == Current.max - UsedBits
OpenBits == IF allotment = <<>> THEN 0 ELSE Current.open

WriterInit == store = NoStorage /\ bits_written = 0 /\ allotment = <<>>

\* jxl_bit_writer_with_max_bits, before the body.
Allot(max) ==
  /\ Len(allotment) < MaxDepth /\ store.size <= MaxBytes
  /\ store' = Resized(store.size + CeilBytes(max))
  /\ allotment' = Append(allotment, [prev |-> bits_written, max |-> max,
                                     open |-> OpenBits + max])
  /\ UNCHANGED bits_written

\* The byte at bits_written is OR'd into, the seven bytes behind it are
\* overwritten: with bits, then with zeros.
Stored(n) ==
  LET first == 8 * (bits_written \div 8)
      new(k) == IF k \in bits_written .. bits_written + n - 1 THEN {k} ELSE {}
  IN  [k \in DOMAIN store.mem |->
         IF k \in first .. first + 7 THEN store.mem[k] \cup new(k)
         ELSE IF k \in first + 8 .. first + 63 THEN new(k)
         ELSE store.mem[k]]

\* A body writes no more than its allotment.
Write(n) ==
  /\ allotment # <<>> /\ n <= Unspent /\ n <= MaxBitsPerCall
  /\ store' = Storage(store.size, store.capacity, Stored(n))
  /\ bits_written' = bits_written + n
  /\ UNCHANGED allotment

\* jxl_bit_writer_with_max_bits, after the body: whole unused bytes are given
\* back and the ancestors are not charged for what was used.
CreditParentOnly(used) ==
  [i \in 1 .. Len(allotment) - 1 |->
     IF i = Len(allotment) - 1
     THEN [prev |-> allotment[i].prev + used, max |-> allotment[i].max,
           open |-> allotment[i].open]
     ELSE allotment[i]]
Credit(used) ==
  [i \in 1 .. Len(allotment) - 1 |->
     [prev |-> allotment[i].prev + used, max |-> allotment[i].max, open |-> allotment[i].open]]
UnusedBytes == Unspent \div 8

Reclaim ==
  /\ allotment # <<>>
  /\ store' = Resized(store.size - UnusedBytes)
  /\ allotment' = Credit(UsedBits)
  /\ UNCHANGED bits_written

\* In a body, or once the last allotment is closed (enc_jpeg_data.c).
ZeroPad ==
  LET n == 8 * CeilBytes(bits_written) - bits_written
  IN  /\ allotment # <<>> => n <= Unspent
      /\ n > 0
      /\ store' = Storage(store.size, store.capacity, Stored(n))
      /\ bits_written' = bits_written + n
      /\ UNCHANGED allotment

\* The writers of the groups, m bytes in all, behind this one and one zero.
Appending(mem, pos, m) ==
  [k \in DOMAIN mem |-> IF k \in pos .. pos + 8 * m - 1 THEN {k}
                        ELSE IF k \in pos + 8 * m .. pos + 8 * m + 7 THEN {}
                        ELSE mem[k]]
AppendByteAligned(m) ==
  LET r == Resized(store.size + m + 1)
      pos == bits_written
  IN  /\ allotment = <<>> /\ store.size <= MaxBytes
      /\ IF pos % 8 # 0 THEN store' = r /\ UNCHANGED bits_written
         ELSE /\ store' = Storage(r.size, r.capacity, Appending(r.mem, pos, m))
              /\ bits_written' = pos + 8 * m
      /\ UNCHANGED allotment

\* The bytes are handed over and the writer starts again.
TakeBytes ==
  /\ allotment = <<>> /\ bits_written % 8 = 0
  /\ store' = NoStorage /\ bits_written' = 0 /\ UNCHANGED allotment

WriterNext ==
  \/ \E max \in Budgets : Allot(max)
  \/ \E n \in Sizes : Write(n)
  \/ Reclaim
  \/ ZeroPad
  \/ \E m \in Appended : AppendByteAligned(m)
  \/ TakeBytes

WriterSpec == WriterInit /\ [][WriterNext]_writerVars

-----------------------------------------------------------------------------
(* Properties *)

WriterTypeOK ==
  /\ store.size \in Nat /\ store.capacity \in Nat /\ store.size <= store.capacity
  /\ store = Storage(store.size, store.capacity, store.mem)
  /\ DOMAIN store.mem = IF store.capacity = 0 THEN {} ELSE 0 .. 8 * (store.capacity + 8) - 1
  /\ bits_written \in Nat
  /\ allotment \in Seq([prev : Nat, max : Nat \ {0}, open : Nat])

\* What was written is what the storage holds, however small and large writes,
\* nested allotments, reallocations and appended writers follow each other; and
\* the rest of the byte the next write ORs into is zero ("Last (partial) or next
\* byte to write must be zero-initialized", enc_bit_writer.c:119).
WriterExact ==
  store.capacity > 0 =>
    \A k \in 0 .. 8 * (bits_written \div 8) + 7 :
      store.mem[k] = IF k < bits_written THEN {k} ELSE {}

\* The storage in use has room for all that the open allotments may still write,
\* although inner ones give back what they did not use while the outer ones
\* are open, and room up to the next byte once all are closed.
StorageSuffices ==
  IF allotment = <<>> THEN bits_written <= 8 * store.size
  ELSE /\ bits_written <= allotment[1].prev + Current.open
       /\ allotment[1].prev + Current.open <= 8 * store.size
=============================================================================
