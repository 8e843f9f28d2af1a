------------------------------ MODULE BitStream ------------------------------
(***************************************************************************)
(* What the bit reader promises: the bits of the stream one after the      *)
(* other, each once, and the end of the stream where it is.  After a skip  *)
(* beyond the end (lost) nothing is promised any more.                     *)
(***************************************************************************)
EXTENDS Integers

CONSTANT Widths         \* the numbers of bits that are asked for

VARIABLES
  total,      \* bits in the stream (never changes)
  pos,        \* bits read
  value,      \* what the last call handed out, [places -> sets of stream bits]
  status,     \* "OK", "EOF", "NON_ZERO_PADDING", "VALIDATION_FAILED"
  lost        \* a skip went beyond the end

vars == <<total, pos, value, status, lost>>

NoValue == [k \in {} |-> {}]

\* The n bits from place p; those behind the end of the stream are 0 (the
\* empty set).
BitsFrom(p, n) == [k \in 0 .. n - 1 |-> {p + k} \cap (0 .. total - 1)]

Init ==
  /\ total \in Nat /\ total % 8 = 0 /\ pos = 0
  /\ value = NoValue /\ status = "OK" /\ lost = FALSE

\* On by n bits, or not at all.
Advance(n) ==
  IF pos + n <= total THEN pos' = pos + n /\ status' = "OK"
  ELSE UNCHANGED pos /\ status' = "EOF"

\* A look at n bits; k of them are read.
Read(n, k) ==
  /\ value' = BitsFrom(pos, n) /\ Advance(k)
  /\ UNCHANGED <<total, lost>>

\* k bits, then m bits, which are the value.
ReadTwo(k, m) ==
  /\ IF pos + k > total THEN UNCHANGED pos /\ status' = "EOF" /\ value' = NoValue
     ELSE /\ value' = BitsFrom(pos + k, m)
          /\ IF pos + k + m <= total THEN pos' = pos + k + m /\ status' = "OK"
             ELSE pos' = pos + k /\ status' = "EOF"
  /\ UNCHANGED <<total, lost>>

Skip(n) ==
  /\ IF pos + n <= total
     THEN pos' = pos + n /\ status' = "OK" /\ lost' = FALSE
     ELSE status' = "EOF" /\ lost' = TRUE /\ pos' \in Nat
  /\ value' = NoValue /\ UNCHANGED total

\* Up to the next byte; the bits passed over are handed out.  Never EOF.
Pad ==
  LET n == 8 * ((pos + 7) \div 8) - pos
  IN  /\ value' = BitsFrom(pos, n) /\ pos' = pos + n
      /\ status' \in {"OK", "NON_ZERO_PADDING"} /\ (n = 0 => status' = "OK")
      /\ UNCHANGED <<total, lost>>

Refuse ==
  /\ value' = NoValue /\ status' = "VALIDATION_FAILED"
  /\ UNCHANGED <<total, pos, lost>>

\* A new position in the same stream.
Seek(n) ==
  /\ n <= total /\ pos' = n /\ lost' = FALSE
  /\ value' = NoValue /\ status' = "OK" /\ UNCHANGED total
SeekLost ==
  /\ pos' \in Nat /\ lost' = TRUE
  /\ value' = NoValue /\ status' = "EOF" /\ UNCHANGED total

\* Anything, in the same stream.
Lost == lost /\ total' = total

Next ==
  \/ \E n, k \in Widths : Read(n, k)
  \/ \E k, m \in Widths : ReadTwo(k, m)
  \/ \E n \in Widths : Skip(n) \/ Seek(n)
  \/ Pad \/ Refuse \/ SeekLost \/ Lost

Spec == Init /\ [][Next]_vars
=============================================================================
