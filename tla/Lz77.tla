-------------------------------- MODULE Lz77 --------------------------------
(***************************************************************************)
(* What reading LZ77 symbols promises: each symbol is a value or a run, a  *)
(* run repeats what was read before it, and all of what was read is there. *)
(* Where the symbols are ill-formed an error is reported, unless the reader*)
(* trusts them: then nothing is promised from there on.                    *)
(***************************************************************************)
EXTENDS Integers, Sequences

CONSTANTS
  Reach,          \* how far back a run may reach
  Longest         \* a run is at most so long

VARIABLES
  symbols,        \* [n, v, back]: a value v (n = 0), or n values from back
  trusting,
  next,           \* symbols read
  out,            \* the values read
  left, back,     \* the run being repeated
  result          \* "OK", "error", "done", "garbage"

vars == <<symbols, trusting, next, out, left, back, result>>

Init ==
  /\ trusting \in BOOLEAN
  /\ next = 0 /\ out = <<>> /\ left = 0 /\ back = 0 /\ result = "OK"

Bounded(b) ==
  LET far == IF b > Reach THEN Reach ELSE b
  IN  IF far > Len(out) THEN Len(out) ELSE far

Repeat(n, b) ==
  /\ out' = Append(out, out[Len(out) + 1 - b])
  /\ left' = n - 1 /\ back' = IF n = 1 THEN 0 ELSE b
  /\ UNCHANGED <<symbols, trusting, result>>

Run == left > 0 /\ Repeat(left, back) /\ UNCHANGED next

\* Symbols can be trusted as far as they are well-formed.
WellFormed ==
  /\ next < Len(symbols)
  /\ LET s == symbols[next + 1] IN s.n > 0 => s.n <= Longest /\ out # <<>>

Symbol ==
  /\ left = 0 /\ WellFormed /\ next' = next + 1
  /\ LET s == symbols[next + 1]
     IN  IF s.n > 0 THEN Repeat(s.n, Bounded(s.back))
         ELSE out' = Append(out, s.v) /\ UNCHANGED <<symbols, trusting, left, back, result>>

Malformed ==
  /\ left = 0 /\ ~WellFormed
  /\ \/ result' = "error" /\ out' = out
     \/ trusting /\ result' = "garbage"
  /\ UNCHANGED <<symbols, trusting>>

\* The caller has what it wants, or memory runs out.
Stop ==
  /\ result' \in {"done", "error"} /\ out' = out
  /\ UNCHANGED <<symbols, trusting>>

Garbage == result = "garbage" /\ result' # "OK" /\ UNCHANGED <<symbols, trusting>>

Next == \/ result = "OK" /\ (Run \/ Symbol \/ Malformed \/ Stop)
        \/ Garbage

Spec == Init /\ [][Next]_vars
=============================================================================
