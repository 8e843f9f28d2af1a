---------------------------- MODULE FrameSections ----------------------------
(***************************************************************************)
(* What loading a frame promises to the decoders of its sections: whatever *)
(* the order in which the codestream stores them and the chunks in which   *)
(* it arrives, a section only ever holds the first bytes of its own data,  *)
(* and what it has received stays.                                         *)
(***************************************************************************)
EXTENDS Naturals, Sequences

VARIABLES
  want,         \* for each section of the frame: its data
  got           \* for each section: what has arrived of it

vars == <<want, got>>

StartsWith(s, t) == Len(t) <= Len(s) /\ SubSeq(s, 1, Len(t)) = t

Init == got = [s \in DOMAIN want |-> <<>>]

Receive ==
  /\ got' # got
  /\ \A s \in DOMAIN want : StartsWith(want[s], got'[s]) /\ StartsWith(got'[s], got[s])
  /\ UNCHANGED want

Next == Receive

Spec == Init /\ [][Next]_vars
=============================================================================
