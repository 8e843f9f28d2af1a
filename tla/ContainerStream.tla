--------------------------- MODULE ContainerStream ---------------------------
(***************************************************************************)
(* What reading a container promises, whatever the chunks and the parser's *)
(* states: the codestream bytes of the file come out in file order, none   *)
(* missing, none twice, nothing else between them; and the auxiliary boxes *)
(* are listed in file order, each once it is complete.                     *)
(***************************************************************************)
EXTENDS Naturals, Sequences, FiniteSets

VARIABLES
  truth,        \* the positions of the file that hold codestream bytes
  shelf,        \* the types of the file's auxiliary boxes, by their positions
  out,          \* the codestream read so far, as a sequence of positions
  listed        \* the boxes read so far: position and type

vars == <<truth, shelf, out, listed>>

\* The n-th smallest codestream position is the n-th byte to come out.
InOrder(s) ==
  /\ \A i \in 1 .. Len(s) : s[i] \in truth
  /\ \A i \in 1 .. Len(s) : Cardinality({p \in truth : p < s[i]}) = i - 1

Init ==
  /\ truth \in SUBSET Nat
  /\ DOMAIN shelf \in SUBSET Nat
  /\ out = <<>> /\ listed = <<>>

Deliver ==
  /\ Len(out') > Len(out)
  /\ SubSeq(out', 1, Len(out)) = out
  /\ InOrder(out')
  /\ UNCHANGED <<truth, shelf, listed>>

List ==
  /\ \E p \in DOMAIN shelf :
       /\ Cardinality({q \in DOMAIN shelf : q < p}) = Len(listed)
       /\ listed' = Append(listed, [at |-> p, ty |-> shelf[p]])
  /\ UNCHANGED <<truth, shelf, out>>

Next == Deliver \/ List

Spec == Init /\ [][Next]_vars
=============================================================================
