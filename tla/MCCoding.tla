------------------------------- MODULE MCCoding -------------------------------
(* The machines that read and write coded data, one at a time: which one is  *)
(* chosen at the start, and the others rest in their first state.            *)
EXTENDS Permutation, BitReader, BitWriter, MCTokenReader

VARIABLE machine        \* the one that runs

\* Every code with entries 0 .. 3 for up to four places, none, one or two of
\* them fixed: valid ones, entries out of range, and too many of them.
MCCodes ==
  {c \in [size : 1 .. 4, skip : 0 .. 2, entries : UNION {[1 .. m -> 0 .. 3] : m \in 0 .. 4}] :
     c.skip <= c.size}

RestCode == [size |-> 1, skip |-> 0, entries |-> <<>>]
RestImage == [tokens |-> <<>>, channels |-> Plain, ans |-> FALSE, rle |-> FALSE]

CodingInit ==
  /\ machine \in {"permutation", "reader", "writer", "tokens"}
  /\ Init /\ (machine # "permutation" => code = RestCode)
  /\ BitInit /\ (machine # "reader" => len = 1)
  /\ WriterInit
  /\ TokenInit /\ (machine # "tokens" => image = RestImage)

CodingNext ==
  /\ UNCHANGED machine
  /\ \/ machine = "permutation" /\ Next /\ UNCHANGED <<bitVars, writerVars, tokenVars>>
     \/ machine = "reader" /\ BitNext /\ UNCHANGED <<vars, writerVars, tokenVars>>
     \/ machine = "writer" /\ WriterNext /\ UNCHANGED <<vars, bitVars, tokenVars>>
     \/ machine = "tokens" /\ TokenNext /\ UNCHANGED <<vars, bitVars, writerVars>>

CodingSpec == CodingInit /\ [][CodingNext]_<<machine, vars, bitVars, writerVars, tokenVars>>
===============================================================================
