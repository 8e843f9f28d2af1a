----------------------------- MODULE Permutation -----------------------------
(***************************************************************************)
(* jxl_coding_read_permutation (coding/permutation.c): a permutation of    *)
(* 0 .. size - 1 that leaves the first skip places alone, coded by the     *)
(* first entries of its Lehmer code; the entries left out are 0.  The      *)
(* table of contents of a frame (skip = 0) and the coefficient orders of a *)
(* VarDCT pass (skip = size / 64) are read with it.                        *)
(***************************************************************************)
EXTENDS Integers, Sequences, FiniteSets

CONSTANTS
  Codes           \* what a bitstream may hold: [size, skip, entries]

ASSUME CodesAssumption ==
  \A c \in Codes : /\ c.size \in Nat /\ c.skip \in 0 .. c.size
                   /\ c.entries \in Seq(Nat)

VARIABLES
  code,           \* what is read (never changes)
  phase,          \* "end", "entries", "place", "done"; "invalid" and "error"
  lehmer,         \* the entries read so far
  temp,           \* the values not placed yet, in front of stale ones
  permutation,    \* the result, Unset where nothing is stored yet
  placed          \* entries of lehmer turned into places

vars == <<code, phase, lehmer, temp, permutation, placed>>

Unset == -1
Places == 0 .. code.size - 1
Movable == code.size - code.skip        \* how many places may change

Init ==
  /\ code \in Codes
  /\ phase = "end" /\ lehmer = <<>> /\ placed = 0
  /\ temp = [k \in 0 .. Movable - 1 |-> Unset]
  /\ permutation = [k \in Places |-> Unset]

TooLongStrict == Len(code.entries) >= Movable
TooLong == Len(code.entries) > Movable

ReadEnd ==
  /\ phase = "end"
  /\ phase' = IF TooLong THEN "invalid" ELSE "entries"
  /\ UNCHANGED <<code, lehmer, temp, permutation, placed>>

\* An entry counts the values that are left and smaller.
OutOfRangeOfAll(v) == v >= Movable
OutOfRange(v) == v >= Movable - Len(lehmer)

ReadEntry ==
  /\ phase = "entries" /\ Len(lehmer) < Len(code.entries)
  /\ LET v == code.entries[Len(lehmer) + 1]
     IN  IF OutOfRange(v)
         THEN phase' = "invalid" /\ UNCHANGED lehmer
         ELSE lehmer' = Append(lehmer, v) /\ UNCHANGED phase
  /\ UNCHANGED <<code, temp, permutation, placed>>

\* The bitstream ends, or memory does.
Fail ==
  /\ phase \in {"end", "entries"}
  /\ phase' = "error"
  /\ UNCHANGED <<code, lehmer, temp, permutation, placed>>

Prepare ==
  /\ phase = "entries" /\ Len(lehmer) = Len(code.entries)
  /\ temp' = [k \in 0 .. Movable - 1 |-> code.skip + k]
  /\ permutation' = [k \in Places |-> IF k < code.skip THEN k ELSE Unset]
  /\ phase' = "place"
  /\ UNCHANGED <<code, lehmer, placed>>

\* memmove: what follows idx moves down by one; the last value stays as well.
WithoutSwapped(idx) == [temp EXCEPT ![idx] = temp[Movable - placed - 1]]
Without(idx) ==
  [k \in 0 .. Movable - 1 |-> IF k < idx \/ k = Movable - 1 THEN temp[k] ELSE temp[k + 1]]

Place ==
  /\ phase = "place" /\ placed < Len(lehmer)
  /\ LET idx == lehmer[placed + 1]
     IN  /\ permutation' = [permutation EXCEPT ![code.skip + placed] = temp[idx]]
         /\ temp' = Without(idx)
  /\ placed' = placed + 1
  /\ UNCHANGED <<code, phase, lehmer>>

PlaceRest ==
  /\ phase = "place" /\ placed = Len(lehmer)
  /\ permutation' = [k \in Places |-> IF k < code.skip + placed THEN permutation[k]
                                      ELSE temp[k - code.skip - placed]]
  /\ phase' = "done"
  /\ UNCHANGED <<code, lehmer, temp, placed>>

Next == ReadEnd \/ ReadEntry \/ Fail \/ Prepare \/ Place \/ PlaceRest

Spec == Init /\ [][Next]_vars

-----------------------------------------------------------------------------
(* Properties *)

TypeOK ==
  /\ code \in Codes
  /\ phase \in {"end", "entries", "place", "done", "invalid", "error"}
  /\ lehmer \in Seq(Nat) /\ Len(lehmer) <= Len(code.entries)
  /\ \A j \in 1 .. Len(lehmer) : lehmer[j] = code.entries[j] /\ lehmer[j] + j <= Movable
  /\ temp \in [0 .. Movable - 1 -> Places \cup {Unset}]
  /\ permutation \in [Places -> Places \cup {Unset}]
  /\ placed \in 0 .. Len(lehmer)

\* Whatever the bitstream holds, what is handed out is a permutation that
\* leaves the first skip places alone: no value twice, none missing, nothing
\* from the stale end of temp.
IsPermutation ==
  phase = "done" =>
    /\ \A k \in 0 .. code.skip - 1 : permutation[k] = k
    /\ \A k, l \in Places : permutation[k] = permutation[l] => k = l
    /\ \A v \in Places : \E k \in Places : permutation[k] = v

\* The entries are the Lehmer code of what is handed out: each is the number of
\* smaller values behind its place, and so is 0 for the entries left out.
EntryAt(j) == IF j < Len(code.entries) THEN code.entries[j + 1] ELSE 0
HasLehmerCode ==
  phase = "done" =>
    \A j \in 0 .. Movable - 1 :
      EntryAt(j) = Cardinality({m \in j + 1 .. Movable - 1 :
                                  permutation[code.skip + m] < permutation[code.skip + j]})

\* A code is refused exactly if it is not the Lehmer code of a permutation.
OnlyBadCodesRefused ==
  phase \in {"invalid", "done"} =>
    (phase = "invalid" <=> \E j \in 1 .. Len(code.entries) :
                             j > Movable \/ code.entries[j] > Movable - j)
=============================================================================
