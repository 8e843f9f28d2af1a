-------------------------- MODULE Permutation_proofs --------------------------
(***************************************************************************)
(* Of every code, of any size and with any number of fixed places: what    *)
(* jxl_coding_read_permutation hands out is a permutation.  The invariant  *)
(* says that the values placed and those in front of the stale part of     *)
(* temp are all the movable values, each once.                             *)
(***************************************************************************)
EXTENDS Permutation, FiniteSetTheorems, TLAPS

Fresh == 0 .. Movable - placed - 1                \* temp without its stale part
Filled == code.skip .. code.skip + placed - 1     \* the places filled

EntriesInv == phase \in {"end", "entries"} => placed = 0

FixedInv == phase = "place" => \A k \in 0 .. code.skip - 1 : permutation[k] = k

RangeInv ==
  phase = "place" =>
    /\ \A k \in Fresh : temp[k] \in code.skip .. code.size - 1
    /\ \A k \in Filled : permutation[k] \in code.skip .. code.size - 1

OnceInv ==
  phase = "place" =>
    /\ \A k, l \in Fresh : temp[k] = temp[l] => k = l
    /\ \A k, l \in Filled : permutation[k] = permutation[l] => k = l
    /\ \A k \in Filled, l \in Fresh : permutation[k] # temp[l]

NoneMissingInv ==
  phase = "place" =>
    \A v \in code.skip .. code.size - 1 :
      \/ \E k \in Filled : permutation[k] = v
      \/ \E l \in Fresh : temp[l] = v

Inv ==
  /\ TypeOK
  /\ EntriesInv /\ FixedInv /\ RangeInv /\ OnceInv /\ NoneMissingInv
  /\ IsPermutation

-----------------------------------------------------------------------------

LEMMA CodeTyped ==
  TypeOK => /\ code.size \in Nat /\ code.skip \in Nat /\ code.skip <= code.size
            /\ Movable \in Nat /\ code.entries \in Seq(Nat)
  BY CodesAssumption DEF TypeOK, Movable

LEMMA InvInit == Init => Inv
  <1> SUFFICES ASSUME Init PROVE Inv
    OBVIOUS
  <1>1. code \in Codes /\ code.entries \in Seq(Nat)
    BY CodesAssumption DEF Init
  <1>2. TypeOK
    BY <1>1 DEF Init, TypeOK, Places
  <1> QED
    BY <1>2 DEF Init, Inv, EntriesInv, FixedInv, RangeInv, OnceInv, NoneMissingInv, IsPermutation

\* The steps that only read: nothing is placed yet.
LEMMA ReadStep == Inv /\ (ReadEnd \/ ReadEntry \/ Fail) => Inv'
  <1> SUFFICES ASSUME Inv, ReadEnd \/ ReadEntry \/ Fail PROVE Inv'
    OBVIOUS
  <1>0. TypeOK /\ EntriesInv /\ FixedInv /\ RangeInv /\ OnceInv /\ NoneMissingInv
    BY DEF Inv
  <1>1. phase' # "place" /\ phase' # "done"
    BY DEF ReadEnd, ReadEntry, Fail
  <1>2. TypeOK'
    <2>1. CASE ReadEnd \/ Fail
      BY <1>0, <2>1 DEF ReadEnd, Fail, TypeOK, Places, Movable
    <2>2. CASE ReadEntry
      <3> DEFINE v == code.entries[Len(lehmer) + 1]
      <3>1. CASE OutOfRange(v)
        BY <1>0, <2>2, <3>1 DEF ReadEntry, TypeOK, Places, Movable
      <3>2. CASE ~OutOfRange(v)
        <4>1. lehmer' = Append(lehmer, v) /\ UNCHANGED <<code, phase, temp, permutation, placed>>
          BY <2>2, <3>2 DEF ReadEntry
        <4>2. /\ Len(lehmer) < Len(code.entries) /\ v \in Nat
              /\ v + Len(lehmer) + 1 <= Movable
          <5>1. /\ Len(lehmer) < Len(code.entries) /\ Len(lehmer) \in Nat
                /\ code.entries \in Seq(Nat) /\ Len(code.entries) \in Nat /\ Movable \in Nat
            BY <1>0, <2>2, CodeTyped DEF ReadEntry, TypeOK
          <5>2. v \in Nat
            BY <5>1
          <5>3. ~(v >= Movable - Len(lehmer))
            BY <3>2 DEF OutOfRange
          <5> QED
            BY <5>1, <5>2, <5>3
        <4>3. lehmer' \in Seq(Nat) /\ Len(lehmer') = Len(lehmer) + 1
          BY <1>0, <4>1, <4>2 DEF TypeOK
        <4>4. \A j \in 1 .. Len(lehmer') :
                lehmer'[j] = code.entries[j] /\ lehmer'[j] + j <= Movable
          <5> TAKE j \in 1 .. Len(lehmer')
          <5>1. CASE j <= Len(lehmer)
            BY <1>0, <4>1, <4>3, <5>1 DEF TypeOK
          <5>2. CASE j = Len(lehmer) + 1
            <6>1. lehmer'[j] = v
              BY <1>0, <4>1, <4>2, <5>2 DEF TypeOK
            <6>2. Len(lehmer) \in Nat /\ v + j <= Movable
              <7>1. Len(lehmer) \in Nat /\ Movable \in Nat
                BY <1>0, CodeTyped DEF TypeOK
              <7> QED
                BY <4>2, <5>2, <7>1
            <6> QED
              BY <5>2, <6>1, <6>2
          <5> QED
            BY <1>0, <4>3, <5>1, <5>2 DEF TypeOK
        <4> QED
          <5>1. Len(lehmer') <= Len(code.entries) /\ placed' \in 0 .. Len(lehmer')
            BY <1>0, <4>1, <4>2, <4>3, CodeTyped DEF TypeOK
          <5>2. /\ code' = code /\ Places' = Places /\ Movable' = Movable
                /\ phase' = phase /\ temp' = temp /\ permutation' = permutation
            BY <4>1 DEF Places, Movable
          <5> QED
            BY <1>0, <4>3, <4>4, <5>1, <5>2 DEF TypeOK
      <3> QED
        BY <3>1, <3>2
    <2> QED
      BY <2>1, <2>2
  <1>3. EntriesInv'
    BY <1>0 DEF ReadEnd, ReadEntry, Fail, EntriesInv, Init, TypeOK
  <1> QED
    BY <1>0, <1>1, <1>2, <1>3 DEF Inv, FixedInv, RangeInv, OnceInv, NoneMissingInv, IsPermutation

LEMMA PrepareStep == Inv /\ Prepare => Inv'
  <1> SUFFICES ASSUME Inv, Prepare PROVE Inv'
    OBVIOUS
  <1>0. TypeOK /\ EntriesInv /\ FixedInv /\ RangeInv /\ OnceInv /\ NoneMissingInv
    BY DEF Inv
  <1>1. /\ phase' = "place" /\ placed' = 0 /\ placed = 0
        /\ code' = code /\ lehmer' = lehmer /\ Movable' = Movable
        /\ temp' = [k \in 0 .. Movable - 1 |-> code.skip + k]
        /\ permutation' = [k \in Places |-> IF k < code.skip THEN k ELSE Unset]
    BY <1>0 DEF Prepare, EntriesInv, Movable
  <1>2. Fresh' = 0 .. Movable - 1 /\ Filled' = {}
    BY <1>0, <1>1, CodeTyped DEF Fresh, Filled
  <1>3. TypeOK'
    BY <1>0, <1>1, CodeTyped DEF TypeOK, Places, Movable
  <1>4. NoneMissingInv'
    <2> SUFFICES ASSUME NEW v \in code.skip .. code.size - 1
                 PROVE  \E l \in Fresh' : temp'[l] = v
      BY <1>0, <1>1 DEF NoneMissingInv
    <2>1. v - code.skip \in Fresh' /\ temp'[v - code.skip] = v
      BY <1>0, <1>1, <1>2, CodeTyped DEF Movable
    <2> QED
      BY <2>1
  <1>5. /\ code.size \in Nat /\ code.skip \in Nat /\ Movable \in Nat
        /\ Movable = code.size - code.skip
    BY <1>0, CodeTyped DEF Movable
  <1>6. FixedInv'
    <2>1. \A k \in 0 .. code.skip - 1 : k \in Places /\ k < code.skip
      BY <1>0, CodeTyped DEF Places
    <2> QED
      BY <1>1, <2>1 DEF FixedInv
  <1>7. RangeInv' /\ OnceInv'
    <2>1. \A k \in 0 .. Movable - 1 : /\ temp'[k] = code.skip + k
                                      /\ code.skip + k \in code.skip .. code.size - 1
      BY <1>1, <1>5
    <2>2. \A k, l \in 0 .. Movable - 1 : code.skip + k = code.skip + l => k = l
      BY <1>5
    <2> QED
      BY <1>1, <1>2, <2>1, <2>2 DEF RangeInv, OnceInv
  <1>8. EntriesInv' /\ IsPermutation'
    BY <1>1 DEF EntriesInv, IsPermutation
  <1> QED
    BY <1>3, <1>4, <1>6, <1>7, <1>8 DEF Inv

\* One entry: the value at idx goes to its place, the others close the gap.
LEMMA PlaceStep == Inv /\ Place => Inv'
  <1> SUFFICES ASSUME Inv, Place PROVE Inv'
    OBVIOUS
  <1>0. TypeOK /\ EntriesInv /\ FixedInv /\ RangeInv /\ OnceInv /\ NoneMissingInv
    BY DEF Inv
  <1> DEFINE idx == lehmer[placed + 1]
             left == Movable - placed
             here == code.skip + placed
  <1>1. /\ phase = "place" /\ phase' = "place" /\ placed' = placed + 1
        /\ code' = code /\ lehmer' = lehmer /\ Movable' = Movable
        /\ permutation' = [permutation EXCEPT ![here] = temp[idx]]
        /\ temp' = Without(idx)
    BY DEF Place, Movable
  <1>2. /\ placed \in Nat /\ placed < Len(lehmer) /\ Len(lehmer) \in Nat
        /\ idx \in Nat /\ idx < left /\ left \in Nat /\ left <= Movable /\ Movable \in Nat
        /\ code.skip \in Nat /\ code.size \in Nat
        /\ code.skip + placed < code.size
    <2>1. placed \in Nat /\ placed < Len(lehmer) /\ Len(lehmer) \in Nat
      BY <1>0 DEF Place, TypeOK
    <2>2. placed + 1 \in 1 .. Len(lehmer)
      BY <2>1
    <2>3. idx \in Nat /\ idx + (placed + 1) <= Movable
      BY <1>0, <2>2 DEF TypeOK
    <2>4. /\ code.skip \in Nat /\ code.size \in Nat /\ Movable \in Nat
          /\ Movable = code.size - code.skip
      BY <1>0, CodeTyped DEF Movable
    <2> HIDE DEF idx
    <2> QED
      BY <2>1, <2>3, <2>4
  <1>3. /\ here \in Places /\ here \in Nat /\ code.skip <= here /\ here < code.size
        /\ here = code.skip + placed
    BY <1>2 DEF Places
  <1>4. /\ permutation'[here] = temp[idx]
        /\ \A k \in Places : k # here => permutation'[k] = permutation[k]
    BY <1>0, <1>1, <1>3 DEF TypeOK
  <1>5. \A k \in 0 .. Movable - 1 :
          temp'[k] = IF k < idx \/ k = Movable - 1 THEN temp[k] ELSE temp[k + 1]
    BY <1>1 DEF Without
  <1>6. Fresh = 0 .. left - 1 /\ Fresh' = 0 .. left - 2 /\ idx \in Fresh
    BY <1>1, <1>2 DEF Fresh
  <1>7. /\ Filled = code.skip .. here - 1 /\ Filled' = code.skip .. here
        /\ Filled \subseteq Places /\ here \notin Filled
    <2>1. here + 1 = code.skip + placed'
      <3>1. placed' = placed + 1 /\ placed \in Nat /\ code.skip \in Nat
        BY <1>1, <1>2
      <3> QED
        BY <3>1
    <2>2. Filled = code.skip .. here - 1 /\ Filled' = code.skip .. here
      BY <1>1, <1>2, <2>1 DEF Filled
    <2>3. here \in Nat /\ code.skip \in Nat /\ code.size \in Nat /\ here < code.size
      BY <1>2, <1>3
    <2> HIDE DEF here
    <2> QED
      BY <2>2, <2>3 DEF Places
  <1> HIDE DEF idx, left, here
  <1>8. \A k \in Fresh' : \E m \in Fresh : /\ temp'[k] = temp[m] /\ m # idx
                                           /\ m = IF k < idx THEN k ELSE k + 1
    <2> TAKE k \in Fresh'
    <2> DEFINE m == IF k < idx THEN k ELSE k + 1
    <2>1. k \in 0 .. Movable - 1 /\ k # Movable - 1 /\ m \in Fresh /\ m # idx
      BY <1>2, <1>6 DEF left
    <2>2. temp'[k] = temp[m]
      BY <1>5, <2>1
    <2> QED
      BY <2>1, <2>2
  <1>9. TypeOK'
    <2>1. temp' \in [0 .. Movable - 1 -> Places \cup {Unset}]
      <3>1. temp \in [0 .. Movable - 1 -> Places \cup {Unset}]
        BY <1>0 DEF TypeOK
      <3>2. \A k \in 0 .. Movable - 1 : temp'[k] \in Places \cup {Unset}
        <4> TAKE k \in 0 .. Movable - 1
        <4>1. k = Movable - 1 \/ k + 1 \in 0 .. Movable - 1
          BY <1>2
        <4> QED
          BY <1>5, <3>1, <4>1
      <3> QED
        BY <1>1, <3>2 DEF Without
    <2>2. permutation' \in [Places -> Places \cup {Unset}]
      <3>1. /\ temp[idx] \in Places \cup {Unset}
            /\ permutation \in [Places -> Places \cup {Unset}]
        BY <1>0, <1>2 DEF TypeOK
      <3> QED
        BY <1>1, <3>1
    <2> QED
      <3>1. Places' = Places /\ placed' \in 0 .. Len(lehmer')
        BY <1>1, <1>2 DEF Places
      <3> QED
        BY <1>0, <1>1, <2>1, <2>2, <3>1 DEF TypeOK
  <1>10. FixedInv'
    BY <1>0, <1>1, <1>2, <1>3, <1>4 DEF FixedInv, Places
  <1>11. RangeInv'
    <2>1. /\ \A k \in Fresh : temp[k] \in code.skip .. code.size - 1
          /\ \A k \in Filled : permutation[k] \in code.skip .. code.size - 1
      BY <1>0, <1>1 DEF RangeInv
    <2>2. \A k \in Fresh' : temp'[k] \in code.skip .. code.size - 1
      BY <1>8, <2>1
    <2>3. \A k \in Filled' : permutation'[k] \in code.skip .. code.size - 1
      <3> TAKE k \in Filled'
      <3>1. CASE k = here
        BY <1>4, <1>6, <2>1, <3>1
      <3>2. CASE k # here
        <4>1. k \in Filled /\ k \in Places
          BY <1>2, <1>3, <1>7, <3>2
        <4> QED
          BY <1>4, <2>1, <3>2, <4>1
      <3> QED
        BY <3>1, <3>2
    <2> QED
      BY <1>1, <2>2, <2>3 DEF RangeInv
  <1>12. OnceInv'
    <2>1. \A k, l \in Fresh' : temp'[k] = temp'[l] => k = l
      <3> SUFFICES ASSUME NEW k \in Fresh', NEW l \in Fresh', temp'[k] = temp'[l] PROVE k = l
        OBVIOUS
      <3>1. PICK m \in Fresh : temp'[k] = temp[m] /\ m = IF k < idx THEN k ELSE k + 1
        BY <1>8
      <3>2. PICK n \in Fresh : temp'[l] = temp[n] /\ n = IF l < idx THEN l ELSE l + 1
        BY <1>8
      <3>3. m = n
        BY <1>0, <1>1, <3>1, <3>2 DEF OnceInv
      <3> QED
        BY <1>2, <1>6, <3>1, <3>2, <3>3
    <2>2. \A k \in Filled, l \in Fresh : permutation[k] # temp[l]
      BY <1>0, <1>1 DEF OnceInv
    <2>3. \A k, l \in Filled' : permutation'[k] = permutation'[l] => k = l
      <3> SUFFICES ASSUME NEW k \in Filled', NEW l \in Filled', permutation'[k] = permutation'[l]
                   PROVE  k = l
        OBVIOUS
      <3>1. (k \in Filled \/ k = here) /\ (l \in Filled \/ l = here)
        BY <1>2, <1>3, <1>7
      <3>2. CASE k \in Filled /\ l \in Filled
        BY <1>0, <1>1, <1>4, <1>7, <3>2 DEF OnceInv
      <3>3. CASE k = here \/ l = here
        BY <1>4, <1>6, <1>7, <2>2, <3>1, <3>3
      <3> QED
        BY <3>1, <3>2, <3>3
    <2>4. \A k \in Filled', l \in Fresh' : permutation'[k] # temp'[l]
      <3> SUFFICES ASSUME NEW k \in Filled', NEW l \in Fresh' PROVE permutation'[k] # temp'[l]
        OBVIOUS
      <3>1. PICK m \in Fresh : temp'[l] = temp[m] /\ m # idx
        BY <1>8
      <3>2. CASE k = here
        BY <1>0, <1>1, <1>4, <1>6, <3>1, <3>2 DEF OnceInv
      <3>3. CASE k \in Filled
        BY <1>4, <1>7, <2>2, <3>1, <3>3
      <3> QED
        BY <1>2, <1>3, <1>7, <3>2, <3>3
    <2> QED
      BY <1>0, <1>1, <2>1, <2>3, <2>4 DEF OnceInv
  <1>13. NoneMissingInv'
    <2> SUFFICES ASSUME NEW v \in code.skip .. code.size - 1
                 PROVE  \/ \E k \in Filled' : permutation'[k] = v
                        \/ \E l \in Fresh' : temp'[l] = v
      BY <1>0, <1>1 DEF NoneMissingInv
    <2>1. \/ \E k \in Filled : permutation[k] = v
          \/ \E l \in Fresh : temp[l] = v
      BY <1>0, <1>1 DEF NoneMissingInv
    <2>2. CASE \E k \in Filled : permutation[k] = v
      <3>1. PICK k \in Filled : permutation[k] = v
        BY <2>2
      <3>2. k \in Filled' /\ k \in Places /\ k # here
        BY <1>2, <1>3, <1>7
      <3> QED
        BY <1>4, <3>1, <3>2
    <2>3. CASE \E l \in Fresh : temp[l] = v
      <3>1. PICK l \in Fresh : temp[l] = v
        BY <2>3
      <3>2. CASE l = idx
        BY <1>2, <1>3, <1>4, <1>7, <3>1, <3>2
      <3>3. CASE l < idx
        <4>1. l \in Fresh' /\ l \in 0 .. Movable - 1
          BY <1>2, <1>6, <3>3
        <4> QED
          BY <1>5, <3>1, <3>3, <4>1
      <3>4. CASE l > idx
        <4>1. /\ l - 1 \in Fresh' /\ l - 1 \in 0 .. Movable - 1
              /\ ~(l - 1 < idx) /\ l - 1 # Movable - 1
          BY <1>2, <1>6, <3>4
        <4>2. temp'[l - 1] = temp[(l - 1) + 1] /\ (l - 1) + 1 = l
          BY <1>5, <4>1, <1>6
        <4> QED
          BY <3>1, <4>1, <4>2
      <3> QED
        BY <1>2, <1>6, <3>2, <3>3, <3>4
    <2> QED
      BY <2>1, <2>2, <2>3
  <1> QED
    BY <1>0, <1>1, <1>9, <1>10, <1>11, <1>12, <1>13 DEF Inv, EntriesInv, IsPermutation

LEMMA PlaceRestStep == Inv /\ PlaceRest => Inv'
  <1> SUFFICES ASSUME Inv, PlaceRest PROVE Inv'
    OBVIOUS
  <1>0. TypeOK /\ EntriesInv /\ FixedInv /\ RangeInv /\ OnceInv /\ NoneMissingInv
    BY DEF Inv
  <1> DEFINE here == code.skip + placed
  <1>1. /\ phase = "place" /\ phase' = "done" /\ placed' = placed
        /\ code' = code /\ lehmer' = lehmer /\ temp' = temp
        /\ Places' = Places /\ Movable' = Movable
        /\ permutation' = [k \in Places |-> IF k < here THEN permutation[k] ELSE temp[k - here]]
    <2>1. \A k \in Places : (k - code.skip) - placed = k - here
      BY <1>0, CodeTyped DEF TypeOK, Places
    <2> QED
      BY <2>1 DEF PlaceRest, Places, Movable
  <1>2. /\ placed \in Nat /\ here \in Nat /\ code.skip \in Nat /\ code.size \in Nat
        /\ Movable = code.size - code.skip /\ placed <= Movable
    <2>1. placed <= Movable
      <3>1. CASE placed = 0
        BY <1>0, <3>1, CodeTyped
      <3>2. CASE placed # 0
        <4>1. placed \in 1 .. Len(lehmer) /\ lehmer[placed] \in Nat
          BY <1>0, <3>2 DEF TypeOK
        <4> QED
          <5>1. placed \in Nat /\ lehmer[placed] + placed <= Movable
            BY <1>0, <4>1 DEF TypeOK
          <5>2. Movable \in Nat
            BY <1>0, CodeTyped
          <5> QED
            BY <4>1, <5>1, <5>2
      <3> QED
        BY <3>1, <3>2
    <2> QED
      BY <1>0, <2>1, CodeTyped DEF TypeOK, Movable
  <1>3. Fresh = 0 .. code.size - here - 1 /\ Filled = code.skip .. here - 1
    BY <1>2 DEF Fresh, Filled
  <1> HIDE DEF here
  <1>4. /\ \A k \in 0 .. code.skip - 1 : permutation'[k] = k /\ k \in Places
        /\ \A k \in Filled : permutation'[k] = permutation[k] /\ k \in Places
        /\ \A k \in here .. code.size - 1 : /\ k - here \in Fresh /\ k \in Places
                                            /\ permutation'[k] = temp[k - here]
    <2>1. \A k \in 0 .. code.skip - 1 : permutation'[k] = k /\ k \in Places
      BY <1>0, <1>1, <1>2 DEF FixedInv, Places, here
    <2>2. \A k \in Filled : permutation'[k] = permutation[k] /\ k \in Places
      <3> SUFFICES ASSUME NEW k \in Filled
                   PROVE  permutation'[k] = permutation[k] /\ k \in Places
        OBVIOUS
      <3>1. k \in Nat /\ k < here /\ here <= code.size
        BY <1>2, <1>3 DEF here
      <3>2. k \in Places
        BY <1>2, <3>1 DEF Places
      <3>3. permutation'[k] = IF k < here THEN permutation[k] ELSE temp[k - here]
        BY <1>1, <3>2
      <3> QED
        BY <3>1, <3>2, <3>3
    <2>3. \A k \in here .. code.size - 1 : /\ k - here \in Fresh /\ k \in Places
                                           /\ permutation'[k] = temp[k - here]
      BY <1>1, <1>2, <1>3 DEF Places
    <2> QED
      BY <2>1, <2>2, <2>3
  <1>5. \A k \in Places : \/ k \in 0 .. code.skip - 1
                          \/ k \in Filled
                          \/ k \in here .. code.size - 1
    BY <1>2, <1>3 DEF Places, here
  <1>9. /\ \A k \in 0 .. code.skip - 1 : permutation'[k] = k
        /\ \A k \in Places : \/ k \in 0 .. code.skip - 1
                              \/ permutation'[k] \in code.skip .. code.size - 1
    <2>1. \A k \in Filled : permutation[k] \in code.skip .. code.size - 1
      BY <1>0, <1>1 DEF RangeInv
    <2>2. \A k \in Fresh : temp[k] \in code.skip .. code.size - 1
      BY <1>0, <1>1 DEF RangeInv
    <2> QED
      BY <1>4, <1>5, <2>1, <2>2
  <1>6. \A k, l \in Places : permutation'[k] = permutation'[l] => k = l
    <2> SUFFICES ASSUME NEW k \in Places, NEW l \in Places, permutation'[k] = permutation'[l]
                 PROVE  k = l
      OBVIOUS
    <2>1. CASE k \in 0 .. code.skip - 1
      BY <1>2, <1>9, <2>1
    <2>2. CASE l \in 0 .. code.skip - 1
      BY <1>2, <1>9, <2>2
    <2>3. CASE k \in Filled /\ l \in Filled
      BY <1>0, <1>1, <1>4, <2>3 DEF OnceInv
    <2>4. CASE k \in Filled /\ l \in here .. code.size - 1
      BY <1>0, <1>1, <1>4, <2>4 DEF OnceInv
    <2>5. CASE k \in here .. code.size - 1 /\ l \in Filled
      BY <1>0, <1>1, <1>4, <2>5 DEF OnceInv
    <2>6. CASE k \in here .. code.size - 1 /\ l \in here .. code.size - 1
      <3>1. k - here = l - here
        BY <1>0, <1>1, <1>4, <2>6 DEF OnceInv
      <3> QED
        BY <1>2, <2>6, <3>1
    <2> QED
      BY <1>5, <2>1, <2>2, <2>3, <2>4, <2>5, <2>6
  <1>7. \A v \in Places : \E k \in Places : permutation'[k] = v
    <2> SUFFICES ASSUME NEW v \in Places PROVE \E k \in Places : permutation'[k] = v
      OBVIOUS
    <2>1. CASE v < code.skip
      BY <1>2, <1>4, <2>1 DEF Places
    <2>2. CASE v \in code.skip .. code.size - 1
      <3>1. CASE \E k \in Filled : permutation[k] = v
        BY <1>4, <3>1
      <3>2. CASE \E l \in Fresh : temp[l] = v
        <4>1. PICK l \in Fresh : temp[l] = v
          BY <3>2
        <4>2. l + here \in here .. code.size - 1 /\ (l + here) - here = l
          BY <1>2, <1>3
        <4> QED
          BY <1>4, <4>1, <4>2
      <3> QED
        BY <1>0, <1>1, <2>2, <3>1, <3>2 DEF NoneMissingInv
    <2> QED
      BY <1>2, <2>1, <2>2 DEF Places
  <1>8. TypeOK'
    <2>1. \A k \in Places : permutation'[k] \in Places \cup {Unset}
      <3>1. code.skip .. code.size - 1 \subseteq Places /\ 0 .. code.skip - 1 \subseteq Places
        BY <1>2 DEF Places
      <3>2. /\ \A k \in Fresh : temp[k] \in code.skip .. code.size - 1
            /\ \A k \in Filled : permutation[k] \in code.skip .. code.size - 1
        BY <1>0, <1>1 DEF RangeInv
      <3> QED
        BY <1>4, <1>5, <3>1, <3>2
    <2> QED
      BY <1>0, <1>1, <2>1 DEF TypeOK
  <1> QED
    BY <1>1, <1>4, <1>6, <1>7, <1>8
    DEF Inv, EntriesInv, FixedInv, RangeInv, OnceInv, NoneMissingInv, IsPermutation

\* The inductive step: whatever is read or placed, the invariant holds again.
LEMMA InvStep == Inv /\ [Next]_vars => Inv'
  <1>1. Inv /\ UNCHANGED vars => Inv'
    BY DEF vars, Inv, TypeOK, EntriesInv, FixedInv, RangeInv, OnceInv, NoneMissingInv,
           IsPermutation, Fresh, Filled, Places, Movable
  <1> QED
    BY <1>1, ReadStep, PrepareStep, PlaceStep, PlaceRestStep DEF Next

LEMMA AlwaysInv == Spec => []Inv
  BY InvInit, InvStep, PTL DEF Spec

\* Every variable keeps its type; in particular every entry accepted is below
\* the number of values left, whatever the bitstream holds.
THEOREM TypeCorrect == Spec => []TypeOK
  <1>1. Inv => TypeOK
    BY DEF Inv
  <1> QED
    BY <1>1, AlwaysInv, PTL

\* For every size and skip: what jxl_coding_read_permutation returns is a
\* permutation that leaves the first skip places alone.
THEOREM AlwaysPermutation == Spec => []IsPermutation
  <1>1. Inv => IsPermutation
    BY DEF Inv
  <1> QED
    BY <1>1, AlwaysInv, PTL
-----------------------------------------------------------------------------
\* The entries are the Lehmer code of the result.  The values left in temp are
\* in order, so the one at idx has idx smaller ones among those not yet placed;
\* what counts them for a place already filled never changes.

BadCode == \E j \in 1 .. Len(code.entries) : j > Movable \/ code.entries[j] > Movable - j

SmallerLeft(j) ==
  {v \in code.skip .. code.size - 1 :
     /\ v < permutation[code.skip + j]
     /\ \A m \in 0 .. j : permutation[code.skip + m] # v}

ReadInv ==
  /\ phase \in {"entries", "place", "done"} => Len(code.entries) <= Movable
  /\ phase \in {"place", "done"} => Len(lehmer) = Len(code.entries)
  /\ phase = "invalid" => BadCode
SortedInv ==
  phase = "place" => \A k, l \in Fresh : k < l => temp[k] < temp[l]
RankInv ==
  phase = "place" =>
    \A j \in 0 .. placed - 1 : Cardinality(SmallerLeft(j)) = lehmer[j + 1]

LehmerInv == ReadInv /\ SortedInv /\ RankInv /\ HasLehmerCode

\* Sets of which one is mapped onto the other one to one are of one size.
LEMMA SameSize ==
  ASSUME NEW S, IsFiniteSet(S), NEW T, NEW f \in [S -> T],
         \A x, y \in S : f[x] = f[y] => x = y,
         \A z \in T : \E x \in S : f[x] = z
  PROVE  Cardinality(T) = Cardinality(S)
  <1>1. f \in Bijection(S, T)
    BY DEF Bijection, Injection, Surjection, IsInjective
  <1>2. ExistsBijection(S, T)
    BY <1>1 DEF ExistsBijection
  <1> QED
    BY <1>2, FS_Bijection

LEMMA LehmerInit == Init => LehmerInv
  BY DEF Init, LehmerInv, ReadInv, SortedInv, RankInv, HasLehmerCode

LEMMA LehmerReadStep ==
  ASSUME Inv, LehmerInv, ReadEnd \/ ReadEntry \/ Fail
  PROVE  LehmerInv'
  <1>1. /\ Movable \in Nat /\ Movable' = Movable /\ code' = code
        /\ Len(code.entries) \in Nat /\ Len(lehmer) \in Nat
    <2>1. TypeOK
      BY DEF Inv
    <2> QED
      BY <2>1, CodeTyped DEF ReadEnd, ReadEntry, Fail, Movable, TypeOK
  <1>2. phase' \notin {"place", "done"} /\ phase \in {"end", "entries"}
    BY DEF ReadEnd, ReadEntry, Fail
  <1>3. BadCode' = BadCode
    BY <1>1 DEF BadCode
  <1>4. ReadInv'
    <2>1. CASE ReadEnd
      <3>1. TooLong => BadCode
        <4>1. ASSUME TooLong
              PROVE  Len(code.entries) \in 1 .. Len(code.entries) /\ Len(code.entries) > Movable
          BY <1>1, <4>1 DEF TooLong
        <4> QED
          BY <4>1 DEF BadCode
      <3>2. phase' = IF TooLong THEN "invalid" ELSE "entries"
        BY <2>1 DEF ReadEnd
      <3> QED
        BY <1>1, <1>3, <3>1, <3>2 DEF ReadInv, TooLong
    <2>2. CASE ReadEntry
      <3> DEFINE j == Len(lehmer) + 1
      <3>1. j \in 1 .. Len(code.entries) /\ phase = "entries"
        BY <1>1, <2>2 DEF ReadEntry
      <3>2. OutOfRange(code.entries[j]) => BadCode
        <4>1. code.entries[j] \in Nat
          BY <3>1, CodeTyped DEF Inv
        <4>2. OutOfRange(code.entries[j]) => code.entries[j] > Movable - j
          BY <1>1, <4>1 DEF OutOfRange
        <4> HIDE DEF j
        <4> QED
          BY <3>1, <4>2 DEF BadCode
      <3>3. phase' = phase \/ (phase' = "invalid" /\ OutOfRange(code.entries[j]))
        BY <2>2 DEF ReadEntry
      <3> QED
        BY <1>1, <1>3, <3>1, <3>2, <3>3 DEF ReadInv, LehmerInv
    <2>3. CASE Fail
      BY <2>3 DEF Fail, ReadInv
    <2> QED
      BY <2>1, <2>2, <2>3
  <1> QED
    BY <1>2, <1>4 DEF LehmerInv, SortedInv, RankInv, HasLehmerCode

LEMMA LehmerPrepareStep ==
  ASSUME Inv, LehmerInv, Prepare
  PROVE  LehmerInv'
  <1>1. /\ placed = 0 /\ placed' = 0 /\ phase' = "place" /\ phase = "entries"
        /\ code' = code /\ Movable' = Movable /\ lehmer' = lehmer
        /\ Len(lehmer) = Len(code.entries)
        /\ temp' = [k \in 0 .. Movable - 1 |-> code.skip + k]
    BY DEF Prepare, Movable, Inv, EntriesInv
  <1>2. code.skip \in Nat /\ Movable \in Nat
    BY CodeTyped DEF Inv
  <1>3. SortedInv'
    BY <1>1, <1>2 DEF SortedInv, Fresh
  <1> QED
    BY <1>1, <1>3 DEF LehmerInv, ReadInv, RankInv, HasLehmerCode

\* Among the values left, the one at idx has exactly those in front of it below.
LEMMA LehmerPlaceStep ==
  ASSUME Inv, LehmerInv, Place
  PROVE  LehmerInv'
  <1> DEFINE idx == lehmer[placed + 1]
             left == Movable - placed
             here == code.skip + placed
  <1>0. /\ TypeOK /\ RangeInv /\ OnceInv /\ NoneMissingInv /\ SortedInv /\ RankInv /\ ReadInv
    BY DEF Inv, LehmerInv
  <1>1. /\ phase = "place" /\ phase' = "place" /\ placed' = placed + 1
        /\ code' = code /\ lehmer' = lehmer /\ Movable' = Movable
        /\ permutation' = [permutation EXCEPT ![here] = temp[idx]]
        /\ temp' = Without(idx) /\ placed < Len(lehmer)
    BY DEF Place, Movable
  <1>2. /\ placed \in Nat /\ Len(lehmer) \in Nat /\ code.skip \in Nat /\ code.size \in Nat
        /\ Movable \in Nat
        /\ idx \in Nat /\ idx < left /\ left \in Nat /\ left <= Movable
        /\ code.skip + placed < code.size
    <2>1. placed \in Nat /\ Len(lehmer) \in Nat
      BY <1>0 DEF TypeOK
    <2>2. placed + 1 \in 1 .. Len(lehmer)
      BY <1>1, <2>1
    <2>3. idx \in Nat /\ idx + (placed + 1) <= Movable
      BY <1>0, <2>2 DEF TypeOK
    <2>4. /\ code.skip \in Nat /\ code.size \in Nat /\ Movable \in Nat
          /\ Movable = code.size - code.skip
      BY <1>0, CodeTyped DEF Movable
    <2> HIDE DEF idx
    <2> QED
      BY <2>1, <2>3, <2>4
  <1>3. here \in Places /\ \A m \in 0 .. placed - 1 : code.skip + m \in Places /\ code.skip + m # here
    <2>1. here \in Places
      BY <1>2 DEF Places
    <2>2. ASSUME NEW m \in 0 .. placed - 1
          PROVE  code.skip + m \in Places /\ code.skip + m # here
      BY <1>2 DEF Places
    <2> QED
      BY <2>1, <2>2
  <1>9. Fresh = 0 .. left - 1 /\ Fresh' = 0 .. left - 2 /\ idx \in Fresh
    BY <1>1, <1>2 DEF Fresh
  <1>10. \A k \in 0 .. Movable - 1 :
           temp'[k] = IF k < idx \/ k = Movable - 1 THEN temp[k] ELSE temp[k + 1]
    BY <1>1 DEF Without
  <1>4. /\ permutation'[here] = temp[idx]
        /\ \A m \in 0 .. placed - 1 : permutation'[code.skip + m] = permutation[code.skip + m]
    BY <1>0, <1>1, <1>3 DEF TypeOK
  <1> HIDE DEF idx, left, here
  <1>5. SortedInv'
    <2> SUFFICES ASSUME NEW k \in Fresh', NEW l \in Fresh', k < l PROVE temp'[k] < temp'[l]
      BY DEF SortedInv
    <2>1. /\ k \in 0 .. Movable - 1 /\ k # Movable - 1 /\ k \in Nat
          /\ l \in 0 .. Movable - 1 /\ l # Movable - 1 /\ l \in Nat
      BY <1>2, <1>9
    <2> DEFINE m == IF k < idx THEN k ELSE k + 1
               n == IF l < idx THEN l ELSE l + 1
    <2>2. temp'[k] = temp[m] /\ temp'[l] = temp[n]
      BY <1>10, <2>1
    <2>3. m \in Fresh /\ n \in Fresh /\ m < n
      BY <1>2, <1>9, <2>1
    <2> HIDE DEF m, n
    <2> QED
      BY <1>0, <1>1, <2>2, <2>3 DEF SortedInv
  <1>6. RankInv'
    <2> SUFFICES ASSUME NEW j \in 0 .. placed PROVE Cardinality(SmallerLeft(j)') = lehmer[j + 1]
      BY <1>1, <1>2 DEF RankInv
    <2>1. CASE j < placed
      <3>1. j \in 0 .. placed - 1 /\ \A m \in 0 .. j : m \in 0 .. placed - 1
        BY <1>2, <2>1
      <3>2. SmallerLeft(j)' = SmallerLeft(j)
        BY <1>1, <1>4, <3>1 DEF SmallerLeft
      <3> QED
        BY <1>0, <1>1, <3>1, <3>2 DEF RankInv
    <2>2. CASE j = placed
      <3> DEFINE S == 0 .. idx - 1
                 T == SmallerLeft(j)'
      <3>1. T = {v \in code.skip .. code.size - 1 :
                   /\ v < temp[idx]
                   /\ \A m \in 0 .. placed : permutation'[code.skip + m] # v}
        BY <1>1, <1>4, <2>2 DEF SmallerLeft, here
      <3>2. /\ \A l \in Fresh : temp[l] \in code.skip .. code.size - 1
            /\ \A k, l \in Fresh : temp[k] = temp[l] => k = l
            /\ \A k, l \in Fresh : k < l => temp[k] < temp[l]
        BY <1>0, <1>1 DEF RangeInv, OnceInv, SortedInv
      <3>3. idx \in Fresh /\ \A l \in S : l \in Fresh /\ l < idx
        BY <1>2, <1>9
      <3>4. \A m \in 0 .. placed - 1 : code.skip + m \in Filled
        BY <1>2 DEF Filled
      <3>5. \A m \in 0 .. placed, l \in S : permutation'[code.skip + m] # temp[l]
        <4> TAKE m \in 0 .. placed, l \in S
        <4>1. CASE m = placed
          BY <1>4, <3>2, <3>3, <4>1 DEF here
        <4>2. CASE m \in 0 .. placed - 1
          BY <1>0, <1>1, <1>4, <3>3, <3>4, <4>2 DEF OnceInv
        <4> QED
          BY <1>2, <4>1, <4>2
      <3>6. \A l \in S : temp[l] \in T
        BY <3>1, <3>2, <3>3, <3>5
      <3>7. ASSUME NEW v \in T PROVE \E l \in S : temp[l] = v
        <4>1. /\ v \in code.skip .. code.size - 1 /\ v < temp[idx]
              /\ \A m \in 0 .. placed : permutation'[code.skip + m] # v
          BY <3>1, <3>7
        <4>2. ASSUME NEW k \in Filled PROVE permutation[k] # v
          <5>1. PICK m \in 0 .. placed - 1 : k = code.skip + m
            <6>1. k - code.skip \in 0 .. placed - 1 /\ k = code.skip + (k - code.skip)
              BY <1>2, <4>2 DEF Filled
            <6> QED
              BY <6>1
          <5>2. m \in 0 .. placed
            BY <1>2
          <5> QED
            BY <1>4, <4>1, <5>1, <5>2
        <4>3. PICK l \in Fresh : temp[l] = v
          BY <1>0, <1>1, <4>1, <4>2 DEF NoneMissingInv
        <4>4. l < idx
          <5>1. l \in Nat /\ v \in Nat /\ temp[idx] \in Nat
            BY <1>2, <1>9, <3>2, <3>3, <4>1
          <5>2. idx < l => temp[idx] < temp[l]
            BY <3>2, <3>3
          <5>3. ~(idx < l) /\ idx # l
            BY <4>1, <4>3, <5>1, <5>2
          <5> QED
            BY <1>2, <5>1, <5>3
        <4>5. l \in S
          BY <1>2, <1>9, <4>4
        <4> QED
          BY <4>3, <4>5
      <3>8. PICK f : f = [l \in S |-> temp[l]]
        OBVIOUS
      <3>9. f \in [S -> T] /\ \A l \in S : f[l] = temp[l]
        BY <3>6, <3>8
      <3>10. \A x, y \in S : f[x] = f[y] => x = y
        BY <3>2, <3>3, <3>9
      <3>11. \A z \in T : \E x \in S : f[x] = z
        BY <3>7, <3>9
      <3>12. IsFiniteSet(S) /\ Cardinality(S) = idx
        <4>1. idx - 1 \in Int /\ 0 \in Int
          BY <1>2
        <4>2. PICK i \in Nat : i = idx
          BY <1>2
        <4>3. IsFiniteSet(0 .. i - 1) /\ Cardinality(0 .. i - 1) = i
          <5>1. i - 1 \in Int /\ (0 > i - 1 => i = 0) /\ (i - 1) - 0 + 1 = i
            OBVIOUS
          <5> QED
            BY <4>1, <5>1, FS_Interval
        <4> QED
          BY <4>2, <4>3
      <3> HIDE DEF S, T
      <3>13. Cardinality(T) = idx
        BY <3>9, <3>10, <3>11, <3>12, SameSize
      <3> QED
        BY <2>2, <3>13 DEF T, idx
    <2> QED
      BY <1>2, <2>1, <2>2
  <1>7. ReadInv' /\ HasLehmerCode'
    BY <1>0, <1>1 DEF ReadInv, HasLehmerCode
  <1> QED
    BY <1>5, <1>6, <1>7 DEF LehmerInv

LEMMA LehmerPlaceRestStep ==
  ASSUME Inv, LehmerInv, PlaceRest
  PROVE  LehmerInv'
  <1>0. /\ TypeOK /\ RangeInv /\ SortedInv /\ RankInv /\ ReadInv
    BY DEF Inv, LehmerInv
  <1>1. /\ phase = "place" /\ phase' = "done" /\ placed = Len(lehmer)
        /\ code' = code /\ lehmer' = lehmer /\ Movable' = Movable /\ Places' = Places
        /\ permutation' = [k \in Places |-> IF k < code.skip + placed THEN permutation[k]
                                            ELSE temp[k - code.skip - placed]]
    BY DEF PlaceRest, Movable, Places
  <1>2. /\ placed \in Nat /\ code.skip \in Nat /\ code.size \in Nat
        /\ Movable = code.size - code.skip /\ Movable \in Nat
        /\ Len(code.entries) = placed /\ placed <= Movable
    BY <1>0, <1>1, CodeTyped DEF TypeOK, ReadInv, Movable
  <1>8. /\ Places \subseteq Nat
        /\ \A m \in 0 .. Movable - 1 : code.skip + m \in Places
        /\ \A v \in code.skip .. code.size - 1 : v \in Places
        /\ \A k \in Places : k < code.size
        /\ \A k \in Places : k < code.skip => k \in 0 .. code.skip - 1
    <2>1. Places = 0 .. code.size - 1
      BY DEF Places
    <2>2. PICK s \in Nat, z \in Nat : s = code.skip /\ z = code.size /\ Movable = z - s
      BY <1>2
    <2>3. /\ 0 .. z - 1 \subseteq Nat
          /\ \A m \in 0 .. (z - s) - 1 : s + m \in 0 .. z - 1
          /\ \A v \in s .. z - 1 : v \in 0 .. z - 1
          /\ \A k \in 0 .. z - 1 : k < z
          /\ \A k \in 0 .. z - 1 : k < s => k \in 0 .. s - 1
      OBVIOUS
    <2> QED
      BY <2>1, <2>2, <2>3
  <1>9. \A m, n \in Nat : code.skip + m = code.skip + n => m = n
    BY <1>2
  <1>3. /\ \A m \in 0 .. placed - 1 : permutation'[code.skip + m] = permutation[code.skip + m]
        /\ \A m \in placed .. Movable - 1 :
             m - placed \in Fresh /\ permutation'[code.skip + m] = temp[m - placed]
    <2>1. ASSUME NEW m \in 0 .. placed - 1
          PROVE  permutation'[code.skip + m] = permutation[code.skip + m]
      <3>1. m \in 0 .. Movable - 1 /\ code.skip + m < code.skip + placed
        BY <1>2
      <3>2. code.skip + m \in Places
        BY <1>8, <3>1
      <3> QED
        BY <1>1, <3>1, <3>2
    <2>2. ASSUME NEW m \in placed .. Movable - 1
          PROVE  m - placed \in Fresh /\ permutation'[code.skip + m] = temp[m - placed]
      <3>1. /\ m \in 0 .. Movable - 1 /\ ~(code.skip + m < code.skip + placed)
            /\ (code.skip + m) - code.skip - placed = m - placed
        BY <1>2
      <3>2. m - placed \in Fresh
        BY <1>2 DEF Fresh
      <3>3. code.skip + m \in Places
        BY <1>8, <3>1
      <3> QED
        BY <1>1, <3>1, <3>2, <3>3
    <2> QED
      BY <2>1, <2>2
  <1>4. /\ \A k, l \in Places : permutation'[k] = permutation'[l] => k = l
        /\ \A k \in 0 .. code.skip - 1 : permutation'[k] = k
        /\ \A v \in Places : \E k \in Places : permutation'[k] = v
        /\ permutation' \in [Places -> Places \cup {Unset}]
    <2>1. Inv'
      BY PlaceRestStep
    <2> QED
      BY <1>1, <2>1 DEF Inv, IsPermutation, TypeOK
  <1>5. \A k \in Fresh : temp[k] \in Nat
    BY <1>0, <1>1, <1>2 DEF RangeInv
  <1>6. ASSUME NEW j \in 0 .. Movable - 1
        PROVE  EntryAt(j) = Cardinality({m \in j + 1 .. Movable - 1 :
                              permutation'[code.skip + m] < permutation'[code.skip + j]})
    <2> DEFINE M == {m \in j + 1 .. Movable - 1 :
                       permutation'[code.skip + m] < permutation'[code.skip + j]}
    <2>1. CASE j < placed
      <3>1. /\ j \in 0 .. placed - 1 /\ \A m \in 0 .. j : m \in 0 .. placed - 1
            /\ j + 1 \in 1 .. Len(lehmer)
        BY <1>1, <1>2, <2>1
      <3>2. EntryAt(j) = lehmer[j + 1]
        BY <1>0, <1>1, <1>2, <2>1, <3>1 DEF EntryAt, TypeOK
      <3> DEFINE T == SmallerLeft(j)
      <3>3. T = {v \in code.skip .. code.size - 1 :
                   /\ v < permutation'[code.skip + j]
                   /\ \A m \in 0 .. j : permutation'[code.skip + m] # v}
        BY <1>3, <3>1 DEF SmallerLeft
      <3>4. ASSUME NEW m \in M PROVE permutation'[code.skip + m] \in T
        <4>1. /\ m \in j + 1 .. Movable - 1 /\ m \in 0 .. Movable - 1 /\ m \in Nat
              /\ permutation'[code.skip + m] < permutation'[code.skip + j]
          BY <1>2, <3>4
        <4>4. code.skip + m \in Places
          BY <1>8, <4>1
        <4>2. permutation'[code.skip + m] \in code.skip .. code.size - 1
          <5>1. CASE m < placed
            <6>1. m \in 0 .. placed - 1 /\ code.skip + m \in Filled
              BY <1>2, <4>1, <5>1 DEF Filled
            <6> QED
              BY <1>0, <1>1, <1>3, <6>1 DEF RangeInv
          <5>2. CASE ~(m < placed)
            <6>1. m \in placed .. Movable - 1
              BY <1>2, <4>1, <5>2
            <6> QED
              BY <1>0, <1>1, <1>3, <6>1 DEF RangeInv
          <5> QED
            BY <5>1, <5>2
        <4>3. ASSUME NEW n \in 0 .. j PROVE permutation'[code.skip + n] # permutation'[code.skip + m]
          <5>1. n \in 0 .. Movable - 1 /\ n \in Nat /\ n # m
            BY <1>2, <4>1
          <5>2. code.skip + n \in Places /\ code.skip + n # code.skip + m
            BY <1>8, <1>9, <4>1, <5>1
          <5> QED
            BY <1>4, <4>4, <5>2
        <4> QED
          BY <3>3, <4>1, <4>2, <4>3
      <3>5. ASSUME NEW v \in T PROVE \E m \in M : permutation'[code.skip + m] = v
        <4>1. /\ v \in code.skip .. code.size - 1 /\ v \in Places
              /\ v < permutation'[code.skip + j]
              /\ \A m \in 0 .. j : permutation'[code.skip + m] # v
          BY <1>8, <3>3, <3>5
        <4>2. PICK k \in Places : permutation'[k] = v
          BY <1>4, <4>1
        <4>3. k \in Nat /\ k < code.size /\ ~(k < code.skip)
          <5>1. k < code.skip => permutation'[k] = k
            BY <1>4, <1>8
          <5>2. v \in Nat /\ ~(v < code.skip) /\ k \in Nat /\ k < code.size
            BY <1>2, <1>8, <4>1, <4>2
          <5> QED
            BY <4>2, <5>1, <5>2
        <4>4. k - code.skip \in 0 .. Movable - 1 /\ code.skip + (k - code.skip) = k
          BY <1>2, <4>3
        <4>5. k - code.skip \notin 0 .. j
          BY <4>1, <4>2, <4>4
        <4>6. k - code.skip \in j + 1 .. Movable - 1
          BY <1>2, <4>4, <4>5
        <4> QED
          BY <4>1, <4>2, <4>4, <4>6
      <3>6. PICK f : f = [m \in M |-> permutation'[code.skip + m]]
        OBVIOUS
      <3>7. f \in [M -> T] /\ \A m \in M : f[m] = permutation'[code.skip + m]
        BY <3>4, <3>6
      <3>8. \A x, y \in M : f[x] = f[y] => x = y
        <4> SUFFICES ASSUME NEW x \in M, NEW y \in M, f[x] = f[y] PROVE x = y
          OBVIOUS
        <4>1. x \in 0 .. Movable - 1 /\ y \in 0 .. Movable - 1 /\ x \in Nat /\ y \in Nat
          BY <1>2
        <4>2. code.skip + x \in Places /\ code.skip + y \in Places
          BY <1>8, <4>1
        <4>3. code.skip + x = code.skip + y
          BY <1>4, <3>7, <4>2
        <4> QED
          BY <1>9, <4>1, <4>3
      <3>9. \A z \in T : \E x \in M : f[x] = z
        BY <3>5, <3>7
      <3>10. IsFiniteSet(M)
        <4>1. IsFiniteSet(j + 1 .. Movable - 1)
          <5>1. j + 1 \in Int /\ Movable - 1 \in Int
            BY <1>2
          <5> QED
            BY <5>1, FS_Interval
        <4>2. M \in SUBSET (j + 1 .. Movable - 1)
          OBVIOUS
        <4> HIDE DEF M
        <4> QED
          BY <4>1, <4>2, FS_Subset
      <3>11. Cardinality(T) = lehmer[j + 1]
        BY <1>0, <1>1, <3>1 DEF RankInv
      <3> HIDE DEF M, T
      <3>12. Cardinality(T) = Cardinality(M)
        BY <3>7, <3>8, <3>9, <3>10, SameSize
      <3> QED
        BY <3>2, <3>11, <3>12 DEF M
    <2>2. CASE ~(j < placed)
      <3>1. EntryAt(j) = 0
        BY <1>2, <2>2 DEF EntryAt
      <3>2. M = {}
        <4> SUFFICES ASSUME NEW m \in j + 1 .. Movable - 1
                     PROVE  ~(permutation'[code.skip + m] < permutation'[code.skip + j])
          OBVIOUS
        <4>1. /\ j \in placed .. Movable - 1 /\ m \in placed .. Movable - 1
              /\ j - placed < m - placed
          BY <1>2, <2>2
        <4>2. PICK a, b : a = temp[j - placed] /\ b = temp[m - placed]
          OBVIOUS
        <4>3. a < b /\ a \in Nat /\ b \in Nat
          BY <1>0, <1>1, <1>3, <1>5, <4>1, <4>2 DEF SortedInv
        <4> QED
          BY <1>3, <4>1, <4>2, <4>3
      <3>3. Cardinality({}) = 0
        BY FS_EmptySet
      <3> QED
        BY <3>1, <3>2, <3>3
    <2> QED
      BY <2>1, <2>2
  <1>7. HasLehmerCode'
    <2>1. \A j : EntryAt(j)' = EntryAt(j)
      BY <1>1 DEF EntryAt
    <2> QED
      BY <1>1, <1>6, <2>1 DEF HasLehmerCode
  <1>10. ReadInv'
    BY <1>0, <1>1 DEF ReadInv
  <1> QED
    BY <1>1, <1>7, <1>10 DEF LehmerInv, SortedInv, RankInv

LEMMA LehmerStep == Inv /\ LehmerInv /\ [Next]_vars => LehmerInv'
  <1>1. LehmerInv /\ UNCHANGED vars => LehmerInv'
    BY DEF vars, LehmerInv, ReadInv, BadCode, SortedInv, RankInv, SmallerLeft, HasLehmerCode,
           EntryAt, Fresh, Movable
  <1> QED
    BY <1>1, LehmerReadStep, LehmerPrepareStep, LehmerPlaceStep, LehmerPlaceRestStep DEF Next

LEMMA AlwaysLehmer == Spec => [](Inv /\ LehmerInv)
  BY AlwaysInv, LehmerInit, LehmerStep, PTL DEF Spec

\* For every size and skip: the entries read by jxl_coding_read_permutation are
\* the Lehmer code of the permutation it returns, those left out counting as 0.
THEOREM AlwaysHasLehmerCode == Spec => []HasLehmerCode
  <1>1. LehmerInv => HasLehmerCode
    BY DEF LehmerInv
  <1> QED
    BY <1>1, AlwaysLehmer, PTL

\* jxl_coding_read_permutation refuses a code exactly if it has more entries than
\* places or an entry above the number of values left.
THEOREM AlwaysOnlyBadCodesRefused == Spec => []OnlyBadCodesRefused
  <1>1. Inv /\ LehmerInv => OnlyBadCodesRefused
    <2> SUFFICES ASSUME Inv, LehmerInv, phase = "done" PROVE ~BadCode
      BY DEF OnlyBadCodesRefused, BadCode, LehmerInv, ReadInv
    <2>1. /\ TypeOK /\ Len(lehmer) = Len(code.entries) /\ Len(code.entries) <= Movable
          /\ Movable \in Nat /\ Len(lehmer) \in Nat
      BY CodeTyped DEF Inv, LehmerInv, ReadInv, TypeOK
    <2>2. ASSUME NEW j \in 1 .. Len(code.entries)
          PROVE  ~(j > Movable) /\ ~(code.entries[j] > Movable - j)
      <3>1. lehmer[j] = code.entries[j] /\ lehmer[j] + j <= Movable /\ lehmer[j] \in Nat
        BY <2>1, <2>2 DEF TypeOK
      <3> QED
        BY <2>1, <2>2, <3>1
    <2> QED
      BY <2>2 DEF BadCode
  <1> QED
    BY <1>1, AlwaysLehmer, PTL
=============================================================================
