------------------------- MODULE FrameAssembly_proofs -------------------------
(***************************************************************************)
(* Of every frame, of any number of sections of any sizes in any order,    *)
(* fed in any chunks: sections hold what lies at their offsets, loading    *)
(* ends exactly with the payload, and FrameSections is implemented.        *)
(***************************************************************************)
EXTENDS FrameAssembly, FunctionTheorems, FiniteSetTheorems, SequenceTheorems, TLAPS

N == EntryCount(frame)
B == frame.begins
Size == frame.sizes

LaidInv ==
  /\ acc = B[laid]
  /\ \A i \in E : i < laid => offsets[i] = B[i]
  /\ phase \in {"groups", "check", "idle", "feeding"} => laid = N

MonotoneInv == \A i, j \in 0 .. laid : i <= j => B[i] <= B[j]

OrderInv ==
  phase \in {"sizes", "groups", "check", "idle", "feeding"} => permutation = frame.order

TocInv ==
  phase \in {"groups", "check", "idle", "feeding"} =>
    /\ toc.original_to_bitstream = frame.order
    /\ \A k \in E : /\ frame.order[toc.bitstream_to_original[k]] = k
                    /\ toc.groups[k].offset = B[frame.order[k]] - frame.base
                    /\ toc.groups[k].size = Size[frame.order[k]]

DataInv ==
  phase \in {"check", "idle", "feeding"} =>
    \A i \in E : data[i].offset = B[i] - frame.base /\ data[i].size = Size[i]

\* A section holds the first of its own bytes.
BytesInv == \A i \in E : data[i].bytes = Span(B[i], B[i] + Have(i))

EmptyInv ==
  ~Loading => /\ \A i \in E : data[i].bytes = <<>>
              /\ reading = 0 /\ taken = frame.start /\ given = frame.start

\* What was taken fills the sections up to the one being read.
CursorInv ==
  Loading =>
    /\ \A i \in E : (i < reading => Have(i) = Size[i]) /\ (i > reading => Have(i) = 0)
    /\ taken = IF reading \in E THEN B[reading] + Have(reading) ELSE B[N]
    /\ acc <= frame.end

\* No call that took something ends in front of a section that lacks nothing.
IdleInv ==
  phase = "idle" => LoadingDone \/ taken = frame.start \/ Left(reading) > 0

Inv ==
  /\ TypeOK
  /\ LaidInv /\ MonotoneInv /\ OrderInv /\ TocInv /\ DataInv
  /\ BytesInv /\ EmptyInv /\ CursorInv /\ IdleInv

-----------------------------------------------------------------------------
(* Spans and frames *)

LEMMA SpanTyped ==
  ASSUME NEW a \in Nat, NEW b \in Nat, a <= b
  PROVE  /\ Span(a, b) \in Seq(Nat) /\ Len(Span(a, b)) = b - a
         /\ \A i \in 1 .. b - a : Span(a, b)[i] = a + i - 1
  <1> DEFINE n == b - a
  <1>1. n \in Nat /\ \A i \in 1 .. n : a + i - 1 \in Nat
    OBVIOUS
  <1>2. Span(a, b) = [i \in 1 .. n |-> a + i - 1]
    BY DEF Span
  <1>3. Span(a, b) \in [1 .. n -> Nat]
    BY <1>1, <1>2
  <1> HIDE DEF n
  <1>4. Span(a, b) \in Seq(Nat) /\ Len(Span(a, b)) = n
    BY <1>1, <1>3
  <1> QED
    BY <1>2, <1>4 DEF n

LEMMA SpanEmpty ==
  ASSUME NEW a \in Nat
  PROVE  Span(a, a) = <<>>
  BY SpanTyped, EmptySeq, SeqEqual

LEMMA SpanConcat ==
  ASSUME NEW a \in Nat, NEW b \in Nat, NEW c \in Nat, a <= b, b <= c
  PROVE  Span(a, b) \o Span(b, c) = Span(a, c)
  <1> DEFINE s == Span(a, b)
             t == Span(b, c)
             u == Span(a, c)
  <1>1. /\ s \in Seq(Nat) /\ Len(s) = b - a /\ \A i \in 1 .. b - a : s[i] = a + i - 1
    BY SpanTyped
  <1>2. /\ t \in Seq(Nat) /\ Len(t) = c - b /\ \A i \in 1 .. c - b : t[i] = b + i - 1
    BY SpanTyped
  <1>3. /\ u \in Seq(Nat) /\ Len(u) = c - a /\ \A i \in 1 .. c - a : u[i] = a + i - 1
    <2>1. a <= c
      OBVIOUS
    <2> QED
      BY <2>1, SpanTyped
  <1> HIDE DEF s, t, u
  <1>4. /\ s \o t \in Seq(Nat) /\ Len(s \o t) = Len(s) + Len(t)
        /\ \A i \in 1 .. Len(s) + Len(t) :
             (s \o t)[i] = IF i <= Len(s) THEN s[i] ELSE t[i - Len(s)]
    BY <1>1, <1>2, ConcatProperties
  <1>5. Len(s) + Len(t) = c - a
    BY <1>1, <1>2
  <1>6. \A i \in 1 .. c - a : (s \o t)[i] = u[i]
    <2> TAKE i \in 1 .. c - a
    <2>1. (s \o t)[i] = IF i <= b - a THEN s[i] ELSE t[i - (b - a)]
      BY <1>1, <1>4, <1>5
    <2>2. u[i] = a + i - 1
      BY <1>3
    <2>3. CASE i <= b - a
      <3>1. i \in 1 .. b - a
        BY <2>3
      <3>2. s[i] = a + i - 1
        BY <1>1, <3>1
      <3> QED
        BY <2>1, <2>2, <2>3, <3>2
    <2>4. CASE ~(i <= b - a)
      <3> DEFINE j == i - (b - a)
      <3>1. j \in 1 .. c - b /\ b + j - 1 = a + i - 1
        BY <2>4
      <3> HIDE DEF j
      <3>2. t[j] = b + j - 1
        BY <1>2, <3>1
      <3>3. (s \o t)[i] = t[j]
        BY <2>1, <2>4 DEF j
      <3> QED
        BY <2>2, <3>1, <3>2, <3>3
    <2> QED
      BY <2>3, <2>4
  <1>7. s \o t = u
    BY <1>3, <1>4, <1>5, <1>6, SeqEqual
  <1> QED
    BY <1>7 DEF s, t, u

LEMMA SpanStarts ==
  ASSUME NEW a \in Nat, NEW b \in Nat, NEW c \in Nat, a <= b, b <= c
  PROVE  Promise!StartsWith(Span(a, c), Span(a, b))
  <1> DEFINE s == Span(a, c)
             t == Span(a, b)
  <1>1. /\ s \in Seq(Nat) /\ Len(s) = c - a /\ \A i \in 1 .. c - a : s[i] = a + i - 1
    <2>1. a <= c
      OBVIOUS
    <2> QED
      BY <2>1, SpanTyped
  <1>2. /\ t \in Seq(Nat) /\ Len(t) = b - a /\ \A i \in 1 .. b - a : t[i] = a + i - 1
    BY SpanTyped
  <1> HIDE DEF s, t
  <1>3. Len(t) \in Nat /\ Len(t) <= Len(s)
    BY <1>1, <1>2
  <1>4. /\ SubSeq(s, 1, Len(t)) \in Seq(Nat) /\ Len(SubSeq(s, 1, Len(t))) = Len(t)
        /\ \A i \in 1 .. Len(t) : SubSeq(s, 1, Len(t))[i] = s[i]
    <2> DEFINE n == Len(t)
    <2>1. s \in Seq(Nat) /\ Len(s) \in Nat /\ n \in Nat /\ n <= Len(s)
      BY <1>1, <1>3
    <2> HIDE DEF n
    <2>2. \A i \in 1 .. n : s[i] \in Nat
      BY <2>1
    <2>3. SubSeq(s, 1, n) = [i \in 1 .. n |-> s[i]]
      BY <2>1
    <2>4. SubSeq(s, 1, n) \in Seq(Nat) /\ Len(SubSeq(s, 1, n)) = n
      BY <2>1, <2>2, <2>3
    <2>5. \A i \in 1 .. n : SubSeq(s, 1, n)[i] = s[i]
      BY <2>3
    <2> QED
      BY <2>4, <2>5 DEF n
  <1>5. \A i \in 1 .. Len(t) : SubSeq(s, 1, Len(t))[i] = t[i]
    BY <1>1, <1>2, <1>3, <1>4
  <1>6. SubSeq(s, 1, Len(t)) = t
    BY <1>1, <1>2, <1>4, <1>5, SeqEqual
  <1> QED
    BY <1>3, <1>6 DEF Promise!StartsWith, s, t

LEMMA CountTyped ==
  ASSUME NEW f \in Frames
  PROVE  EntryCount(f) \in Nat \ {0}
  <1>1. f.lf \in Nat /\ f.groups \in Nat /\ f.passes \in Nat
    BY FramesAssumption
  <1>2. \A x, y \in Nat : x * y \in Nat
    OBVIOUS
  <1>3. f.groups * f.passes \in Nat
    BY <1>1, <1>2
  <1> QED
    BY <1>1, <1>3 DEF EntryCount

LEMMA FrameTyped ==
  frame \in Frames =>
    /\ N \in Nat \ {0} /\ E = 0 .. N - 1 /\ 0 \in E
    /\ frame.order \in [E -> E] /\ Size \in [E -> Nat]
    /\ \A k, l \in E : frame.order[k] = frame.order[l] => k = l
    /\ \A v \in E : \E k \in E : frame.order[k] = v
    /\ frame.base \in Nat /\ frame.start \in Nat /\ frame.end \in Nat
    /\ frame.base < frame.start /\ frame.start <= frame.end
    /\ B \in [0 .. N -> Nat] /\ B[0] = frame.start
    /\ \A i \in E : B[i] \in Nat /\ B[i + 1] \in Nat /\ B[i + 1] = B[i] + Size[i]
  <1> SUFFICES ASSUME frame \in Frames
               PROVE  /\ N \in Nat \ {0} /\ E = 0 .. N - 1 /\ 0 \in E
                      /\ frame.order \in [E -> E] /\ Size \in [E -> Nat]
                      /\ \A k, l \in E : frame.order[k] = frame.order[l] => k = l
                      /\ \A v \in E : \E k \in E : frame.order[k] = v
                      /\ frame.base \in Nat /\ frame.start \in Nat /\ frame.end \in Nat
                      /\ frame.base < frame.start /\ frame.start <= frame.end
                      /\ B \in [0 .. N -> Nat] /\ B[0] = frame.start
                      /\ \A i \in E : /\ B[i] \in Nat /\ B[i + 1] \in Nat
                                      /\ B[i + 1] = B[i] + Size[i]
    OBVIOUS
  <1>1. N \in Nat \ {0} /\ E = 0 .. N - 1 /\ Entries(frame) = E
    BY CountTyped DEF N, E, Entries
  <1>2. 0 \in E /\ \A i \in E : i \in 0 .. N /\ i + 1 \in 0 .. N
    BY <1>1
  <1>3. /\ frame.order \in Bijections(E) /\ Size \in [E -> Nat]
        /\ frame.base \in Nat /\ frame.start \in Nat /\ frame.end \in Nat
        /\ frame.base < frame.start /\ frame.start <= frame.end
        /\ B \in [0 .. N -> Nat] /\ B[0] = frame.start
        /\ \A i \in E : B[i + 1] = B[i] + Size[i]
    BY <1>1, FramesAssumption DEF N, B, Size
  <1> QED
    BY <1>1, <1>2, <1>3 DEF Bijections

LEMMA SameFrame ==
  ASSUME frame' = frame
  PROVE  E' = E /\ N' = N /\ B' = B /\ Size' = Size
  BY DEF E, N, B, Size

-----------------------------------------------------------------------------
(* The table of contents *)

LEMMA InvInit == Init => Inv
  <1> SUFFICES ASSUME Init PROVE Inv
    OBVIOUS
  <1>1. /\ frame \in Frames /\ phase = "permutation" /\ permutation = Identity
        /\ offsets = [i \in E |-> 0] /\ laid = 0 /\ acc = frame.start
        /\ toc = NoToc /\ data = NoData
        /\ reading = 0 /\ taken = frame.start /\ given = frame.start /\ refusals = 0
    BY DEF Init
  <1>2. /\ N \in Nat \ {0} /\ E = 0 .. N - 1 /\ frame.start \in Nat /\ B[0] = frame.start
        /\ B \in [0 .. N -> Nat] /\ \A i \in E : B[i] \in Nat
    BY <1>1, FrameTyped
  <1>3. /\ data \in [E -> [offset : Nat, size : Nat, bytes : Seq(Nat)]]
        /\ \A i \in E : data[i].bytes = <<>> /\ data[i].size = 0 /\ Have(i) = 0
    BY <1>1 DEF NoData, Have
  <1>4. toc \in [groups : [E -> [offset : Nat, size : Nat]], original_to_bitstream : [E -> E],
                 bitstream_to_original : [E -> E], bookmark : Nat]
    BY <1>1 DEF NoToc, NoGroups, Identity
  <1>5. TypeOK
    <2>1. permutation \in [E -> E] /\ offsets \in [E -> Nat]
      BY <1>1 DEF Identity
    <2>2. laid \in 0 .. EntryCount(frame) /\ reading \in 0 .. EntryCount(frame)
      BY <1>1, <1>2 DEF N
    <2>3. refusals \in 0 .. MaxRefusals
      BY <1>1, BoundsAssumption
    <2>4. \A i \in E : Have(i) <= data[i].size
      BY <1>3
    <2> QED
      BY <1>1, <1>2, <1>3, <1>4, <2>1, <2>2, <2>3, <2>4 DEF TypeOK, Loading
  <1>6. LaidInv
    BY <1>1, <1>2 DEF LaidInv
  <1>7. MonotoneInv
    BY <1>1, <1>2 DEF MonotoneInv
  <1>8. BytesInv
    <2> SUFFICES ASSUME NEW i \in E PROVE data[i].bytes = Span(B[i], B[i] + Have(i))
      BY DEF BytesInv
    <2>1. B[i] \in Nat /\ Have(i) = 0
      BY <1>2, <1>3
    <2>2. B[i] + Have(i) = B[i]
      BY <2>1
    <2> QED
      BY <1>3, <2>1, <2>2, SpanEmpty
  <1>9. OrderInv /\ TocInv /\ DataInv /\ EmptyInv /\ CursorInv /\ IdleInv
    BY <1>1, <1>3 DEF OrderInv, TocInv, DataInv, EmptyInv, CursorInv, IdleInv, Loading
  <1> QED
    BY <1>5, <1>6, <1>7, <1>8, <1>9 DEF Inv

\* The steps that parse leave the payload alone.
LEMMA ParseKeeps ==
  ASSUME Inv, frame' = frame, UNCHANGED <<reading, taken, given, refusals>>,
         ~Loading, ~Loading', \A i \in E : data'[i].bytes = <<>>
  PROVE  BytesInv' /\ EmptyInv' /\ CursorInv' /\ IdleInv'
  <1>0. TypeOK /\ EmptyInv
    BY DEF Inv
  <1>1. E' = E /\ B' = B /\ \A i \in E : B[i] \in Nat
    BY <1>0, SameFrame, FrameTyped DEF TypeOK
  <1>2. BytesInv'
    <2> SUFFICES ASSUME NEW i \in E PROVE data'[i].bytes = Span(B[i], B[i] + Len(data'[i].bytes))
      BY <1>1 DEF BytesInv, Have
    <2>1. Len(data'[i].bytes) = 0 /\ B[i] \in Nat
      BY <1>1
    <2> QED
      BY <2>1, SpanEmpty
  <1>3. EmptyInv'
    BY <1>0, <1>1 DEF EmptyInv
  <1>4. CursorInv' /\ IdleInv'
    BY DEF CursorInv, IdleInv, Loading
  <1> QED
    BY <1>2, <1>3, <1>4

LEMMA ReadPermutationStep ==
  ASSUME Inv, ReadPermutation
  PROVE  Inv'
  <1>0. TypeOK /\ LaidInv /\ MonotoneInv /\ EmptyInv
    BY DEF Inv
  <1>1. /\ phase = "permutation" /\ phase' = "sizes" /\ permutation' = frame.order
        /\ frame' = frame /\ UNCHANGED <<offsets, laid, acc, toc, data>>
        /\ UNCHANGED <<reading, taken, given, refusals>>
    BY DEF ReadPermutation
  <1>2. E' = E /\ N' = N /\ B' = B /\ Size' = Size /\ frame.order \in [E -> E]
    BY <1>0, <1>1, SameFrame, FrameTyped DEF TypeOK
  <1>3. ~Loading /\ ~Loading'
    BY <1>1 DEF Loading
  <1>4. TypeOK'
    BY <1>0, <1>1, <1>2, <1>3 DEF TypeOK, Have
  <1>5. LaidInv' /\ MonotoneInv'
    BY <1>0, <1>1, <1>2 DEF LaidInv, MonotoneInv
  <1>6. OrderInv' /\ TocInv' /\ DataInv'
    BY <1>1 DEF OrderInv, TocInv, DataInv
  <1>7. BytesInv' /\ EmptyInv' /\ CursorInv' /\ IdleInv'
    <2>1. \A i \in E : data'[i].bytes = <<>>
      BY <1>0, <1>1, <1>3 DEF EmptyInv
    <2> QED
      BY <1>1, <1>3, <2>1, ParseKeeps
  <1> QED
    BY <1>4, <1>5, <1>6, <1>7 DEF Inv

LEMMA LayOutStep ==
  ASSUME Inv, LayOut
  PROVE  Inv'
  <1>0. TypeOK /\ LaidInv /\ MonotoneInv /\ OrderInv /\ EmptyInv
    BY DEF Inv
  <1>1. /\ phase = "sizes" /\ phase' = "sizes" /\ laid \in E
        /\ offsets' = [offsets EXCEPT ![laid] = acc]
        /\ acc' = acc + Size[laid] /\ laid' = laid + 1
        /\ frame' = frame /\ UNCHANGED <<permutation, toc, data>>
        /\ UNCHANGED <<reading, taken, given, refusals>>
    BY DEF LayOut, Size
  <1>2. /\ E' = E /\ N' = N /\ B' = B /\ Size' = Size
        /\ N \in Nat \ {0} /\ E = 0 .. N - 1 /\ B \in [0 .. N -> Nat]
        /\ Size \in [E -> Nat]
        /\ \A i \in E : B[i] \in Nat /\ B[i + 1] = B[i] + Size[i]
    BY <1>0, <1>1, SameFrame, FrameTyped DEF TypeOK
  <1>3. ~Loading /\ ~Loading'
    BY <1>1 DEF Loading
  <1>4. Size[laid] \in Nat /\ acc = B[laid] /\ acc \in Nat /\ laid \in Nat /\ laid + 1 \in 0 .. N
    <2>1. acc = B[laid] /\ acc \in Nat
      BY <1>0 DEF LaidInv, TypeOK
    <2> QED
      BY <1>1, <1>2, <2>1
  <1>5. acc' = B[laid'] /\ acc' \in Nat /\ laid' \in 0 .. N
    BY <1>1, <1>2, <1>4
  <1>6. TypeOK'
    <2>1. offsets' \in [E -> Nat]
      BY <1>0, <1>1, <1>4 DEF TypeOK
    <2>2. laid' \in 0 .. EntryCount(frame)
      BY <1>5 DEF N
    <2> QED
      BY <1>0, <1>1, <1>2, <1>3, <1>5, <2>1, <2>2 DEF TypeOK, Have
  <1>7. LaidInv'
    <2>1. ASSUME NEW i \in E, i < laid'
          PROVE  offsets'[i] = B[i]
      <3>1. offsets \in [E -> Nat] /\ \A j \in E : j < laid => offsets[j] = B[j]
        BY <1>0 DEF TypeOK, LaidInv
      <3>2. i < laid \/ i = laid
        BY <1>1, <1>2, <1>4, <2>1
      <3>3. CASE i < laid
        BY <1>1, <1>4, <3>1, <3>3
      <3>4. CASE i = laid
        BY <1>1, <1>4, <3>1, <3>4
      <3> QED
        BY <3>2, <3>3, <3>4
    <2> QED
      BY <1>1, <1>2, <1>5, <2>1 DEF LaidInv
  <1>8. MonotoneInv'
    <2> SUFFICES ASSUME NEW i \in 0 .. laid + 1, NEW j \in 0 .. laid + 1, i <= j
                 PROVE  B[i] <= B[j]
      BY <1>1, <1>2 DEF MonotoneInv
    <2>1. \A k, l \in 0 .. laid : k <= l => B[k] <= B[l]
      BY <1>0 DEF MonotoneInv
    <2>2. CASE j \in 0 .. laid
      BY <1>4, <2>1, <2>2
    <2>3. CASE j = laid + 1
      <3>1. B[j] = B[laid] + Size[laid] /\ B[laid] \in Nat
        BY <1>1, <1>2, <2>3
      <3>2. CASE i \in 0 .. laid
        <4>1. B[i] <= B[laid] /\ B[i] \in Nat
          BY <1>2, <1>4, <2>1, <3>2
        <4> QED
          BY <1>4, <3>1, <4>1
      <3>3. CASE i = laid + 1
        BY <1>4, <2>3, <3>1, <3>3
      <3> QED
        BY <1>4, <3>2, <3>3
    <2> QED
      BY <1>4, <2>2, <2>3
  <1>9. OrderInv' /\ TocInv' /\ DataInv'
    BY <1>0, <1>1 DEF OrderInv, TocInv, DataInv
  <1>10. BytesInv' /\ EmptyInv' /\ CursorInv' /\ IdleInv'
    <2>1. \A i \in E : data'[i].bytes = <<>>
      BY <1>0, <1>1, <1>3 DEF EmptyInv
    <2> QED
      BY <1>1, <1>3, <2>1, ParseKeeps
  <1> QED
    BY <1>6, <1>7, <1>8, <1>9, <1>10 DEF Inv

LEMMA AdjustedTo ==
  ASSUME NEW x \in Nat, NEW y \in Nat, frame.base \in Nat, frame.base < y, y <= x
  PROVE  Adjusted(x) = x - frame.base /\ x - frame.base \in Nat
  BY DEF Adjusted

LEMMA ArrangeStep ==
  ASSUME Inv, Arrange
  PROVE  Inv'
  <1>0. TypeOK /\ LaidInv /\ MonotoneInv /\ OrderInv /\ EmptyInv
    BY DEF Inv
  <1>1. /\ phase = "sizes" /\ phase' = "groups" /\ laid = N
        /\ toc' = [groups |-> [k \in E |-> Group(k)],
                   original_to_bitstream |-> permutation,
                   bitstream_to_original |-> InverseOf(permutation),
                   bookmark |-> Group(InverseOf(permutation)[0]).offset]
        /\ frame' = frame /\ UNCHANGED <<permutation, offsets, laid, acc, data>>
        /\ UNCHANGED <<reading, taken, given, refusals>>
    BY DEF Arrange, N
  <1>2. /\ E' = E /\ N' = N /\ B' = B /\ Size' = Size
        /\ N \in Nat \ {0} /\ E = 0 .. N - 1 /\ 0 \in E
        /\ frame.order \in [E -> E] /\ Size \in [E -> Nat]
        /\ \A v \in E : \E k \in E : frame.order[k] = v
        /\ \A i \in E : B[i] \in Nat
        /\ frame.base \in Nat /\ frame.base < B[0]
    BY <1>0, <1>1, SameFrame, FrameTyped DEF TypeOK
  <1>3. ~Loading /\ ~Loading'
    BY <1>1 DEF Loading
  <1>4. permutation = frame.order
    BY <1>0, <1>1 DEF OrderInv
  <1>5. \A k \in E : InverseOf(permutation)[k] \in E /\ frame.order[InverseOf(permutation)[k]] = k
    BY <1>2, <1>4 DEF InverseOf
  <1>6. InverseOf(permutation) \in [E -> E]
    BY <1>5 DEF InverseOf
  <1>7. \A k \in E : /\ Group(k).offset = B[frame.order[k]] - frame.base
                     /\ Group(k).offset \in Nat
                     /\ Group(k).size = Size[frame.order[k]] /\ Group(k).size \in Nat
                     /\ Group(k) \in [offset : Nat, size : Nat]
    <2> TAKE k \in E
    <2> DEFINE o == frame.order[k]
    <2>1. o \in E /\ o \in 0 .. N /\ 0 \in 0 .. N /\ 0 <= o /\ o < N
      <3>1. o \in E
        BY <1>2
      <3> HIDE DEF o
      <3> QED
        BY <1>2, <3>1
    <2> HIDE DEF o
    <2>2. offsets[o] = B[o]
      BY <1>0, <1>1, <2>1 DEF LaidInv
    <2>3. B[0] <= B[o]
      BY <1>0, <1>1, <2>1 DEF MonotoneInv
    <2>4. B[0] \in Nat /\ B[o] \in Nat /\ Size[o] \in Nat
      BY <1>2, <2>1
    <2>5. Adjusted(B[o]) = B[o] - frame.base /\ B[o] - frame.base \in Nat
      BY <1>2, <2>3, <2>4, AdjustedTo
    <2>6. Group(k) = [offset |-> Adjusted(offsets[o]), size |-> Size[o]]
      BY <1>4 DEF Group, Size, o
    <2> QED
      BY <2>2, <2>4, <2>5, <2>6 DEF o
  <1>8. TypeOK'
    <2>1. toc' \in [groups : [E -> [offset : Nat, size : Nat]], original_to_bitstream : [E -> E],
                    bitstream_to_original : [E -> E], bookmark : Nat]
      <3>1. [k \in E |-> Group(k)] \in [E -> [offset : Nat, size : Nat]]
        BY <1>7
      <3>2. Group(InverseOf(permutation)[0]).offset \in Nat
        BY <1>2, <1>5, <1>7
      <3>3. permutation \in [E -> E]
        BY <1>0 DEF TypeOK
      <3> QED
        BY <1>1, <1>6, <3>1, <3>2, <3>3
    <2> QED
      BY <1>0, <1>1, <1>2, <1>3, <2>1 DEF TypeOK, Have
  <1>9. LaidInv' /\ MonotoneInv' /\ OrderInv' /\ DataInv'
    BY <1>0, <1>1, <1>2 DEF LaidInv, MonotoneInv, OrderInv, DataInv
  <1>10. TocInv'
    <2>1. toc'.original_to_bitstream = frame.order
      BY <1>1, <1>4
    <2>2. \A k \in E : /\ frame.order[toc'.bitstream_to_original[k]] = k
                       /\ toc'.groups[k] = Group(k)
      BY <1>1, <1>5
    <2> QED
      BY <1>1, <1>2, <1>7, <2>1, <2>2 DEF TocInv
  <1>11. BytesInv' /\ EmptyInv' /\ CursorInv' /\ IdleInv'
    <2>1. \A i \in E : data'[i].bytes = <<>>
      BY <1>0, <1>1, <1>3 DEF EmptyInv
    <2> QED
      BY <1>1, <1>3, <2>1, ParseKeeps
  <1> QED
    BY <1>8, <1>9, <1>10, <1>11 DEF Inv

LEMMA CreateDataStep ==
  ASSUME Inv, CreateData
  PROVE  Inv'
  <1>0. TypeOK /\ LaidInv /\ MonotoneInv /\ OrderInv /\ TocInv
    BY DEF Inv
  <1>1. /\ phase = "groups" /\ phase' = "check"
        /\ data' = [i \in E |-> [offset |-> toc.groups[Stored(i)].offset,
                                 size |-> toc.groups[Stored(i)].size, bytes |-> <<>>]]
        /\ frame' = frame /\ UNCHANGED <<permutation, offsets, laid, acc, toc>>
        /\ UNCHANGED <<reading, taken, given, refusals>>
    BY DEF CreateData
  <1>2. E' = E /\ N' = N /\ B' = B /\ Size' = Size /\ Size \in [E -> Nat]
    BY <1>0, <1>1, SameFrame, FrameTyped DEF TypeOK
  <1>3. ~Loading /\ ~Loading'
    BY <1>1 DEF Loading
  <1>4. \A i \in E : Stored(i) \in E /\ frame.order[Stored(i)] = i
    BY <1>0, <1>1 DEF TypeOK, TocInv, Stored
  <1>5. \A k \in E : /\ toc.groups[k].offset \in Nat /\ toc.groups[k].size \in Nat
                     /\ toc.groups[k].offset = B[frame.order[k]] - frame.base
                     /\ toc.groups[k].size = Size[frame.order[k]]
    BY <1>0, <1>1 DEF TypeOK, TocInv
  <1>6. \A i \in E : /\ data'[i].offset = B[i] - frame.base /\ data'[i].size = Size[i]
                     /\ data'[i].bytes = <<>> /\ data'[i].offset \in Nat /\ data'[i].size \in Nat
    BY <1>1, <1>4, <1>5
  <1>7. TypeOK'
    <2>1. data' \in [E -> [offset : Nat, size : Nat, bytes : Seq(Nat)]]
      <3>1. \A i \in E : /\ toc.groups[Stored(i)].offset \in Nat
                         /\ toc.groups[Stored(i)].size \in Nat
        BY <1>4, <1>5
      <3> QED
        BY <1>1, <3>1
    <2>2. \A i \in E : Len(data'[i].bytes) <= data'[i].size
      BY <1>6
    <2> QED
      BY <1>0, <1>1, <1>2, <1>3, <2>1, <2>2 DEF TypeOK, Have
  <1>8. LaidInv' /\ MonotoneInv' /\ OrderInv' /\ TocInv'
    BY <1>0, <1>1, <1>2 DEF LaidInv, MonotoneInv, OrderInv, TocInv
  <1>9. DataInv'
    BY <1>1, <1>2, <1>6 DEF DataInv
  <1>10. BytesInv' /\ EmptyInv' /\ CursorInv' /\ IdleInv'
    BY <1>1, <1>3, <1>6, ParseKeeps
  <1> QED
    BY <1>7, <1>8, <1>9, <1>10 DEF Inv

LEMMA FailParseStep ==
  ASSUME Inv, FailParse
  PROVE  Inv'
  <1>0. TypeOK /\ LaidInv /\ MonotoneInv /\ EmptyInv
    BY DEF Inv
  <1>1. /\ phase \in {"permutation", "sizes", "groups"} /\ phase' = "failed"
        /\ frame' = frame /\ UNCHANGED <<permutation, offsets, laid, acc, toc, data>>
        /\ UNCHANGED <<reading, taken, given, refusals>>
    BY DEF FailParse
  <1>2. E' = E /\ N' = N /\ B' = B /\ Size' = Size
    BY <1>1, SameFrame
  <1>3. ~Loading /\ ~Loading'
    BY <1>1 DEF Loading
  <1>4. TypeOK'
    BY <1>0, <1>1, <1>2, <1>3 DEF TypeOK, Have
  <1>5. LaidInv' /\ MonotoneInv' /\ OrderInv' /\ TocInv' /\ DataInv'
    BY <1>0, <1>1, <1>2 DEF LaidInv, MonotoneInv, OrderInv, TocInv, DataInv
  <1>6. BytesInv' /\ EmptyInv' /\ CursorInv' /\ IdleInv'
    <2>1. \A i \in E : data'[i].bytes = <<>>
      BY <1>0, <1>1, <1>3 DEF EmptyInv
    <2> QED
      BY <1>1, <1>3, <2>1, ParseKeeps
  <1> QED
    BY <1>4, <1>5, <1>6 DEF Inv

-----------------------------------------------------------------------------
(* The payload *)

\* What a step that reads the payload, or admits it, leaves as it was.
LEMMA TableKept ==
  ASSUME Inv, UNCHANGED <<frame, permutation, offsets, laid, acc, toc>>,
         phase \in {"check", "idle", "feeding"},
         phase' \in {"idle", "feeding", "failed"}
  PROVE  LaidInv' /\ MonotoneInv' /\ OrderInv' /\ TocInv'
  <1>0. TypeOK /\ LaidInv /\ MonotoneInv /\ OrderInv /\ TocInv
    BY DEF Inv
  <1>1. E' = E /\ N' = N /\ B' = B /\ Size' = Size
    BY SameFrame
  <1> QED
    BY <1>0, <1>1 DEF LaidInv, MonotoneInv, OrderInv, TocInv

LEMMA CheckPayloadStep ==
  ASSUME Inv, CheckPayload
  PROVE  Inv'
  <1>0. TypeOK /\ LaidInv /\ MonotoneInv /\ DataInv /\ BytesInv /\ EmptyInv
    BY DEF Inv
  <1>1. /\ phase = "check" /\ phase' = IF acc <= frame.end THEN "idle" ELSE "failed"
        /\ frame' = frame /\ UNCHANGED <<permutation, offsets, laid, acc, toc, data>>
        /\ UNCHANGED <<reading, taken, given, refusals>>
    BY DEF CheckPayload
  <1>2. /\ E' = E /\ N' = N /\ B' = B /\ Size' = Size /\ N \in Nat \ {0} /\ E = 0 .. N - 1
        /\ frame.start \in Nat /\ frame.end \in Nat /\ frame.start <= frame.end
        /\ B[0] = frame.start /\ 0 \in E
    BY <1>0, <1>1, SameFrame, FrameTyped DEF TypeOK
  <1>3. /\ \A i \in E : data[i].bytes = <<>> /\ Have(i) = 0
        /\ reading = 0 /\ taken = frame.start /\ given = frame.start
    BY <1>0, <1>1 DEF EmptyInv, Loading, Have
  <1>4. TypeOK'
    <2>1. phase' \in {"idle", "failed"}
      BY <1>1
    <2>2. frame.start <= taken /\ taken <= given /\ given <= frame.end
      BY <1>2, <1>3
    <2> QED
      BY <1>0, <1>1, <1>2, <2>1, <2>2 DEF TypeOK, Have, Loading
  <1>5. LaidInv' /\ MonotoneInv' /\ OrderInv' /\ TocInv'
    BY <1>1, TableKept
  <1>6. DataInv' /\ BytesInv' /\ EmptyInv'
    BY <1>0, <1>1, <1>2, <1>3 DEF DataInv, BytesInv, EmptyInv, Have
  <1>7. CursorInv'
    <2>1. \A i \in E : (i < reading => FALSE) /\ Have(i) = 0
      BY <1>2, <1>3
    <2>2. taken = B[reading] + Have(reading) /\ reading \in E
      BY <1>2, <1>3
    <2> QED
      BY <1>1, <1>2, <2>1, <2>2 DEF CursorInv, Have, Loading
  <1>8. IdleInv'
    BY <1>1, <1>3 DEF IdleInv
  <1> QED
    BY <1>4, <1>5, <1>6, <1>7, <1>8 DEF Inv

LEMMA FeedStep ==
  ASSUME Inv, NEW n \in 0 .. frame.end - frame.start, Feed(n)
  PROVE  Inv'
  <1>0. TypeOK /\ DataInv /\ BytesInv /\ CursorInv
    BY DEF Inv
  <1>1. /\ phase = "idle" /\ phase' = "feeding" /\ given' = taken + n /\ given' <= frame.end
        /\ frame' = frame /\ UNCHANGED <<permutation, offsets, laid, acc, toc, data>>
        /\ UNCHANGED <<reading, taken, refusals>>
    BY DEF Feed
  <1>2. /\ E' = E /\ N' = N /\ B' = B /\ Size' = Size
        /\ frame.start \in Nat /\ frame.end \in Nat
    BY <1>0, <1>1, SameFrame, FrameTyped DEF TypeOK
  <1>3. n \in Nat /\ taken \in Nat /\ frame.start <= taken
    BY <1>0, <1>1, <1>2 DEF TypeOK, Loading
  <1>4. given' \in Nat /\ taken <= given'
    BY <1>1, <1>3
  <1>5. TypeOK'
    BY <1>0, <1>1, <1>2, <1>3, <1>4 DEF TypeOK, Have, Loading
  <1>6. LaidInv' /\ MonotoneInv' /\ OrderInv' /\ TocInv'
    BY <1>1, TableKept
  <1>7. DataInv' /\ BytesInv' /\ EmptyInv' /\ CursorInv' /\ IdleInv'
    BY <1>0, <1>1, <1>2
       DEF DataInv, BytesInv, EmptyInv, CursorInv, IdleInv, Have, Loading
  <1> QED
    BY <1>5, <1>6, <1>7 DEF Inv

LEMMA CurrentSection ==
  ASSUME Inv, phase = "feeding", ~LoadingDone
  PROVE  /\ reading \in E /\ reading \in Nat /\ reading + 1 \in 0 .. N
         /\ B[reading] \in Nat /\ Size[reading] \in Nat /\ Have(reading) \in Nat
         /\ B[reading + 1] = B[reading] + Size[reading]
         /\ Have(reading) <= Size[reading] /\ data[reading].size = Size[reading]
         /\ Left(reading) = Size[reading] - Have(reading)
         /\ taken = B[reading] + Have(reading)
         /\ data[reading].bytes = Span(B[reading], taken)
         /\ taken \in Nat /\ given \in Nat /\ taken <= given
  <1>0. TypeOK /\ DataInv /\ BytesInv /\ CursorInv
    BY DEF Inv
  <1>1. /\ N \in Nat \ {0} /\ E = 0 .. N - 1 /\ Size \in [E -> Nat]
        /\ \A i \in E : B[i] \in Nat /\ B[i + 1] = B[i] + Size[i]
    BY <1>0, FrameTyped DEF TypeOK
  <1>2. reading \in 0 .. N /\ reading # N
    BY <1>0 DEF TypeOK, LoadingDone, N
  <1>3. reading \in E /\ reading \in Nat /\ reading + 1 \in 0 .. N
    BY <1>1, <1>2
  <1>4. /\ B[reading] \in Nat /\ Size[reading] \in Nat
        /\ B[reading + 1] = B[reading] + Size[reading]
    BY <1>1, <1>3
  <1>5. data[reading].size = Size[reading]
    BY <1>0, <1>3 DEF DataInv
  <1>6. Have(reading) \in Nat /\ Have(reading) <= Size[reading]
    BY <1>0, <1>3, <1>5 DEF TypeOK, Have
  <1>7. taken = B[reading] + Have(reading)
    BY <1>0, <1>3 DEF CursorInv, Loading
  <1>8. data[reading].bytes = Span(B[reading], taken)
    BY <1>0, <1>3, <1>7 DEF BytesInv
  <1>9. taken \in Nat /\ given \in Nat /\ taken <= given
    BY <1>0 DEF TypeOK, Loading
  <1> QED
    BY <1>3, <1>4, <1>5, <1>6, <1>7, <1>8, <1>9 DEF Left

\* What a section receives continues what it holds.
LEMMA Received ==
  ASSUME Inv, phase = "feeding", ~LoadingDone,
         NEW n \in Nat, n <= Left(reading), n <= given - taken,
         Receive(reading, n), frame' = frame
  PROVE  /\ data' \in [E -> [offset : Nat, size : Nat, bytes : Seq(Nat)]]
         /\ \A i \in E : /\ data'[i].size = data[i].size /\ data'[i].offset = data[i].offset
                         /\ Len(data'[i].bytes) = IF i = reading THEN Have(i) + n ELSE Have(i)
                         /\ Len(data'[i].bytes) <= data'[i].size
         /\ BytesInv' /\ DataInv'
         /\ taken' = taken + n /\ taken' \in Nat /\ taken' <= given
  <1>0. TypeOK /\ DataInv /\ BytesInv
    BY DEF Inv
  <1> DEFINE r == reading
             b == data[r].bytes \o Span(taken, taken + n)
  <1>1. /\ r \in E /\ B[r] \in Nat /\ Have(r) \in Nat /\ taken \in Nat /\ given \in Nat
        /\ taken = B[r] + Have(r) /\ data[r].bytes = Span(B[r], taken)
        /\ Left(r) = data[r].size - Have(r) /\ data[r].size \in Nat
    BY CurrentSection
  <1>2. /\ data' = [data EXCEPT ![r] = [@ EXCEPT !.bytes = b]]
        /\ taken' = taken + n
    BY DEF Receive
  <1>3. b = Span(B[r], taken + n)
    <2> DEFINE x == B[r]
               z == taken + n
    <2>1. x \in Nat /\ taken \in Nat /\ z \in Nat /\ x <= taken /\ taken <= z
      BY <1>1
    <2>2. b = Span(x, taken) \o Span(taken, z)
      BY <1>1
    <2> HIDE DEF b, x, z
    <2>3. Span(x, taken) \o Span(taken, z) = Span(x, z)
      BY <2>1, SpanConcat
    <2> QED
      BY <2>2, <2>3 DEF x, z
  <1>4. b \in Seq(Nat) /\ Len(b) = Have(r) + n /\ Have(r) + n <= data[r].size
    <2> DEFINE x == B[r]
               z == taken + n
    <2>1. x \in Nat /\ z \in Nat /\ x <= z /\ z - x = Have(r) + n
      BY <1>1
    <2>2. b = Span(x, z)
      BY <1>3
    <2> HIDE DEF b, x, z
    <2>3. Span(x, z) \in Seq(Nat) /\ Len(Span(x, z)) = z - x
      BY <2>1, SpanTyped
    <2> QED
      BY <1>1, <2>1, <2>2, <2>3
  <1> HIDE DEF b
  <1>5. /\ data \in [E -> [offset : Nat, size : Nat, bytes : Seq(Nat)]]
        /\ \A i \in E : Have(i) <= data[i].size
    BY <1>0 DEF TypeOK
  <1>6. data'[r] = [data[r] EXCEPT !.bytes = b] /\ \A i \in E : i # r => data'[i] = data[i]
    BY <1>1, <1>2, <1>5
  <1>7. data' \in [E -> [offset : Nat, size : Nat, bytes : Seq(Nat)]]
    BY <1>1, <1>2, <1>4, <1>5
  <1>8. data'[r].bytes = b /\ data'[r].size = data[r].size /\ data'[r].offset = data[r].offset
    BY <1>1, <1>5, <1>6
  <1>9. \A i \in E : /\ data'[i].size = data[i].size /\ data'[i].offset = data[i].offset
                     /\ Len(data'[i].bytes) = IF i = r THEN Have(i) + n ELSE Have(i)
                     /\ Len(data'[i].bytes) <= data'[i].size
    <2> TAKE i \in E
    <2>1. CASE i = r
      BY <1>4, <1>8, <2>1
    <2>2. CASE i # r
      BY <1>5, <1>6, <2>2 DEF Have
    <2> QED
      BY <2>1, <2>2
  <1>10. E' = E /\ B' = B /\ Size' = Size
    BY SameFrame
  <1>11. BytesInv'
    <2> SUFFICES ASSUME NEW i \in E
                 PROVE  data'[i].bytes = Span(B[i], B[i] + Len(data'[i].bytes))
      BY <1>10 DEF BytesInv, Have
    <2>1. CASE i = r
      <3>1. taken + n = B[r] + Len(b)
        BY <1>1, <1>4
      <3> QED
        BY <1>3, <1>8, <2>1, <3>1
    <2>2. CASE i # r
      BY <1>0, <1>6, <2>2 DEF BytesInv, Have
    <2> QED
      BY <2>1, <2>2
  <1>12. DataInv'
    BY <1>0, <1>9, <1>10 DEF DataInv
  <1>13. taken' \in Nat /\ taken' <= given
    BY <1>1, <1>2
  <1> QED
    BY <1>2, <1>7, <1>9, <1>11, <1>12, <1>13

LEMMA PassOverStep ==
  ASSUME Inv, PassOver
  PROVE  Inv'
  <1>0. TypeOK /\ DataInv /\ BytesInv /\ CursorInv /\ LaidInv
    BY DEF Inv
  <1>1. /\ phase = "feeding" /\ phase' = "feeding" /\ ~LoadingDone
        /\ Left(reading) <= 0 /\ reading' = reading + 1
        /\ frame' = frame /\ UNCHANGED <<permutation, offsets, laid, acc, toc, data>>
        /\ UNCHANGED <<taken, given, refusals>>
    BY DEF PassOver
  <1>2. /\ E' = E /\ N' = N /\ B' = B /\ Size' = Size /\ N \in Nat \ {0} /\ E = 0 .. N - 1
    BY <1>0, <1>1, SameFrame, FrameTyped DEF TypeOK
  <1>3. /\ reading \in E /\ reading \in Nat /\ reading + 1 \in 0 .. N
        /\ Have(reading) = Size[reading] /\ taken = B[reading + 1]
    BY <1>1, CurrentSection
  <1>4. TypeOK'
    <2>1. reading' \in 0 .. EntryCount(frame)
      BY <1>1, <1>3 DEF N
    <2> QED
      BY <1>0, <1>1, <1>2, <2>1 DEF TypeOK, Have, Loading
  <1>5. LaidInv' /\ MonotoneInv' /\ OrderInv' /\ TocInv'
    BY <1>1, TableKept
  <1>6. DataInv' /\ BytesInv' /\ EmptyInv' /\ IdleInv'
    BY <1>0, <1>1, <1>2 DEF DataInv, BytesInv, EmptyInv, IdleInv, Have, Loading
  <1>7. CursorInv'
    <2>1. /\ \A i \in E : (i < reading => Have(i) = Size[i]) /\ (i > reading => Have(i) = 0)
          /\ acc <= frame.end
      BY <1>0, <1>1 DEF CursorInv, Loading
    <2>2. \A i \in E : (i < reading + 1 => Have(i) = Size[i]) /\ (i > reading + 1 => Have(i) = 0)
      <3> TAKE i \in E
      <3>1. i \in Nat
        BY <1>2
      <3>2. i < reading + 1 => i < reading \/ i = reading
        BY <1>3, <3>1
      <3>3. i > reading + 1 => i > reading
        BY <1>3, <3>1
      <3> QED
        BY <1>3, <2>1, <3>2, <3>3
    <2>3. taken = IF reading + 1 \in E THEN B[reading + 1] + Have(reading + 1) ELSE B[N]
      <3>1. CASE reading + 1 \in E
        <4>1. Have(reading + 1) = 0 /\ B[reading + 1] \in Nat
          BY <1>0, <1>3, <2>1, <3>1, FrameTyped DEF TypeOK
        <4> QED
          BY <1>3, <3>1, <4>1
      <3>2. CASE reading + 1 \notin E
        <4>1. reading + 1 = N
          BY <1>2, <1>3, <3>2
        <4> QED
          BY <1>3, <3>2, <4>1
      <3> QED
        BY <3>1, <3>2
    <2> QED
      BY <1>1, <1>2, <2>1, <2>2, <2>3 DEF CursorInv, Have
  <1> QED
    BY <1>4, <1>5, <1>6, <1>7 DEF Inv

LEMMA CompleteStep ==
  ASSUME Inv, Complete
  PROVE  Inv'
  <1>0. TypeOK /\ CursorInv
    BY DEF Inv
  <1> DEFINE n == Left(reading)
  <1>1. /\ phase = "feeding" /\ phase' = "feeding" /\ ~LoadingDone
        /\ n > 0 /\ given - taken >= n /\ Receive(reading, n) /\ reading' = reading + 1
        /\ frame' = frame /\ UNCHANGED <<permutation, offsets, laid, acc, toc>>
        /\ UNCHANGED <<given, refusals>>
    BY DEF Complete
  <1>2. /\ E' = E /\ N' = N /\ B' = B /\ Size' = Size /\ N \in Nat \ {0} /\ E = 0 .. N - 1
        /\ frame.start \in Nat
    BY <1>0, <1>1, SameFrame, FrameTyped DEF TypeOK
  <1>3. /\ reading \in E /\ reading \in Nat /\ reading + 1 \in 0 .. N
        /\ Have(reading) \in Nat /\ Size[reading] \in Nat /\ B[reading] \in Nat
        /\ n = Size[reading] - Have(reading) /\ taken = B[reading] + Have(reading)
        /\ B[reading + 1] = B[reading] + Size[reading]
        /\ taken \in Nat /\ given \in Nat
    BY <1>1, CurrentSection
  <1>4. n \in Nat /\ n <= given - taken
    BY <1>1, <1>3
  <1>5. /\ data' \in [E -> [offset : Nat, size : Nat, bytes : Seq(Nat)]]
        /\ \A i \in E : /\ Len(data'[i].bytes) = IF i = reading THEN Have(i) + n ELSE Have(i)
                        /\ Len(data'[i].bytes) <= data'[i].size
        /\ BytesInv' /\ DataInv'
        /\ taken' = taken + n /\ taken' \in Nat /\ taken' <= given
    <2>1. n <= Left(reading)
      BY <1>4
    <2> HIDE DEF n
    <2> QED
      BY <1>1, <1>4, <2>1, Received
  <1> HIDE DEF n
  <1>6. TypeOK'
    <2>1. reading' \in 0 .. EntryCount(frame)
      BY <1>1, <1>3 DEF N
    <2>2. frame.start <= taken' /\ taken' <= given' /\ given' <= frame.end
      <3>1. frame.start <= taken /\ given <= frame.end
        BY <1>0, <1>1 DEF TypeOK, Loading
      <3> QED
        <4>1. taken' = taken + n /\ n \in Nat /\ taken \in Nat /\ taken' <= given /\ given' = given
          BY <1>1, <1>3, <1>4, <1>5
        <4> QED
          BY <1>2, <3>1, <4>1
    <2> QED
      BY <1>0, <1>1, <1>2, <1>5, <2>1, <2>2 DEF TypeOK, Have
  <1>7. LaidInv' /\ MonotoneInv' /\ OrderInv' /\ TocInv'
    BY <1>1, TableKept
  <1>8. EmptyInv' /\ IdleInv'
    BY <1>1 DEF EmptyInv, IdleInv, Loading
  <1>9. CursorInv'
    <2>1. /\ \A i \in E : (i < reading => Have(i) = Size[i]) /\ (i > reading => Have(i) = 0)
          /\ acc <= frame.end
      BY <1>0, <1>1 DEF CursorInv, Loading
    <2>2. Have(reading) + n = Size[reading] /\ taken' = B[reading + 1]
      <3>1. /\ Have(reading) \in Nat /\ Size[reading] \in Nat /\ n = Size[reading] - Have(reading)
        BY <1>3
      <3>2. Have(reading) + n = Size[reading]
        BY <3>1
      <3>3. taken' = B[reading] + Have(reading) + n
        BY <1>3, <1>5
      <3> QED
        BY <1>3, <1>4, <3>2, <3>3
    <2>3. \A i \in E : /\ i < reading + 1 => Len(data'[i].bytes) = Size[i]
                       /\ i > reading + 1 => Len(data'[i].bytes) = 0
      <3> TAKE i \in E
      <3>1. i \in Nat
        BY <1>2
      <3>2. i < reading + 1 => i < reading \/ i = reading
        BY <1>3, <3>1
      <3>3. i > reading + 1 => i > reading /\ i # reading
        BY <1>3, <3>1
      <3>4. i < reading => i # reading
        BY <1>3, <3>1
      <3> QED
        BY <1>5, <2>1, <2>2, <3>2, <3>3, <3>4
    <2>4. taken' = IF reading + 1 \in E
                   THEN B[reading + 1] + Len(data'[reading + 1].bytes) ELSE B[N]
      <3>1. CASE reading + 1 \in E
        <4>1. reading + 1 # reading /\ reading + 1 > reading
          BY <1>3
        <4>2. Len(data'[reading + 1].bytes) = 0 /\ B[reading + 1] \in Nat
          BY <1>0, <1>5, <2>1, <3>1, <4>1, FrameTyped DEF TypeOK
        <4> QED
          BY <2>2, <3>1, <4>2
      <3>2. CASE reading + 1 \notin E
        <4>1. reading + 1 = N
          BY <1>2, <1>3, <3>2
        <4> QED
          BY <2>2, <3>2, <4>1
      <3> QED
        BY <3>1, <3>2
    <2> QED
      BY <1>1, <1>2, <2>1, <2>3, <2>4 DEF CursorInv, Have
  <1> QED
    BY <1>5, <1>6, <1>7, <1>8, <1>9 DEF Inv

LEMMA ExtendStep ==
  ASSUME Inv, Extend
  PROVE  Inv'
  <1>0. TypeOK /\ CursorInv
    BY DEF Inv
  <1> DEFINE n == given - taken
  <1>1. /\ phase = "feeding" /\ phase' = "idle" /\ ~LoadingDone
        /\ n < Left(reading) /\ Receive(reading, n)
        /\ frame' = frame /\ UNCHANGED <<permutation, offsets, laid, acc, toc>>
        /\ UNCHANGED <<reading, given, refusals>>
    BY DEF Extend
  <1>2. /\ E' = E /\ N' = N /\ B' = B /\ Size' = Size /\ E = 0 .. N - 1
        /\ frame.start \in Nat
    BY <1>0, <1>1, SameFrame, FrameTyped DEF TypeOK
  <1>3. /\ reading \in E /\ reading \in Nat
        /\ Have(reading) \in Nat /\ Size[reading] \in Nat /\ B[reading] \in Nat
        /\ Left(reading) = Size[reading] - Have(reading) /\ taken = B[reading] + Have(reading)
        /\ taken \in Nat /\ given \in Nat /\ taken <= given
        /\ data[reading].size = Size[reading]
    BY <1>1, CurrentSection
  <1>4. n \in Nat /\ n <= Left(reading) /\ n <= given - taken
    BY <1>1, <1>3
  <1> HIDE DEF n
  <1>5. /\ data' \in [E -> [offset : Nat, size : Nat, bytes : Seq(Nat)]]
        /\ \A i \in E : /\ data'[i].size = data[i].size
                        /\ Len(data'[i].bytes) = IF i = reading THEN Have(i) + n ELSE Have(i)
                        /\ Len(data'[i].bytes) <= data'[i].size
        /\ BytesInv' /\ DataInv'
        /\ taken' = taken + n /\ taken' \in Nat /\ taken' <= given
    BY <1>1, <1>4, Received
  <1>6. TypeOK'
    <2>1. frame.start <= taken' /\ taken' <= given' /\ given' <= frame.end
      <3>1. frame.start <= taken /\ given <= frame.end
        BY <1>0, <1>1 DEF TypeOK, Loading
      <3>2. /\ frame.start \in Nat /\ taken \in Nat /\ n \in Nat
            /\ taken' = taken + n /\ taken' <= given /\ given' = given
        BY <1>1, <1>2, <1>3, <1>4, <1>5
      <3> QED
        BY <3>1, <3>2
    <2> QED
      BY <1>0, <1>1, <1>2, <1>5, <2>1 DEF TypeOK, Have
  <1>7. LaidInv' /\ MonotoneInv' /\ OrderInv' /\ TocInv'
    BY <1>1, TableKept
  <1>8. EmptyInv'
    BY <1>1 DEF EmptyInv, Loading
  <1>9. CursorInv'
    <2>1. /\ \A i \in E : (i < reading => Have(i) = Size[i]) /\ (i > reading => Have(i) = 0)
          /\ acc <= frame.end
      BY <1>0, <1>1 DEF CursorInv, Loading
    <2>2. \A i \in E : /\ i < reading => Len(data'[i].bytes) = Size[i]
                       /\ i > reading => Len(data'[i].bytes) = 0
      <3> TAKE i \in E
      <3>1. i < reading \/ i > reading => i # reading
        BY <1>2, <1>3
      <3> QED
        BY <1>5, <2>1, <3>1
    <2>3. taken' = B[reading] + Len(data'[reading].bytes)
      <3>1. Len(data'[reading].bytes) = Have(reading) + n /\ taken' = taken + n
        BY <1>3, <1>5
      <3>2. /\ B[reading] \in Nat /\ Have(reading) \in Nat /\ n \in Nat
            /\ taken = B[reading] + Have(reading)
        BY <1>3, <1>4
      <3> QED
        BY <3>1, <3>2
    <2> QED
      BY <1>1, <1>2, <1>3, <2>1, <2>2, <2>3 DEF CursorInv, Have
  <1>10. IdleInv'
    <2>1. data'[reading].size - Len(data'[reading].bytes) > 0
      <3>1. /\ data'[reading].size = Size[reading]
            /\ Len(data'[reading].bytes) = Have(reading) + n
        BY <1>3, <1>5
      <3>2. n < Size[reading] - Have(reading)
        BY <1>1, <1>3
      <3> QED
        BY <1>3, <1>4, <3>1, <3>2
    <2> QED
      BY <1>1, <2>1 DEF IdleInv, Left, Have
  <1> QED
    BY <1>5, <1>6, <1>7, <1>8, <1>9, <1>10 DEF Inv

\* Loading pauses, and nothing is stored.
LEMMA PauseStep ==
  ASSUME Inv, NoMemory \/ Return
  PROVE  Inv'
  <1>0. TypeOK /\ DataInv /\ BytesInv /\ CursorInv
    BY DEF Inv
  <1>1. /\ phase = "feeding" /\ phase' = "idle"
        /\ frame' = frame /\ UNCHANGED <<permutation, offsets, laid, acc, toc, data>>
        /\ UNCHANGED <<reading, taken>>
        /\ given' \in {taken, given} /\ refusals' \in {refusals, refusals + 1}
        /\ refusals' # refusals => refusals < MaxRefusals
        /\ LoadingDone \/ Left(reading) > 0
    BY DEF NoMemory, Return
  <1>2. E' = E /\ N' = N /\ B' = B /\ Size' = Size
    BY <1>1, SameFrame
  <1>3. TypeOK'
    <2>1. /\ taken \in Nat /\ given \in Nat /\ frame.start <= taken /\ taken <= given
          /\ given <= frame.end /\ refusals \in 0 .. MaxRefusals /\ frame.end \in Nat
      BY <1>0, <1>1, FrameTyped DEF TypeOK, Loading
    <2>2. given' \in Nat /\ taken <= given' /\ given' <= frame.end
      BY <1>1, <2>1
    <2>3. refusals' \in 0 .. MaxRefusals
      BY <1>1, <2>1, BoundsAssumption
    <2> QED
      BY <1>0, <1>1, <1>2, <2>1, <2>2, <2>3 DEF TypeOK, Have
  <1>4. LaidInv' /\ MonotoneInv' /\ OrderInv' /\ TocInv'
    BY <1>1, TableKept
  <1>5. DataInv' /\ BytesInv' /\ EmptyInv' /\ CursorInv'
    BY <1>0, <1>1, <1>2 DEF DataInv, BytesInv, EmptyInv, CursorInv, Have, Loading
  <1>6. IdleInv'
    BY <1>1 DEF IdleInv, LoadingDone, Left, Have
  <1> QED
    BY <1>3, <1>4, <1>5, <1>6 DEF Inv

-----------------------------------------------------------------------------
(* The specification *)

LEMMA InvStep == Inv /\ [Next]_vars => Inv'
  <1> SUFFICES ASSUME Inv, [Next]_vars PROVE Inv'
    OBVIOUS
  <1>1. CASE ReadPermutation
    BY <1>1, ReadPermutationStep
  <1>2. CASE LayOut
    BY <1>2, LayOutStep
  <1>3. CASE Arrange
    BY <1>3, ArrangeStep
  <1>4. CASE CreateData
    BY <1>4, CreateDataStep
  <1>5. CASE FailParse
    BY <1>5, FailParseStep
  <1>6. CASE CheckPayload
    BY <1>6, CheckPayloadStep
  <1>7. CASE \E n \in 0 .. frame.end - frame.start : Feed(n)
    BY <1>7, FeedStep
  <1>8. CASE PassOver
    BY <1>8, PassOverStep
  <1>9. CASE Complete
    BY <1>9, CompleteStep
  <1>10. CASE Extend
    BY <1>10, ExtendStep
  <1>11. CASE NoMemory \/ Return
    BY <1>11, PauseStep
  <1>12. CASE UNCHANGED vars
    <2>1. /\ frame' = frame /\ UNCHANGED <<phase, permutation, offsets, laid, acc, toc, data>>
          /\ UNCHANGED <<reading, taken, given, refusals>>
      BY <1>12 DEF vars
    <2>2. E' = E /\ N' = N /\ B' = B /\ Size' = Size
      BY <2>1, SameFrame
    <2> QED
      BY <2>1, <2>2 DEF Inv, TypeOK, LaidInv, MonotoneInv, OrderInv, TocInv, DataInv, BytesInv,
                        EmptyInv, CursorInv, IdleInv, Loading, LoadingDone, Left, Have
  <1> QED
    BY <1>1, <1>2, <1>3, <1>4, <1>5, <1>6, <1>7, <1>8, <1>9, <1>10, <1>11, <1>12
       DEF Next, ParseNext, FeedNext

LEMMA AlwaysInv == Spec => []Inv
  BY InvInit, InvStep, PTL DEF Spec

\* The variables keep their types: in particular no section receives more
\* bytes than the table of contents gives it.
THEOREM TypeCorrect == Spec => []TypeOK
  <1>1. Inv => TypeOK
    BY DEF Inv
  <1> QED
    BY <1>1, AlwaysInv, PTL

\* What feeding stores in a section (jxl_frame_feed_bytes) lies where the table
\* of contents (jxl_toc_parse) says the section begins.
THEOREM AlwaysBytesAtOffsets == Spec => []BytesAtOffsets
  <1>1. ASSUME Inv PROVE BytesAtOffsets
    <2>1. TypeOK /\ DataInv /\ BytesInv
      BY <1>1 DEF Inv
    <2>2. frame.base \in Nat /\ \A i \in E : B[i] \in Nat
      BY <2>1, FrameTyped DEF TypeOK
    <2>3. ASSUME Loading, NEW i \in E
          PROVE  data[i].bytes = Span(frame.base + data[i].offset,
                                      frame.base + data[i].offset + Have(i))
      <3>1. data[i].offset = B[i] - frame.base
        BY <2>1, <2>3 DEF DataInv, Loading
      <3>2. frame.base + data[i].offset = B[i]
        BY <2>2, <3>1
      <3> QED
        BY <2>1, <3>2 DEF BytesInv
    <2> QED
      BY <2>3 DEF BytesAtOffsets
  <1>2. Inv => BytesAtOffsets
    BY <1>1
  <1> QED
    BY <1>2, AlwaysInv, PTL

\* Loading is done (jxl_frame_is_loading_done) exactly when the payload is used
\* up, empty sections and failed allocations included.
THEOREM AlwaysDoneWhenAllTaken == Spec => []DoneWhenAllTaken
  <1>1. ASSUME Inv, Loading PROVE LoadingDone => taken = acc /\ \A i \in E : Left(i) = 0
    <2>1. TypeOK /\ LaidInv /\ DataInv /\ CursorInv
      BY <1>1 DEF Inv
    <2>2. N \in Nat /\ E = 0 .. N - 1 /\ Size \in [E -> Nat]
      BY <2>1, FrameTyped DEF TypeOK
    <2> SUFFICES ASSUME LoadingDone PROVE taken = acc /\ \A i \in E : Left(i) = 0
      OBVIOUS
    <2>3. reading = N /\ reading \notin E
      BY <2>2 DEF LoadingDone, N
    <2>4. taken = acc
      BY <1>1, <2>1, <2>3 DEF CursorInv, LaidInv, Loading
    <2>5. ASSUME NEW i \in E PROVE Left(i) = 0
      <3>1. Have(i) = Size[i]
        BY <1>1, <2>1, <2>2, <2>3 DEF CursorInv
      <3>2. data[i].size = Size[i] /\ Size[i] \in Nat
        BY <1>1, <2>1, <2>2 DEF DataInv, Loading
      <3> QED
        BY <3>1, <3>2 DEF Left
    <2> QED
      BY <2>4, <2>5
  <1>2. ASSUME Inv, phase = "idle", frame.start < taken, taken = acc PROVE LoadingDone
    <2>1. TypeOK /\ LaidInv /\ MonotoneInv /\ DataInv /\ CursorInv /\ IdleInv
      BY <1>2 DEF Inv
    <2>2. /\ N \in Nat /\ E = 0 .. N - 1 /\ Size \in [E -> Nat] /\ frame.start \in Nat
          /\ \A i \in E : B[i] \in Nat /\ B[i + 1] \in Nat /\ B[i + 1] = B[i] + Size[i]
      BY <2>1, FrameTyped DEF TypeOK
    <2> SUFFICES ASSUME ~LoadingDone PROVE FALSE
      OBVIOUS
    <2>3. reading \in 0 .. N /\ reading # N /\ taken \in Nat
      BY <2>1 DEF TypeOK, LoadingDone, N
    <2>4. reading \in E /\ reading + 1 \in 0 .. N /\ N \in 0 .. N /\ reading + 1 <= N
      BY <2>2, <2>3
    <2>5. Left(reading) > 0
      BY <1>2, <2>1, <2>2, <2>3 DEF IdleInv
    <2>6. Left(reading) = Size[reading] - Have(reading) /\ Have(reading) \in Nat
      BY <1>2, <2>1, <2>4 DEF DataInv, Left, TypeOK, Have
    <2>7. taken = B[reading] + Have(reading)
      BY <1>2, <2>1, <2>4 DEF CursorInv, Loading
    <2>8. taken < B[reading + 1] /\ B[reading + 1] \in Nat
      <3>1. /\ B[reading] \in Nat /\ Size[reading] \in Nat /\ B[reading + 1] \in Nat
            /\ B[reading + 1] = B[reading] + Size[reading]
        BY <2>2, <2>4
      <3> QED
        BY <2>5, <2>6, <2>7, <3>1
    <2>9. laid = N /\ acc = B[N] /\ B[reading + 1] <= B[N]
      BY <1>2, <2>1, <2>4 DEF LaidInv, MonotoneInv
    <2> QED
      BY <1>2, <2>3, <2>8, <2>9
  <1>3. Inv => DoneWhenAllTaken
    BY <1>1, <1>2 DEF DoneWhenAllTaken
  <1> QED
    BY <1>3, AlwaysInv, PTL

-----------------------------------------------------------------------------
(* FrameSections is implemented *)

Want == [k \in E |-> Span(B[frame.order[k]], B[frame.order[k] + 1])]
Got == [k \in E |-> data[toc.original_to_bitstream[k]].bytes]

\* Nothing arrives before the payload is admitted.
LEMMA NothingYet ==
  ASSUME Inv, Inv', [Next]_vars, ~Loading
  PROVE  \A k \in E : Got[k] = <<>> /\ Got'[k] = <<>>
  <1>0. /\ TypeOK /\ EmptyInv /\ TypeOK' /\ EmptyInv'
    BY DEF Inv
  <1>1. frame' = frame /\ E' = E
    <2>1. frame' = frame
      BY DEF Next, ParseNext, FeedNext, ReadPermutation, LayOut, Arrange, CreateData, FailParse,
             CheckPayload, Feed, PassOver, Complete, Extend, NoMemory, Return, vars
    <2> QED
      BY <2>1, SameFrame
  <1>2. \A i \in E : data[i].bytes = <<>>
    BY <1>0 DEF EmptyInv
  <1>3. \A i \in E : data'[i].bytes = <<>>
    <2>1. CASE ~Loading'
      BY <1>0, <1>1, <2>1 DEF EmptyInv
    <2>2. CASE Loading'
      <3>1. data' = data
        BY <2>2 DEF Loading, Next, ParseNext, FeedNext, ReadPermutation, LayOut, Arrange,
             CreateData, FailParse, CheckPayload, Feed, PassOver, Complete, Extend, NoMemory,
             Return, vars
      <3> QED
        BY <1>2, <3>1
    <2> QED
      BY <2>1, <2>2
  <1>4. /\ toc.original_to_bitstream \in [E -> E]
        /\ toc'.original_to_bitstream \in [E -> E]
    BY <1>0, <1>1 DEF TypeOK
  <1> QED
    BY <1>1, <1>2, <1>3, <1>4 DEF Got

\* Then sections keep what they have.
LEMMA Grows ==
  ASSUME Inv, [Next]_vars, Loading
  PROVE  /\ frame' = frame /\ toc' = toc /\ Loading'
         /\ \A i \in E : Have(i) <= Len(data'[i].bytes)
  <1>0. TypeOK
    BY DEF Inv
  <1>1. \A i \in E : Have(i) \in Nat
    BY <1>0 DEF TypeOK, Have
  <1>2. CASE \/ PassOver \/ NoMemory \/ Return \/ UNCHANGED vars
             \/ \E n \in 0 .. frame.end - frame.start : Feed(n)
    <2>1. frame' = frame /\ toc' = toc /\ Loading' /\ data' = data
      BY <1>2 DEF PassOver, NoMemory, Return, Feed, vars, Loading
    <2> QED
      BY <1>1, <2>1 DEF Have
  <1>3. CASE Complete \/ Extend
    <2> DEFINE n == IF Complete THEN Left(reading) ELSE given - taken
    <2>1. /\ frame' = frame /\ toc' = toc /\ Loading'
          /\ phase = "feeding" /\ ~LoadingDone
          /\ Left(reading) > 0
          /\ Complete => Receive(reading, Left(reading)) /\ given - taken >= Left(reading)
          /\ ~Complete => Receive(reading, given - taken) /\ given - taken < Left(reading)
      BY <1>3 DEF Complete, Extend, Loading
    <2>2. /\ Left(reading) = Size[reading] - Have(reading)
          /\ Size[reading] \in Nat /\ Have(reading) \in Nat
          /\ given \in Nat /\ taken \in Nat /\ taken <= given
      BY <2>1, CurrentSection
    <2>3. n \in Nat /\ n <= Left(reading) /\ n <= given - taken /\ Receive(reading, n)
      <3>1. CASE Complete
        BY <2>1, <2>2, <3>1
      <3>2. CASE ~Complete
        BY <2>1, <2>2, <3>2
      <3> QED
        BY <3>1, <3>2
    <2> HIDE DEF n
    <2>4. \A i \in E : Len(data'[i].bytes) = IF i = reading THEN Have(i) + n ELSE Have(i)
      BY <2>1, <2>3, Received
    <2> QED
      BY <1>1, <2>1, <2>3, <2>4
  <1>4. CASE ParseNext
    BY <1>4 DEF ParseNext, ReadPermutation, LayOut, Arrange, CreateData, FailParse, CheckPayload,
                Loading
  <1> QED
    BY <1>2, <1>3, <1>4 DEF Next, FeedNext

\* Loading a frame implements FrameSections: a section that a decoder finds
\* through the table of contents only ever holds the first bytes of its data.
THEOREM Refines == Spec => ImplementsSections
  <1>0. Want = [k \in E |-> Span(frame.begins[frame.order[k]], frame.begins[frame.order[k] + 1])]
    BY DEF Want, B
  <1>1. Init => Promise!Init
    <2> SUFFICES ASSUME Init PROVE Got = [k \in DOMAIN Want |-> <<>>]
      BY <1>0 DEF Promise!Init, Got
    <2>1. toc.original_to_bitstream = Identity /\ data = NoData
      BY DEF Init, NoToc
    <2>2. \A k \in E : data[toc.original_to_bitstream[k]].bytes = <<>>
      BY <2>1 DEF Identity, NoData
    <2> QED
      BY <2>2 DEF Got, Want
  <1>2. Inv /\ Inv' /\ [Next]_vars => [Promise!Next]_(Promise!vars)
    <2> SUFFICES ASSUME Inv, Inv', [Next]_vars
                 PROVE  \/ Want' = Want /\ Got' = Got
                        \/ /\ Got' # Got /\ Want' = Want
                           /\ \A k \in DOMAIN Want :
                                /\ Promise!StartsWith(Want[k], Got'[k])
                                /\ Promise!StartsWith(Got'[k], Got[k])
      BY DEF Promise!Next, Promise!Receive, Promise!vars, Want, Got, B
    <2>0. TypeOK /\ TocInv /\ DataInv /\ BytesInv /\ TypeOK' /\ DataInv' /\ BytesInv'
      BY DEF Inv
    <2>1. CASE ~Loading
      <3>1. \A k \in E : Got[k] = <<>> /\ Got'[k] = <<>>
        BY <2>1, NothingYet
      <3>2. frame' = frame
        BY DEF Next, ParseNext, FeedNext, ReadPermutation, LayOut, Arrange, CreateData, FailParse,
             CheckPayload, Feed, PassOver, Complete, Extend, NoMemory, Return, vars
      <3>3. E' = E /\ B' = B
        BY <3>2, SameFrame
      <3>4. Got' = Got
        BY <3>1, <3>3 DEF Got
      <3>5. Want' = Want
        BY <3>2, <3>3 DEF Want
      <3> QED
        BY <3>4, <3>5
    <2>2. CASE Loading
      <3>1. /\ frame' = frame /\ toc' = toc /\ Loading'
            /\ \A i \in E : Have(i) <= Len(data'[i].bytes)
        BY <2>2, Grows
      <3>2. E' = E /\ B' = B /\ Size' = Size
        BY <3>1, SameFrame
      <3>3. Want' = Want
        BY <3>1, <3>2 DEF Want
      <3>4. ASSUME NEW k \in E
            PROVE  /\ Promise!StartsWith(Want[k], Got'[k])
                   /\ Promise!StartsWith(Got'[k], Got[k])
        <4> DEFINE o == frame.order[k]
                   have == Have(o)
                   haveNext == Len(data'[o].bytes)
                   from == B[o]
        <4>1. o \in E
          BY <2>0, FrameTyped DEF TypeOK
        <4>2. toc.original_to_bitstream[k] = o
          BY <2>0, <2>2 DEF TocInv, Loading
        <4> HIDE DEF o
        <4>3. from \in Nat /\ Size[o] \in Nat /\ B[o + 1] = from + Size[o]
          BY <2>0, <4>1, FrameTyped DEF TypeOK
        <4>4. have \in Nat /\ haveNext \in Nat /\ have <= haveNext /\ haveNext <= Size[o]
          <5>1. data'[o].size = Size[o]
            BY <2>0, <3>1, <3>2, <4>1 DEF DataInv, Loading
          <5>2. haveNext \in Nat /\ haveNext <= data'[o].size
            <6>1. data'[o] \in [offset : Nat, size : Nat, bytes : Seq(Nat)]
              BY <2>0, <3>2, <4>1 DEF TypeOK
            <6>2. haveNext <= data'[o].size
              BY <2>0, <3>2, <4>1 DEF TypeOK, Have
            <6> QED
              BY <6>1, <6>2
          <5>3. have \in Nat
            <6>1. data[o] \in [offset : Nat, size : Nat, bytes : Seq(Nat)]
              BY <2>0, <4>1 DEF TypeOK
            <6> QED
              BY <6>1 DEF Have
          <5> QED
            BY <3>1, <4>1, <5>1, <5>2, <5>3
        <4>5. Got[k] = Span(from, from + have)
          BY <2>0, <4>1, <4>2 DEF Got, BytesInv
        <4>6. Got'[k] = Span(from, from + haveNext)
          <5>1. Got'[k] = data'[o].bytes
            BY <3>1, <3>2, <4>2 DEF Got
          <5> QED
            BY <2>0, <3>2, <4>1, <5>1 DEF BytesInv, Have
        <4>7. Want[k] = Span(from, from + Size[o])
          BY <4>3 DEF Want, o
        <4> HIDE DEF have, haveNext, from
        <4>8. /\ from + have \in Nat /\ from + haveNext \in Nat /\ from + Size[o] \in Nat
              /\ from <= from + have /\ from <= from + haveNext
              /\ from + have <= from + haveNext /\ from + haveNext <= from + Size[o]
          BY <4>3, <4>4
        <4>9. Promise!StartsWith(Span(from, from + Size[o]), Span(from, from + haveNext))
          BY <4>3, <4>8, SpanStarts
        <4>10. Promise!StartsWith(Span(from, from + haveNext), Span(from, from + have))
          BY <4>3, <4>8, SpanStarts
        <4> QED
          BY <4>5, <4>6, <4>7, <4>9, <4>10
      <3> QED
        BY <3>3, <3>4 DEF Want
    <2> QED
      BY <2>1, <2>2
  <1> QED
    BY <1>1, <1>2, AlwaysInv, PTL DEF Spec, ImplementsSections, Promise!Spec
-----------------------------------------------------------------------------
(* Finding a section: its number is that of the sections in front of it. *)

SectionNumber(s) == LogicalIndex(s[1], s[2])

\* Splitting an index into pass and group, and putting it together again.
LEMMA PassAndGroup ==
  ASSUME NEW i \in Nat, NEW g \in Nat \ {0}
  PROVE  (i \div g) * g + (i % g) = i
  BY SMT

LEMMA SectionCounts ==
  ASSUME frame \in Frames
  PROVE  /\ frame.lf \in Nat \ {0} /\ frame.groups \in Nat \ {0}
         /\ frame.groups * frame.passes \in Nat \ {0}
         /\ N # 1 => N = 1 + frame.lf + 1 + frame.groups * frame.passes
  <1>1. /\ frame.lf \in Nat \ {0} /\ frame.groups \in Nat \ {0}
        /\ frame.passes \in Nat \ {0}
    BY FramesAssumption
  <1>2. \A g, q \in Nat \ {0} : g * q \in Nat \ {0}
    BY SMT
  <1>3. N # 1 => N = 1 + frame.lf + 1 + frame.groups * frame.passes
    BY DEF N, EntryCount
  <1> QED
    BY <1>1, <1>2, <1>3

LEMMA SectionNumbers ==
  ASSUME frame \in Frames
  PROVE  /\ SectionNumber(<<"ALL", 0>>) = 0 /\ SectionNumber(<<"LF_GLOBAL", 0>>) = 0
         /\ SectionNumber(<<"HF_GLOBAL", 0>>) = 1 + frame.lf
         /\ \A i \in Nat : SectionNumber(<<"LF_GROUP", i>>) = 1 + i
         /\ \A i \in Nat : SectionNumber(<<"GROUP_PASS", i>>) = 1 + frame.lf + 1 + i
  <1>1. /\ SectionNumber(<<"ALL", 0>>) = 0 /\ SectionNumber(<<"LF_GLOBAL", 0>>) = 0
        /\ SectionNumber(<<"HF_GLOBAL", 0>>) = 1 + frame.lf
    BY DEF SectionNumber, LogicalIndex
  <1>2. ASSUME NEW i \in Nat PROVE SectionNumber(<<"LF_GROUP", i>>) = 1 + i
    BY DEF SectionNumber, LogicalIndex
  <1>3. ASSUME NEW i \in Nat PROVE SectionNumber(<<"GROUP_PASS", i>>) = 1 + frame.lf + 1 + i
    <2> DEFINE pass == i \div frame.groups
               rest == i % frame.groups
               before == pass * frame.groups
    <2>1. SectionNumber(<<"GROUP_PASS", i>>) = 1 + frame.lf + 1 + before + rest
      BY DEF SectionNumber, LogicalIndex
    <2>2. frame.groups \in Nat \ {0} /\ frame.lf \in Nat
      BY SectionCounts
    <2>3. before + rest = i
      BY <2>2, PassAndGroup
    <2>4. before \in Nat /\ rest \in Nat
      <3>1. pass \in Nat /\ rest \in Nat
        BY <2>2, SMT
      <3> HIDE DEF pass
      <3>2. \A g \in Nat, q \in Nat : q * g \in Nat
        BY SMT
      <3> QED
        BY <2>2, <3>1, <3>2
    <2> HIDE DEF before, rest
    <2> QED
      BY <2>1, <2>2, <2>3, <2>4
  <1> QED
    BY <1>1, <1>2, <1>3

\* The four shapes of a section in a frame of several.
LEMMA SectionShapes ==
  ASSUME frame \in Frames, N # 1, NEW s \in Sections
  PROVE  \/ s = <<"LF_GLOBAL", 0>> /\ SectionNumber(s) = 0
         \/ \E i \in 0 .. frame.lf - 1 : s = <<"LF_GROUP", i>> /\ SectionNumber(s) = 1 + i
         \/ s = <<"HF_GLOBAL", 0>> /\ SectionNumber(s) = 1 + frame.lf
         \/ \E i \in 0 .. frame.groups * frame.passes - 1 :
              s = <<"GROUP_PASS", i>> /\ SectionNumber(s) = 1 + frame.lf + 1 + i
  <1>1. \/ s = <<"LF_GLOBAL", 0>> \/ s = <<"HF_GLOBAL", 0>>
        \/ \E i \in 0 .. frame.lf - 1 : s = <<"LF_GROUP", i>>
        \/ \E i \in 0 .. frame.groups * frame.passes - 1 : s = <<"GROUP_PASS", i>>
    BY DEF Sections, N
  <1>2. /\ \A i \in 0 .. frame.lf - 1 : i \in Nat
        /\ \A i \in 0 .. frame.groups * frame.passes - 1 : i \in Nat
    BY SectionCounts
  <1> QED
    BY <1>1, <1>2, SectionNumbers

\* Sections follow each other as their numbers do, and no two have one number.
LEMMA NumbersFollowOrder ==
  ASSUME frame \in Frames, N # 1, NEW s \in Sections, NEW t \in Sections
  PROVE  /\ SectionNumber(s) \in E /\ SectionNumber(t) \in E
         /\ Precedes(t, s) <=> SectionNumber(t) < SectionNumber(s)
         /\ SectionNumber(s) = SectionNumber(t) => s = t
  <1> DEFINE L == frame.lf
             G == frame.groups * frame.passes
  <1>1. L \in Nat \ {0} /\ G \in Nat \ {0} /\ N = 1 + L + 1 + G /\ E = 0 .. N - 1
    BY SectionCounts, FrameTyped
  <1>2. /\ Rank("LF_GLOBAL") = 0 /\ Rank("LF_GROUP") = 1
        /\ Rank("HF_GLOBAL") = 2 /\ Rank("GROUP_PASS") = 3
    BY DEF Rank
  <1> DEFINE Shape(x, n) ==
               \/ x = <<"LF_GLOBAL", 0>> /\ n = 0
               \/ \E i \in 0 .. L - 1 : x = <<"LF_GROUP", i>> /\ n = 1 + i
               \/ x = <<"HF_GLOBAL", 0>> /\ n = 1 + L
               \/ \E i \in 0 .. G - 1 : x = <<"GROUP_PASS", i>> /\ n = 1 + L + 1 + i
  <1>3. Shape(s, SectionNumber(s)) /\ Shape(t, SectionNumber(t))
    BY SectionShapes
  <1> HIDE DEF L, G
  <1>4. ASSUME NEW x, NEW m, Shape(x, m) PROVE m \in E
    BY <1>1, <1>4
  <1>5. ASSUME NEW x, NEW y, NEW m, NEW n, Shape(x, m), Shape(y, n)
        PROVE  (Precedes(y, x) <=> n < m) /\ (m = n => x = y)
    <2>1. CASE x = <<"LF_GLOBAL", 0>> /\ m = 0
      BY <1>1, <1>2, <1>5, <2>1 DEF Precedes
    <2>2. CASE \E i \in 0 .. L - 1 : x = <<"LF_GROUP", i>> /\ m = 1 + i
      BY <1>1, <1>2, <1>5, <2>2 DEF Precedes
    <2>3. CASE x = <<"HF_GLOBAL", 0>> /\ m = 1 + L
      BY <1>1, <1>2, <1>5, <2>3 DEF Precedes
    <2>4. CASE \E i \in 0 .. G - 1 : x = <<"GROUP_PASS", i>> /\ m = 1 + L + 1 + i
      BY <1>1, <1>2, <1>5, <2>4 DEF Precedes
    <2> QED
      BY <1>5, <2>1, <2>2, <2>3, <2>4
  <1> QED
    BY <1>3, <1>4, <1>5

LEMMA NumbersLeaveNoGap ==
  ASSUME frame \in Frames, N # 1, NEW k \in E
  PROVE  \E s \in Sections : SectionNumber(s) = k
  <1> DEFINE L == frame.lf
             G == frame.groups * frame.passes
  <1>1. L \in Nat \ {0} /\ G \in Nat \ {0} /\ k \in 0 .. 1 + L + G
    <2>1. /\ L \in Nat \ {0} /\ G \in Nat \ {0}
          /\ N = 1 + L + 1 + G /\ E = 0 .. N - 1
      BY SectionCounts, FrameTyped
    <2> HIDE DEF L, G
    <2> QED
      BY <2>1
  <1>2. /\ <<"LF_GLOBAL", 0>> \in Sections /\ <<"HF_GLOBAL", 0>> \in Sections
        /\ \A i \in 0 .. L - 1 : <<"LF_GROUP", i>> \in Sections
        /\ \A i \in 0 .. G - 1 : <<"GROUP_PASS", i>> \in Sections
    BY DEF Sections, N
  <1> HIDE DEF L, G
  <1>3. /\ SectionNumber(<<"LF_GLOBAL", 0>>) = 0 /\ SectionNumber(<<"HF_GLOBAL", 0>>) = 1 + L
        /\ \A i \in Nat : SectionNumber(<<"LF_GROUP", i>>) = 1 + i
        /\ \A i \in Nat : SectionNumber(<<"GROUP_PASS", i>>) = 1 + L + 1 + i
    BY SectionNumbers DEF L
  <1>4. CASE k = 0
    BY <1>2, <1>3, <1>4
  <1>5. CASE k \in 1 .. L
    <2>1. k - 1 \in 0 .. L - 1 /\ k - 1 \in Nat /\ 1 + (k - 1) = k
      BY <1>1, <1>5
    <2> QED
      BY <1>2, <1>3, <2>1
  <1>6. CASE k = 1 + L
    BY <1>2, <1>3, <1>6
  <1>7. CASE k \in 2 + L .. 1 + L + G
    <2>1. /\ k - 2 - L \in 0 .. G - 1 /\ k - 2 - L \in Nat
          /\ 1 + L + 1 + (k - 2 - L) = k
      BY <1>1, <1>7
    <2> QED
      BY <1>2, <1>3, <2>1
  <1> QED
    BY <1>1, <1>4, <1>5, <1>6, <1>7

\* As many sections precede one as its number says.
LEMMA NumberCountsPreceding ==
  ASSUME frame \in Frames, NEW s \in Sections
  PROVE  /\ SectionNumber(s) \in E
         /\ Cardinality({t \in Sections : Precedes(t, s)}) = SectionNumber(s)
  <1> DEFINE P == {t \in Sections : Precedes(t, s)}
             k == SectionNumber(s)
  <1>1. CASE N = 1
    <2>1. Sections = {<<"ALL", 0>>} /\ s = <<"ALL", 0>>
      BY <1>1 DEF Sections, N
    <2>2. P = {}
      BY <2>1 DEF Precedes, Rank
    <2>3. k = 0 /\ 0 \in E
      BY <2>1, SectionNumbers, FrameTyped
    <2> QED
      BY <2>2, <2>3, FS_EmptySet
  <1>2. CASE N # 1
    <2>1. k \in E /\ k \in Nat
      BY <1>2, NumbersFollowOrder, FrameTyped
    <2> DEFINE Below == 0 .. k - 1
               numbering == [t \in P |-> SectionNumber(t)]
    <2>2. \A n \in Below : n \in E
      BY <2>1, FrameTyped
    <2>3. \A t \in P : SectionNumber(t) \in Below
      <3> TAKE t \in P
      <3>1. SectionNumber(t) \in E /\ SectionNumber(t) < k
        BY <1>2, NumbersFollowOrder
      <3> QED
        BY <2>1, <3>1, FrameTyped
    <2>4. numbering \in [P -> Below]
      BY <2>3
    <2>5. \A t, u \in P : numbering[t] = numbering[u] => t = u
      BY <1>2, NumbersFollowOrder
    <2>6. \A n \in Below : \E t \in P : numbering[t] = n
      <3> TAKE n \in Below
      <3>1. PICK t \in Sections : SectionNumber(t) = n
        BY <1>2, <2>2, NumbersLeaveNoGap
      <3>2. t \in P
        <4>1. n < k
          BY <2>1
        <4> QED
          BY <1>2, <3>1, <4>1, NumbersFollowOrder
      <3> QED
        BY <3>1, <3>2
    <2>7. numbering \in Bijection(P, Below)
      BY <2>4, <2>5, <2>6 DEF Bijection, Injection, Surjection, IsInjective
    <2>8. IsFiniteSet(Below) /\ Cardinality(Below) = k
      BY <2>1, FS_Interval
    <2>9. ExistsBijection(P, Below)
      BY <2>7 DEF ExistsBijection
    <2>10. ExistsBijection(Below, P)
      BY <2>9, Fun_ExistsBijSymmetric
    <2>11. Cardinality(P) = Cardinality(Below)
      BY <2>8, <2>10, FS_Bijection
    <2> QED
      BY <2>1, <2>8, <2>11
  <1> QED
    BY <1>1, <1>2

\* A section that a decoder asks for by kind and index (jxl_frame_group_by_kind)
\* is the one at its place in the order of the format, in every frame.
THEOREM AlwaysSectionsFound == Spec => []SectionsFound
  <1>1. ASSUME Inv PROVE SectionsFound
    <2>1. TypeOK /\ TocInv
      BY <1>1 DEF Inv
    <2> SUFFICES ASSUME Loading, NEW s \in Sections
                 PROVE  StoredIndex(s[1], s[2])
                          = frame.order[Cardinality({t \in Sections : Precedes(t, s)})]
      BY DEF SectionsFound
    <2>2. toc.original_to_bitstream = frame.order /\ frame \in Frames
      BY <2>1 DEF TocInv, Loading, TypeOK
    <2>3. /\ SectionNumber(s) \in E
          /\ Cardinality({t \in Sections : Precedes(t, s)}) = SectionNumber(s)
      BY <2>2, NumberCountsPreceding
    <2>4. StoredIndex(s[1], s[2]) = toc.original_to_bitstream[SectionNumber(s)]
      BY <2>3 DEF StoredIndex, SectionNumber
    <2> QED
      BY <2>2, <2>3, <2>4
  <1> QED
    BY <1>1, AlwaysInv, PTL
=============================================================================
