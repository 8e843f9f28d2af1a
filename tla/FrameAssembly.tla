---------------------------- MODULE FrameAssembly ----------------------------
(***************************************************************************)
(* Loading a frame (frame/toc.c, frame/frame.c): the table of contents     *)
(* gives the sizes of the frame's sections in the order in which the       *)
(* codestream stores them, and perhaps a permutation from the logical      *)
(* order to that one; the payload is then distributed over the sections as *)
(* it arrives, and their decoders ask for them by kind and index.          *)
(*                                                                         *)
(* A byte is its position in the codestream.  The labels of the sections   *)
(* (kind, pass, group), which no decoder of a frame with more than one     *)
(* section reads, are left out.                                            *)
(***************************************************************************)
EXTENDS Integers, Sequences, FiniteSets

CONSTANTS
  Frames,         \* the frames that may be read
  MaxEntries,     \* 65536: sections a frame may have
  MaxRefusals     \* bound: allocations that fail while the payload arrives

EntryCount(f) ==
  IF f.groups = 1 /\ f.passes = 1 THEN 1 ELSE 1 + f.lf + 1 + f.groups * f.passes
Entries(f) == 0 .. EntryCount(f) - 1

\* What jxl_coding_read_permutation hands out: see the module Permutation.
Bijections(S) ==
  {p \in [S -> S] : /\ \A k, l \in S : p[k] = p[l] => k = l
                    /\ \A v \in S : \E k \in S : p[k] = v}

(* A frame: its LF groups, groups and passes; order, which takes a section's *)
(* logical number to its number in the codestream (the identity when the     *)
(* table is not permuted); the sizes in the order stored and where each      *)
(* stored section begins; where the frame, its payload and what follows the  *)
(* codestream begin.                                                         *)
ASSUME FramesAssumption ==
  \A f \in Frames :
    /\ f.lf \in Nat \ {0} /\ f.groups \in Nat \ {0} /\ f.passes \in Nat \ {0}
    /\ f.order \in Bijections(Entries(f)) /\ f.sizes \in [Entries(f) -> Nat]
    /\ f.base \in Nat /\ f.start \in Nat /\ f.base < f.start
    /\ f.end \in Nat /\ f.start <= f.end
    /\ f.begins \in [0 .. EntryCount(f) -> Nat] /\ f.begins[0] = f.start
    /\ \A i \in Entries(f) : f.begins[i + 1] = f.begins[i] + f.sizes[i]

ASSUME BoundsAssumption == MaxEntries \in Nat /\ MaxRefusals \in Nat

VARIABLES
  frame,          \* the frame (never changes)
  phase,          \* "permutation", "sizes", "groups", "check", "idle", "feeding", "failed"
  permutation,    \* from logical index to place in the codestream
  offsets, laid, acc,   \* where each stored section begins, as far as laid out
  toc,            \* t->groups, original_to_bitstream, bitstream_to_original, bookmark
  data,           \* f->data: the sections in the order stored, with their bytes
  reading,        \* f->reading_data_index
  taken, given,   \* the position reached, and the end of the chunk presented
  refusals

vars == <<frame, phase, permutation, offsets, laid, acc, toc, data, reading, taken, given,
          refusals>>

E == Entries(frame)
Span(from, to) == [i \in 1 .. to - from |-> from + i - 1]

Identity == [k \in E |-> k]
InverseOf(p) == [v \in E |-> CHOOSE k \in E : p[k] = v]

NoGroups == [k \in E |-> [offset |-> 0, size |-> 0]]
NoToc == [groups |-> NoGroups, original_to_bitstream |-> Identity,
          bitstream_to_original |-> Identity, bookmark |-> 0]
NoData == [i \in E |-> [offset |-> 0, size |-> 0, bytes |-> <<>>]]

Init ==
  /\ frame \in Frames
  /\ phase = "permutation" /\ permutation = Identity
  /\ offsets = [i \in E |-> 0] /\ laid = 0 /\ acc = frame.start
  /\ toc = NoToc /\ data = NoData
  /\ reading = 0 /\ taken = frame.start /\ given = frame.start
  /\ refusals = 0

-----------------------------------------------------------------------------
(* jxl_toc_parse, jxl_frame_parse *)

TooMany == EntryCount(frame) > MaxEntries

ReadPermutation ==
  /\ phase = "permutation" /\ ~TooMany
  /\ permutation' = frame.order
  /\ phase' = "sizes"
  /\ UNCHANGED <<frame, offsets, laid, acc, toc, data, reading, taken, given, refusals>>

LayOut ==
  /\ phase = "sizes" /\ laid \in E
  /\ offsets' = [offsets EXCEPT ![laid] = acc]
  /\ acc' = acc + frame.sizes[laid]
  /\ laid' = laid + 1
  /\ UNCHANGED <<frame, phase, permutation, toc, data, reading, taken, given, refusals>>

\* jxl_toc_adjust_offsets: from positions in the codestream to the frame's.
Adjusted(offset) ==
  IF frame.base # 0 /\ offset >= frame.base THEN offset - frame.base ELSE offset

GroupInStoredOrder(k) ==
  [offset |-> Adjusted(offsets[permutation[k]]), size |-> frame.sizes[k]]
Group(k) ==
  [offset |-> Adjusted(offsets[permutation[k]]), size |-> frame.sizes[permutation[k]]]

Arrange ==
  /\ phase = "sizes" /\ laid = EntryCount(frame)
  /\ toc' = [groups |-> [k \in E |-> Group(k)],
             original_to_bitstream |-> permutation,
             bitstream_to_original |-> InverseOf(permutation),
             bookmark |-> Group(InverseOf(permutation)[0]).offset]
  /\ phase' = "groups"
  /\ UNCHANGED <<frame, permutation, offsets, laid, acc, data, reading, taken, given, refusals>>

StoredAsLogical(i) == toc.original_to_bitstream[i]
Stored(i) == toc.bitstream_to_original[i]

CreateData ==
  /\ phase = "groups"
  /\ data' = [i \in E |-> LET g == toc.groups[Stored(i)]
                          IN  [offset |-> g.offset, size |-> g.size, bytes |-> <<>>]]
  /\ phase' = "check"
  /\ UNCHANGED <<frame, permutation, offsets, laid, acc, toc, reading, taken, given, refusals>>

\* The table is too large, damaged or cut off, or memory runs out.  What there
\* is of the frame is freed, and nothing reads it before.
FailParse ==
  /\ phase \in {"permutation", "sizes", "groups"}
  /\ phase' = "failed"
  /\ UNCHANGED <<frame, permutation, offsets, laid, acc, toc, data, reading, taken, given,
                 refusals>>

-----------------------------------------------------------------------------
(* jxl_frame_feed_bytes and its callers *)

\* Every caller compares t->total_size with what the codestream holds.
CheckPayload ==
  /\ phase = "check"
  /\ phase' = IF acc <= frame.end THEN "idle" ELSE "failed"
  /\ UNCHANGED <<frame, permutation, offsets, laid, acc, toc, data, reading, taken, given,
                 refusals>>

LoadingDone == reading = EntryCount(frame)

\* The next n bytes of the codestream; none, too, when there are no more.
Feed(n) ==
  /\ phase = "idle" /\ ~LoadingDone
  /\ n = 0 => taken = frame.end
  /\ given' = taken + n /\ given' <= frame.end
  /\ phase' = "feeding"
  /\ UNCHANGED <<frame, permutation, offsets, laid, acc, toc, data, reading, taken, refusals>>

Have(i) == Len(data[i].bytes)
LeftOfSize(i) == data[i].size
Left(i) == data[i].size - Have(i)

Receive(i, n) ==
  /\ data' = [data EXCEPT ![i].bytes = @ \o Span(taken, taken + n)]
  /\ taken' = taken + n

\* One turn of the loop: a section that is complete, one that the chunk
\* completes, one that it does not.
PassOver ==
  /\ phase = "feeding" /\ ~LoadingDone
  /\ Left(reading) <= 0
  /\ reading' = reading + 1
  /\ UNCHANGED <<frame, phase, permutation, offsets, laid, acc, toc, data, taken, given, refusals>>

CompleteAndReturn ==
  /\ phase = "feeding" /\ ~LoadingDone
  /\ Left(reading) > 0 /\ given - taken >= Left(reading)
  /\ Receive(reading, Left(reading))
  /\ reading' = reading + 1
  /\ phase' = IF taken' = given THEN "idle" ELSE phase
  /\ UNCHANGED <<frame, permutation, offsets, laid, acc, toc, given, refusals>>

Complete ==
  /\ phase = "feeding" /\ ~LoadingDone
  /\ Left(reading) > 0 /\ given - taken >= Left(reading)
  /\ Receive(reading, Left(reading))
  /\ reading' = reading + 1
  /\ UNCHANGED <<frame, phase, permutation, offsets, laid, acc, toc, given, refusals>>

Extend ==
  /\ phase = "feeding" /\ ~LoadingDone
  /\ Left(reading) > 0 /\ given - taken < Left(reading)
  /\ Receive(reading, given - taken)
  /\ phase' = "idle"
  /\ UNCHANGED <<frame, permutation, offsets, laid, acc, toc, reading, given, refusals>>

\* ensure_group_cap fails.  The caller may try again from the pointer returned.
NoMemory ==
  /\ phase = "feeding" /\ ~LoadingDone
  /\ Left(reading) > 0 /\ given > taken
  /\ refusals < MaxRefusals /\ refusals' = refusals + 1
  /\ phase' = "idle" /\ given' = taken
  /\ UNCHANGED <<frame, permutation, offsets, laid, acc, toc, data, reading, taken>>

Return ==
  /\ phase = "feeding" /\ LoadingDone
  /\ phase' = "idle"
  /\ UNCHANGED <<frame, permutation, offsets, laid, acc, toc, data, reading, taken, given,
                 refusals>>

ParseNext == ReadPermutation \/ LayOut \/ Arrange \/ CreateData \/ FailParse \/ CheckPayload
FeedNext == PassOver \/ Complete \/ Extend \/ NoMemory \/ Return

Next ==
  \/ ParseNext \/ FeedNext
  \/ \E n \in 0 .. frame.end - frame.start : Feed(n)

Spec == Init /\ [][Next]_vars

-----------------------------------------------------------------------------
(* jxl_frame_group_by_kind: the number of a section in data *)

LogicalIndex(kind, index) ==
  CASE kind \in {"ALL", "LF_GLOBAL"} -> 0
    [] kind = "LF_GROUP" -> 1 + index
    [] kind = "HF_GLOBAL" -> 1 + frame.lf
    [] kind = "GROUP_PASS" -> LET pass == index \div frame.groups
                              IN  1 + frame.lf + 1 + pass * frame.groups + (index % frame.groups)

StoredIndexUnpermuted(kind, index) == LogicalIndex(kind, index)
StoredIndex(kind, index) ==
  LET logical == LogicalIndex(kind, index)
  IN  IF logical \in E THEN toc.original_to_bitstream[logical] ELSE logical

-----------------------------------------------------------------------------
(* Properties *)

Loading == phase \in {"idle", "feeding"}

TypeOK ==
  /\ frame \in Frames
  /\ phase \in {"permutation", "sizes", "groups", "check", "idle", "feeding", "failed"}
  /\ permutation \in [E -> E] /\ offsets \in [E -> Nat]
  /\ laid \in 0 .. EntryCount(frame) /\ acc \in Nat
  /\ toc \in [groups : [E -> [offset : Nat, size : Nat]], original_to_bitstream : [E -> E],
             bitstream_to_original : [E -> E], bookmark : Nat]
  /\ data \in [E -> [offset : Nat, size : Nat, bytes : Seq(Nat)]]
  /\ \A i \in E : Have(i) <= data[i].size
  /\ reading \in 0 .. EntryCount(frame)
  /\ taken \in Nat /\ given \in Nat
  /\ Loading => frame.start <= taken /\ taken <= given /\ given <= frame.end
  /\ refusals \in 0 .. MaxRefusals

\* The two ways to a section's bytes agree: what sequential feeding puts into a
\* section, in whatever chunks and with allocations that fail on the way, lies
\* where its offset in the table of contents says it does.
BytesAtOffsets ==
  Loading =>
    \A i \in E : LET at == frame.base + data[i].offset
                 IN  data[i].bytes = Span(at, at + Have(i))

\* The payload is used up exactly when every section is complete: no call ends
\* with all of it taken and a section (perhaps an empty one) still awaited, and
\* none takes a byte of what follows the frame.
DoneWhenAllTaken ==
  Loading =>
    /\ LoadingDone => taken = acc /\ \A i \in E : Left(i) = 0
    /\ phase = "idle" /\ frame.start < taken /\ taken = acc => LoadingDone

\* The sections that decoders ask for, in the logical order of the format.
Sections ==
  IF EntryCount(frame) = 1 THEN {<<"ALL", 0>>}
  ELSE {<<"LF_GLOBAL", 0>>, <<"HF_GLOBAL", 0>>}
       \cup {<<"LF_GROUP", i>> : i \in 0 .. frame.lf - 1}
       \cup {<<"GROUP_PASS", i>> : i \in 0 .. frame.groups * frame.passes - 1}
Rank(kind) == CASE kind \in {"ALL", "LF_GLOBAL"} -> 0 [] kind = "LF_GROUP" -> 1
                [] kind = "HF_GLOBAL" -> 2 [] kind = "GROUP_PASS" -> 3
Precedes(s, t) == Rank(s[1]) < Rank(t[1]) \/ (s[1] = t[1] /\ s[2] < t[2])

\* Asking by kind and index finds the section that the format puts there: the
\* formulas number the sections as they follow each other, without gaps.
SectionsFound ==
  Loading =>
    \A s \in Sections :
      LET k == Cardinality({t \in Sections : Precedes(t, s)})
      IN  StoredIndex(s[1], s[2]) = frame.order[k]

\* A section, found through the table of contents, only ever holds the first
\* bytes of the data that the codestream stores for it.
Promise == INSTANCE FrameSections
             WITH want <- [k \in E |-> Span(frame.begins[frame.order[k]],
                                           frame.begins[frame.order[k] + 1])],
                  got <- [k \in E |-> data[toc.original_to_bitstream[k]].bytes]
ImplementsSections == Promise!Spec
=============================================================================
