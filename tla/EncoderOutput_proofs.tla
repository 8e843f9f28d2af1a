------------------------- MODULE EncoderOutput_proofs -------------------------
(***************************************************************************)
(* What TLAPS proves of the encoder's output, for every set of frames and  *)
(* rooms and all sizes of headers: what is handed out is the boxes in      *)
(* order, and the parts of the codestream are numbered and end once.       *)
(***************************************************************************)
EXTENDS EncoderOutput, SequenceTheorems, TLAPS

Kinds == {"file", "jxlp", "jxlc", "jbrd", "metadata", "bare"}
PutType == [at : Nat, n : Nat \ {0}, whole : BOOLEAN]
BoxType == [kind : Kinds, start : Nat, size : Nat \ {0}, index : Nat, last : BOOLEAN,
            final : BOOLEAN]
ChunkType == [start : Nat, len : Nat \ {0}, owned : BOOLEAN, box : Nat \ {0}, at : Nat]

Apart(a, m, b, n) == a + m <= b \/ b + n <= a

\* Puts within a box, no two of the same byte.
PutsInside(ps, size) ==
  /\ ps \in Seq(PutType)
  /\ \A i \in 1 .. Len(ps) : ps[i].at + ps[i].n <= size
  /\ \A i, j \in 1 .. Len(ps) : i # j => Apart(ps[i].at, ps[i].n, ps[j].at, ps[j].n)

\* The boxes of a plan.
Proper ==
  {b \in [kind : Kinds, size : Nat \ {0}, order : Seq(PutType), last : BOOLEAN, final : BOOLEAN] :
     PutsInside(b.order, b.size) /\ b.order # <<>>}

\* Boxes that follow each other.
Chained(bs) ==
  /\ bs \in Seq(BoxType)
  /\ \A n \in 1 .. Len(bs) :
       bs[n].start = IF n = 1 THEN 0 ELSE bs[n - 1].start + bs[n - 1].size
  /\ \A m, n \in 1 .. Len(bs) : m < n => bs[m].start + bs[m].size <= bs[n].start

TypedInv ==
  /\ queue \in Seq(Pictures) /\ added \in Nat /\ input_closed \in BOOLEAN
  /\ setup \in [container : BOOLEAN, store : BOOLEAN, large : BOOLEAN]
  /\ jxlp_counter \in Nat /\ has_jpeg_metadata_boxes \in BOOLEAN
  /\ position \in Nat /\ output_position \in Nat /\ finalized_position \in Nat
  /\ avail \in Nat /\ wrote_bytes \in BOOLEAN
  /\ stage \in {"idle", "flush", "loop", "write"}
  /\ plan \in Seq(Proper)
  /\ handed \in Seq(Nat \X Nat)

\* Where the three positions are.
PlaceInv ==
  /\ output_position <= finalized_position /\ finalized_position <= Written
  /\ puts = <<>> => position = Written
  /\ puts # <<>> => /\ boxes # <<>> /\ PutsInside(puts, Current.size)
                    /\ position = Current.start + Head(puts).at
                    /\ finalized_position <= Current.start

\* A chunk is bytes of a box, in their place, not handed out yet.
ChunkInv(c) ==
  /\ c \in ChunkType /\ c.box <= Len(boxes)
  /\ c.at + c.len <= boxes[c.box].size /\ c.start = boxes[c.box].start + c.at
  /\ output_position < EndOf(c)

\* One that is not the encoder's own is in the caller's buffer, which has room
\* up to its end.
CallerInv(c) ==
  ~c.owned =>
    /\ EndOf(c) <= output_position + avail
    /\ \A p \in c.start .. EndOf(c) - 1 :
         output_position <= p => p \in DOMAIN caller /\ caller[p] = <<c.box, c.at + p - c.start>>

ChunksInv ==
  /\ \A c \in chunks : ChunkInv(c) /\ CallerInv(c)
  /\ \A c, d \in chunks : c # d => Apart(c.start, c.len, d.start, d.len)
  /\ puts # <<>> => \A c \in chunks : \A i \in 1 .. Len(puts) :
       Apart(c.start, c.len, Current.start + puts[i].at, puts[i].n)

\* Between boxes everything is final, and between calls nothing is left in the
\* caller's buffer, unless an error ended the last one.
StageInv ==
  /\ answer = "ERROR" => stage = "idle"
  /\ answer # "ERROR" =>
       /\ stage # "write" => puts = <<>> /\ finalized_position = position
       /\ stage \in {"idle", "loop"} => plan = <<>> /\ \A c \in chunks : c.owned

HandedInv ==
  /\ Len(handed) = output_position
  /\ \A n \in 1 .. Len(boxes) : \A i \in 0 .. boxes[n].size - 1 :
       boxes[n].start + i < output_position => handed[boxes[n].start + i + 1] = <<n, i>>

OutputInv ==
  /\ TypedInv /\ Chained(boxes) /\ PlaceInv /\ ChunksInv /\ StageInv /\ HandedInv

-----------------------------------------------------------------------------
(* The parts of the codestream *)

Part(b) == b.kind \in {"jxlc", "jxlp"}

\* Only the last box of a plan may end the codestream or be all of it.
PlanInv ==
  \A i \in 1 .. Len(plan) :
    /\ plan[i].last => i = Len(plan) /\ input_closed /\ queue = <<>>
    /\ plan[i].kind = "jxlc" =>
         /\ plan[i].last /\ jxlp_counter = 0
         /\ \A j \in 1 .. Len(plan) : plan[j].kind # "jxlp"

PartsInv ==
  /\ \A n \in 1 .. Len(boxes) :
       /\ boxes[n].last => input_closed /\ queue = <<>> /\ plan = <<>>
       /\ boxes[n].kind = "jxlc" => boxes[n].last
       /\ boxes[n].kind = "jxlp" => boxes[n].index < jxlp_counter
       /\ boxes[n].kind = "jxlp" /\ (\A m \in 1 .. Len(boxes) : n < m => ~Part(boxes[m])) =>
            jxlp_counter = boxes[n].index + 1
  /\ (\A n \in 1 .. Len(boxes) : ~Part(boxes[n])) => jxlp_counter = 0

NumberedInv == PlanInv /\ PartsInv /\ CodestreamInParts

-----------------------------------------------------------------------------
(* Puts and boxes *)

LEMMA ApartInner ==
  ASSUME NEW a \in Nat, NEW m \in Nat, NEW b \in Nat, NEW n \in Nat, Apart(a, m, b, n),
         NEW c \in Nat, NEW k \in Nat, a <= c, c + k = a + m,
         NEW d \in Nat, NEW l \in Nat, b <= d, d + l = b + n
  PROVE  Apart(c, k, d, l)
BY DEF Apart

LEMMA PutFields ==
  ASSUME NEW q \in PutType
  PROVE  q.at \in Nat /\ q.n \in Nat \ {0} /\ q.whole \in BOOLEAN
BY DEF PutType

LEMMA PutOf ==
  ASSUME NEW ps \in Seq(PutType), NEW i \in 1 .. Len(ps)
  PROVE  /\ ps[i] \in PutType
         /\ ps[i].at \in Nat /\ ps[i].n \in Nat \ {0} /\ ps[i].whole \in BOOLEAN
<1>1. ps[i] \in PutType
  BY ElementOfSeq
<1> QED
  BY <1>1, PutFields

LEMMA TailInside ==
  ASSUME NEW size \in Nat, NEW ps, PutsInside(ps, size), ps # <<>>
  PROVE  /\ PutsInside(Tail(ps), size)
         /\ Len(Tail(ps)) = Len(ps) - 1
         /\ \A i \in 1 .. Len(Tail(ps)) : Tail(ps)[i] = ps[i + 1]
<1>1. ps \in Seq(PutType)
  BY DEF PutsInside
<1>2. /\ Tail(ps) \in Seq(PutType) /\ Len(Tail(ps)) = Len(ps) - 1
      /\ \A i \in 1 .. Len(Tail(ps)) : Tail(ps)[i] = ps[i + 1]
  BY <1>1, HeadTailProperties
<1>3. Len(ps) \in Nat /\ \A i \in 1 .. Len(Tail(ps)) : i + 1 \in 1 .. Len(ps)
  BY <1>1, <1>2, LenProperties
<1>4. \A i, j \in 1 .. Len(Tail(ps)) : i # j => i + 1 # j + 1
  BY <1>1, <1>2
<1> QED
  BY <1>2, <1>3, <1>4 DEF PutsInside

\* What is left of a put of which n bytes are placed.
Rest(put, n) == [at |-> put.at + n, n |-> put.n - n, whole |-> put.whole]

LEMMA RestInside ==
  ASSUME NEW size \in Nat, NEW ps, PutsInside(ps, size), ps # <<>>,
         NEW n \in Nat \ {0}, n < ps[1].n
  PROVE  LET qs == <<Rest(ps[1], n)>> \o Tail(ps)
         IN  /\ PutsInside(qs, size) /\ Len(qs) = Len(ps) /\ qs # <<>>
             /\ qs[1] = Rest(ps[1], n) /\ \A i \in 2 .. Len(ps) : qs[i] = ps[i]
<1> DEFINE r == Rest(ps[1], n)
           qs == <<r>> \o Tail(ps)
<1>1. ps \in Seq(PutType) /\ Len(ps) \in Nat /\ Len(ps) >= 1
  BY LenProperties, EmptySeq DEF PutsInside
<1>2. ps[1] \in PutType /\ ps[1].at \in Nat /\ ps[1].n \in Nat /\ ps[1].whole \in BOOLEAN
  <2>1. 1 \in 1 .. Len(ps)
    BY <1>1
  <2> QED
    BY <1>1, <2>1, PutOf
<1>3. r \in PutType /\ r.at = ps[1].at + n /\ r.n = ps[1].n - n
  BY <1>2 DEF Rest, PutType
<1>4. /\ Tail(ps) \in Seq(PutType) /\ Len(Tail(ps)) = Len(ps) - 1
      /\ \A i \in 1 .. Len(Tail(ps)) : Tail(ps)[i] = ps[i + 1]
  BY <1>1, HeadTailProperties
<1>5. <<r>> \in Seq(PutType) /\ Len(<<r>>) = 1 /\ <<r>>[1] = r
  BY <1>3
<1> HIDE DEF r
<1>6. /\ qs \in Seq(PutType) /\ Len(qs) = Len(ps)
      /\ \A i \in 1 .. Len(ps) : qs[i] = IF i <= 1 THEN <<r>>[i] ELSE Tail(ps)[i - 1]
  BY <1>1, <1>4, <1>5, ConcatProperties
<1> HIDE DEF qs
<1>7. qs[1] = r
  BY <1>1, <1>5, <1>6
<1>8. \A i \in 2 .. Len(ps) : qs[i] = ps[i]
  <2> SUFFICES ASSUME NEW i \in 2 .. Len(ps) PROVE qs[i] = ps[i]
    OBVIOUS
  <2>1. i - 1 \in 1 .. Len(Tail(ps)) /\ (i - 1) + 1 = i /\ ~(i <= 1) /\ i \in 1 .. Len(ps)
    BY <1>1, <1>4
  <2> QED
    BY <2>1, <1>4, <1>6
<1>9. \A i \in 1 .. Len(ps) : ps[i] \in PutType /\ ps[i].at \in Nat /\ ps[i].n \in Nat
  BY <1>1, PutOf
<1>10. \A i \in 1 .. Len(ps) : qs[i].at + qs[i].n = ps[i].at + ps[i].n /\ qs[i].at >= ps[i].at
                               /\ qs[i].at \in Nat /\ qs[i].n \in Nat
  <2> SUFFICES ASSUME NEW i \in 1 .. Len(ps)
               PROVE  /\ qs[i].at + qs[i].n = ps[i].at + ps[i].n /\ qs[i].at >= ps[i].at
                      /\ qs[i].at \in Nat /\ qs[i].n \in Nat
    OBVIOUS
  <2>1. CASE i = 1
    BY <2>1, <1>2, <1>3, <1>7
  <2>2. CASE i # 1
    BY <2>2, <1>1, <1>8, <1>9
  <2> QED
    BY <2>1, <2>2
<1>11. \A i \in 1 .. Len(qs) : qs[i].at + qs[i].n <= size
  BY <1>6, <1>10 DEF PutsInside
<1>12. ASSUME NEW i \in 1 .. Len(qs), NEW j \in 1 .. Len(qs), i # j
       PROVE  Apart(qs[i].at, qs[i].n, qs[j].at, qs[j].n)
  <2>1. i \in 1 .. Len(ps) /\ j \in 1 .. Len(ps)
    BY <1>6
  <2>2. Apart(ps[i].at, ps[i].n, ps[j].at, ps[j].n)
    BY <2>1, <1>12 DEF PutsInside
  <2> QED
    BY <2>1, <2>2, <1>9, <1>10, ApartInner
<1>13. PutsInside(qs, size)
  BY <1>6, <1>11, <1>12 DEF PutsInside
<1>14. qs # <<>>
  BY <1>1, <1>6
<1> QED
  BY <1>6, <1>7, <1>8, <1>13, <1>14 DEF qs, r

LEMMA BoxFacts ==
  ASSUME NEW bs, Chained(bs), NEW n \in 1 .. Len(bs)
  PROVE  /\ bs[n] \in BoxType /\ bs[n].start \in Nat /\ bs[n].size \in Nat \ {0}
         /\ Len(bs) \in Nat
<1>1. bs \in Seq(BoxType)
  BY DEF Chained
<1>2. bs[n] \in BoxType /\ Len(bs) \in Nat
  BY <1>1, ElementOfSeq, LenProperties
<1> QED
  BY <1>2 DEF BoxType

\* No byte is in two boxes.
LEMMA OneBox ==
  ASSUME NEW bs, Chained(bs), NEW m \in 1 .. Len(bs), NEW n \in 1 .. Len(bs),
         NEW i \in Nat, i < bs[m].size, NEW j \in Nat, j < bs[n].size,
         bs[m].start + i = bs[n].start + j
  PROVE  m = n /\ i = j
<1>1. /\ bs[m].start \in Nat /\ bs[m].size \in Nat /\ bs[n].start \in Nat /\ bs[n].size \in Nat
      /\ m \in Nat /\ n \in Nat
  BY BoxFacts
<1>2. /\ m < n => bs[m].start + bs[m].size <= bs[n].start
      /\ n < m => bs[n].start + bs[n].size <= bs[m].start
  BY DEF Chained
<1>3. ~(m < n) /\ ~(n < m)
  BY <1>1, <1>2
<1>4. m = n
  BY <1>1, <1>3
<1> QED
  BY <1>1, <1>4

LEMMA WrittenFacts ==
  ASSUME Chained(boxes)
  PROVE  /\ Written \in Nat
         /\ \A n \in 1 .. Len(boxes) : boxes[n].start + boxes[n].size <= Written
         /\ boxes # <<>> => /\ Len(boxes) \in Nat \ {0}
                            /\ Written = Current.start + Current.size
                            /\ Current.start \in Nat /\ Current.size \in Nat \ {0}
<1>1. boxes \in Seq(BoxType) /\ Len(boxes) \in Nat
  BY LenProperties DEF Chained
<1>2. CASE boxes = <<>>
  BY <1>1, <1>2 DEF Written
<1>3. CASE boxes # <<>>
  <2>1. Len(boxes) \in Nat \ {0} /\ Len(boxes) \in 1 .. Len(boxes)
    BY <1>1, <1>3, EmptySeq
  <2>2. /\ Written = Current.start + Current.size
        /\ Current.start \in Nat /\ Current.size \in Nat \ {0}
    BY <1>3, <2>1, BoxFacts DEF Written, Current
  <2>3. ASSUME NEW n \in 1 .. Len(boxes) PROVE boxes[n].start + boxes[n].size <= Written
    <3>1. boxes[n].start \in Nat /\ boxes[n].size \in Nat \ {0}
      BY BoxFacts
    <3>2. CASE n = Len(boxes)
      BY <2>2, <3>2 DEF Current
    <3>3. CASE n < Len(boxes)
      <4>1. boxes[n].start + boxes[n].size <= boxes[Len(boxes)].start
        BY <2>1, <3>3 DEF Chained
      <4> QED
        BY <4>1, <3>1, <2>2 DEF Current
    <3> QED
      BY <3>2, <3>3, <2>1
  <2> QED
    BY <2>1, <2>2, <2>3
<1> QED
  BY <1>2, <1>3

-----------------------------------------------------------------------------
(* The boxes of a frame are proper *)

LEMMA TwoPuts ==
  ASSUME NEW size \in Nat, NEW a \in PutType, NEW b \in PutType,
         a.at + a.n <= size, b.at + b.n <= size, Apart(a.at, a.n, b.at, b.n)
  PROVE  PutsInside(<<a>>, size) /\ PutsInside(<<a, b>>, size)
<1>1. <<a>> \in Seq(PutType) /\ Len(<<a>>) = 1 /\ <<a>>[1] = a
  OBVIOUS
<1>2. <<a, b>> \in Seq(PutType) /\ Len(<<a, b>>) = 2 /\ <<a, b>>[1] = a /\ <<a, b>>[2] = b
  OBVIOUS
<1>3. Apart(b.at, b.n, a.at, a.n)
  BY DEF Apart
<1>4. \A i \in 1 .. 2 : i = 1 \/ i = 2
  OBVIOUS
<1>5. \A i \in 1 .. 1 : i = 1
  OBVIOUS
<1> HIDE DEF Apart
<1> QED
  BY <1>1, <1>2, <1>3, <1>4, <1>5 DEF PutsInside

LEMMA ThreePuts ==
  ASSUME NEW size \in Nat, NEW a \in PutType, NEW b \in PutType, NEW c \in PutType,
         a.at + a.n <= size, b.at + b.n <= size, c.at + c.n <= size,
         Apart(a.at, a.n, b.at, b.n), Apart(a.at, a.n, c.at, c.n), Apart(b.at, b.n, c.at, c.n)
  PROVE  PutsInside(<<a, b, c>>, size)
<1> DEFINE s == <<a, b, c>>
<1>1. s \in Seq(PutType) /\ Len(s) = 3 /\ s[1] = a /\ s[2] = b /\ s[3] = c
  OBVIOUS
<1>2. Apart(b.at, b.n, a.at, a.n) /\ Apart(c.at, c.n, a.at, a.n) /\ Apart(c.at, c.n, b.at, b.n)
  BY DEF Apart
<1>3. \A i \in 1 .. 3 : i = 1 \/ i = 2 \/ i = 3
  OBVIOUS
<1> HIDE DEF s
<1>4. \A i \in 1 .. 3 : s[i].at + s[i].n <= size
  BY <1>1, <1>3
<1>5. \A i, j \in 1 .. 3 : i # j => Apart(s[i].at, s[i].n, s[j].at, s[j].n)
  BY <1>1, <1>2, <1>3
<1>6. PutsInside(s, size)
  BY <1>1, <1>4, <1>5 DEF PutsInside
<1> QED
  BY <1>6 DEF s

LEMMA PutMade ==
  ASSUME NEW at \in Nat, NEW n \in Nat \ {0}
  PROVE  /\ Whole(at, n) \in PutType /\ Whole(at, n).at = at /\ Whole(at, n).n = n
         /\ Split(at, n) \in PutType /\ Split(at, n).at = at /\ Split(at, n).n = n
BY DEF Whole, Split, PutType

LEMMA InsideTyped ==
  ASSUME NEW size, NEW order, PutsInside(order, size)
  PROVE  order \in Seq(PutType)
BY DEF PutsInside

LEMMA AppendedMade ==
  ASSUME NEW kind \in Kinds, NEW n \in Nat \ {0}
  PROVE  LET b == AppendedBox(kind, n) IN b \in Proper /\ b.kind = kind /\ b.last = FALSE
<1> DEFINE p == Split(SmallHeader, n)
           q == Whole(0, SmallHeader)
<1>1. SmallHeader \in Nat \ {0} /\ SmallHeader + n \in Nat \ {0}
  BY OutputAssumption
<1>2. /\ p \in PutType /\ p.at = SmallHeader /\ p.n = n
      /\ q \in PutType /\ q.at = 0 /\ q.n = SmallHeader
  BY <1>1, PutMade
<1> HIDE DEF p, q
<1>3. Apart(p.at, p.n, q.at, q.n)
  BY <1>1, <1>2 DEF Apart
<1> DEFINE size == SmallHeader + n
<1>4. /\ size \in Nat \ {0} /\ size \in Nat
      /\ p.at + p.n <= size /\ q.at + q.n <= size
  BY <1>1, <1>2
<1> HIDE DEF size
<1> HIDE DEF Apart
<1>5. PutsInside(<<p, q>>, size)
  BY <1>2, <1>3, <1>4, TwoPuts
<1>6. <<p, q>> # <<>> /\ FALSE \in BOOLEAN /\ TRUE \in BOOLEAN
  OBVIOUS
<1> DEFINE order == <<p, q>>
<1> HIDE DEF order
<1>7. PutsInside(order, size) /\ order # <<>>
  BY <1>5, <1>6 DEF order
<1>8. /\ Box(kind, size, order, FALSE, TRUE) \in Proper
      /\ Box(kind, size, order, FALSE, TRUE).kind = kind
      /\ Box(kind, size, order, FALSE, TRUE).last = FALSE
  BY <1>4, <1>6, <1>7, InsideTyped DEF Box, Proper
<1> QED
  BY <1>8 DEF AppendedBox, p, q, size, order

\* A box of one of the kinds ks that is not the last of the codestream.
Before(b, ks) == b \in Proper /\ b.kind \in ks /\ ~b.last

\* A sequence of such boxes.
AllBefore(s, ks) == s \in Seq(Proper) /\ \A i \in 1 .. Len(s) : Before(s[i], ks)

LEMMA OneBefore ==
  ASSUME NEW ks, NEW b, Before(b, ks)
  PROVE  AllBefore(<<b>>, ks)
<1>1. b \in Proper
  BY DEF Before
<1>2. <<b>> \in Seq(Proper) /\ Len(<<b>>) = 1 /\ <<b>>[1] = b
  BY <1>1
<1> QED
  BY <1>2 DEF AllBefore

LEMMA NoneBefore ==
  ASSUME NEW ks
  PROVE  AllBefore(<<>>, ks)
<1>1. <<>> \in Seq(Proper) /\ Len(<<>>) = 0
  OBVIOUS
<1> QED
  BY <1>1 DEF AllBefore

LEMMA BothBefore ==
  ASSUME NEW ks, NEW s, NEW t, AllBefore(s, ks), AllBefore(t, ks)
  PROVE  AllBefore(s \o t, ks)
<1>1. s \in Seq(Proper) /\ t \in Seq(Proper)
  BY DEF AllBefore
<1>2. /\ s \o t \in Seq(Proper) /\ Len(s \o t) = Len(s) + Len(t)
      /\ \A i \in 1 .. Len(s) + Len(t) : (s \o t)[i] = IF i <= Len(s) THEN s[i] ELSE t[i - Len(s)]
  BY <1>1, ConcatProperties
<1>3. Len(s) \in Nat /\ Len(t) \in Nat
  BY <1>1, LenProperties
<1>4. ASSUME NEW i \in 1 .. Len(s) + Len(t) PROVE Before((s \o t)[i], ks)
  <2>1. CASE i <= Len(s)
    <3>1. i \in 1 .. Len(s)
      BY <2>1, <1>3
    <3> QED
      BY <2>1, <3>1, <1>2 DEF AllBefore
  <2>2. CASE ~(i <= Len(s))
    <3>1. i - Len(s) \in 1 .. Len(t)
      BY <2>2, <1>3
    <3> QED
      BY <2>2, <3>1, <1>2 DEF AllBefore
  <2> QED
    BY <2>1, <2>2
<1> QED
  BY <1>2, <1>4 DEF AllBefore

\* What may be in front of the frame's box.
FrontKinds(f) == IF Partial(f) THEN Kinds \ {"jxlc"} ELSE {"file", "metadata"}

LEMMA FrontMade ==
  ASSUME NEW f \in Pictures
  PROVE  AllBefore(FileBoxes(f) \o HeaderBoxes(f) \o MetadataBoxes(f), FrontKinds(f))
<1> DEFINE ks == FrontKinds(f)
<1>1. f.metadata \in Seq(Nat \ {0})
  BY OutputAssumption
<1>2. /\ SmallHeader \in Nat \ {0} /\ FileHeader \in Nat \ {0} /\ JbrdLen \in Nat \ {0}
      /\ IndexLen \in Nat \ {0} /\ StreamHeader \in Nat \ {0}
  BY OutputAssumption
<1>3. AllBefore(FileBoxes(f), ks)
  <2> DEFINE p == Split(0, FileHeader)
             order == <<p>>
             b(final) == Box("file", FileHeader, order, FALSE, final)
  <2>1. p \in PutType /\ p.at = 0 /\ p.n = FileHeader
    BY <1>2, PutMade
  <2> HIDE DEF p
  <2>2. <<p>> \in Seq(PutType) /\ Len(<<p>>) = 1 /\ <<p>>[1] = p /\ <<p>> # <<>>
    BY <2>1
  <2>3. \A i \in 1 .. 1 : i = 1
    OBVIOUS
  <2>4. PutsInside(order, FileHeader)
    BY <1>2, <2>1, <2>2, <2>3 DEF PutsInside
  <2>5. "file" \in Kinds /\ FALSE \in BOOLEAN /\ TRUE \in BOOLEAN /\ order # <<>> /\ FileHeader \in Nat \ {0}
    BY <1>2 DEF Kinds
  <2> HIDE DEF order
  <2>6. b(TRUE) \in Proper /\ b(TRUE).kind = "file" /\ b(TRUE).last = FALSE
    BY <2>4, <2>5, InsideTyped DEF Box, Proper
  <2>7. b(FALSE) \in Proper /\ b(FALSE).kind = "file" /\ b(FALSE).last = FALSE
    BY <2>4, <2>5, InsideTyped DEF Box, Proper
  <2> HIDE DEF b
  <2>8. (~Partial(f)) = TRUE \/ (~Partial(f)) = FALSE
    OBVIOUS
  <2>9. Before(b(TRUE), ks) /\ Before(b(FALSE), ks)
    BY <2>6, <2>7 DEF Before, FrontKinds, Kinds
  <2>10. AllBefore(<<b(~Partial(f))>>, ks)
    BY <2>8, <2>9, OneBefore
  <2> QED
    BY <2>10, NoneBefore DEF FileBoxes, b, order, p
<1>4. AllBefore(HeaderBoxes(f), ks)
  <2> DEFINE n == IndexLen + StreamHeader
             p == Whole(SmallHeader, n)
             q == Whole(0, SmallHeader)
             size == SmallHeader + n
             order == <<p, q>>
             b == Box("jxlp", size, order, FALSE, TRUE)
             c == AppendedBox("jbrd", JbrdLen)
  <2>1. n \in Nat \ {0} /\ SmallHeader + n \in Nat \ {0}
    BY <1>2
  <2>2. /\ p \in PutType /\ p.at = SmallHeader /\ p.n = n
        /\ q \in PutType /\ q.at = 0 /\ q.n = SmallHeader
    <3> HIDE DEF n
    <3> QED
      BY <1>2, <2>1, PutMade
  <2> HIDE DEF p, q, n
  <2>3. Apart(p.at, p.n, q.at, q.n)
    BY <1>2, <2>1, <2>2 DEF Apart
  <2>4. /\ size \in Nat \ {0} /\ size \in Nat
        /\ p.at + p.n <= size /\ q.at + q.n <= size
    BY <1>2, <2>1, <2>2
  <2> HIDE DEF size
  <2>5. PutsInside(<<p, q>>, size)
    BY <2>2, <2>3, <2>4, TwoPuts
  <2>6. "jxlp" \in Kinds /\ FALSE \in BOOLEAN /\ TRUE \in BOOLEAN /\ order # <<>>
    BY DEF Kinds
  <2> HIDE DEF order
  <2>7. b \in Proper /\ b.kind = "jxlp" /\ b.last = FALSE
    <3>1. PutsInside(order, size)
      BY <2>5 DEF order
    <3> QED
      BY <2>4, <2>6, <3>1, InsideTyped DEF Box, Proper
  <2>8. c \in Proper /\ c.kind = "jbrd" /\ c.last = FALSE
    BY <1>2, AppendedMade DEF Kinds
  <2> HIDE DEF b, c
  <2>9. Partial(f) => "jxlp" \in ks /\ "jbrd" \in ks
    BY DEF FrontKinds, Kinds
  <2> HIDE DEF ks
  <2>10. Partial(f) => Before(b, ks) /\ Before(c, ks)
    BY <2>7, <2>8, <2>9 DEF Before
  <2>11. Partial(f) => AllBefore(<<b>>, ks) /\ AllBefore(<<c>>, ks)
    BY <2>10, OneBefore
  <2>12. Partial(f) => AllBefore(<<b>> \o (IF setup.store THEN <<c>> ELSE <<>>), ks)
    BY <2>11, NoneBefore, BothBefore
  <2> QED
    BY <2>12, NoneBefore DEF HeaderBoxes, b, c, order, p, q, n, size
<1>5. AllBefore(MetadataBoxes(f), ks)
  <2> DEFINE g(i) == AppendedBox("metadata", f.metadata[i])
             m == [i \in 1 .. Len(f.metadata) |-> g(i)]
  <2>1. ASSUME NEW i \in 1 .. Len(f.metadata) PROVE Before(g(i), ks) /\ g(i) \in Proper
    <3>1. f.metadata[i] \in Nat \ {0}
      BY <1>1, ElementOfSeq
    <3>2. g(i) \in Proper /\ g(i).kind = "metadata" /\ g(i).last = FALSE
      BY <3>1, AppendedMade DEF Kinds
    <3> QED
      BY <3>2 DEF Before, FrontKinds, Kinds
  <2> HIDE DEF g
  <2>2. Len(f.metadata) \in Nat
    BY <1>1, LenProperties
  <2>3. m \in Seq(Proper) /\ Len(m) = Len(f.metadata) /\ \A i \in 1 .. Len(m) : m[i] = g(i)
    BY <2>1, <2>2, IsASeq
  <2>4. AllBefore(m, ks)
    BY <2>1, <2>3 DEF AllBefore
  <2> QED
    BY <2>4 DEF MetadataBoxes, g
<1> HIDE DEF FileBoxes, HeaderBoxes, MetadataBoxes
<1>6. AllBefore(FileBoxes(f) \o HeaderBoxes(f), ks)
  BY <1>3, <1>4, BothBefore
<1> QED
  BY <1>5, <1>6, BothBefore

LEMMA SmallTuples ==
  ASSUME NEW S, NEW a \in S, NEW b \in S, NEW c \in S
  PROVE  /\ <<>> \o <<a>> = <<a>>
         /\ <<a>> \o <<b>> = <<a, b>>
         /\ Append(<<a>>, b) = <<a, b>>
         /\ Append(<<a, b>>, c) = <<a, b, c>>
<1>1. <<a>> \in Seq(S) /\ Len(<<a>>) = 1 /\ <<a>>[1] = a
  OBVIOUS
<1>2. <<b>> \in Seq(S) /\ Len(<<b>>) = 1 /\ <<b>>[1] = b
  OBVIOUS
<1>3. <<a, b>> \in Seq(S) /\ Len(<<a, b>>) = 2 /\ <<a, b>>[1] = a /\ <<a, b>>[2] = b
  OBVIOUS
<1>4. /\ <<a, b, c>> \in Seq(S) /\ Len(<<a, b, c>>) = 3
      /\ <<a, b, c>>[1] = a /\ <<a, b, c>>[2] = b /\ <<a, b, c>>[3] = c
  OBVIOUS
<1>5. <<>> \o <<a>> = <<a>>
  BY <1>1, ConcatEmptySeq
<1>6. Append(<<a>>, b) = <<a, b>>
  <2>1. /\ Append(<<a>>, b) \in Seq(S) /\ Len(Append(<<a>>, b)) = 1 + 1
        /\ \A i \in 1 .. 1 : Append(<<a>>, b)[i] = <<a>>[i] 
        /\ Append(<<a>>, b)[1 + 1] = b
    BY <1>1, AppendProperties
  <2>2. \A i \in 1 .. 2 : i = 1 \/ i = 2
    OBVIOUS
  <2> DEFINE s == Append(<<a>>, b)
             t == <<a, b>>
  <2>3. s \in Seq(S) /\ t \in Seq(S) /\ Len(s) = 2 /\ Len(t) = 2 /\ \A i \in 1 .. 2 : s[i] = t[i]
    BY <2>1, <2>2, <1>1, <1>3
  <2> HIDE DEF s, t
  <2>4. s = t
    BY <2>3, SeqEqual
  <2> QED
    BY <2>4 DEF s, t
<1>7. <<a>> \o <<b>> = <<a, b>>
  BY <1>1, <1>6, AppendIsConcat
<1>8. Append(<<a, b>>, c) = <<a, b, c>>
  <2>1. /\ Append(<<a, b>>, c) \in Seq(S) /\ Len(Append(<<a, b>>, c)) = 2 + 1
        /\ \A i \in 1 .. 2 : Append(<<a, b>>, c)[i] = <<a, b>>[i] 
        /\ Append(<<a, b>>, c)[2 + 1] = c
    BY <1>3, AppendProperties
  <2>2. \A i \in 1 .. 3 : i = 1 \/ i = 2 \/ i = 3
    OBVIOUS
  <2> DEFINE s == Append(<<a, b>>, c)
             t == <<a, b, c>>
  <2>3. s \in Seq(S) /\ t \in Seq(S) /\ Len(s) = 3 /\ Len(t) = 3 /\ \A i \in 1 .. 3 : s[i] = t[i]
    BY <2>1, <2>2, <1>3, <1>4
  <2> HIDE DEF s, t
  <2>4. s = t
    BY <2>3, SeqEqual
  <2> QED
    BY <2>4 DEF s, t
<1> QED
  BY <1>5, <1>6, <1>7, <1>8

\* The contents of a frame's box, the codestream's header in front if it is there.
Contents(header, stream, body) ==
  (IF stream = 0 THEN <<>> ELSE <<Split(header, stream)>>) \o <<Split(header + stream, body)>>

LEMMA ContentsMade ==
  ASSUME NEW header \in Nat, NEW stream \in Nat, NEW body \in Nat \ {0}
  PROVE  LET c == Contents(header, stream, body)
             size == header + stream + body
         IN  /\ PutsInside(c, size) /\ c # <<>>
             /\ header > 0 => PutsInside(Append(c, Split(0, header)), size)
                              /\ Append(c, Split(0, header)) # <<>>
<1> DEFINE c == Contents(header, stream, body)
           size == header + stream + body
           at == header + stream
           a == Split(header, stream)
           b == Split(at, body)
           h == Split(0, header)
<1>1. at \in Nat /\ size \in Nat /\ at + body = size /\ header <= at /\ at <= size
  OBVIOUS
<1>2. b \in PutType /\ b.at = at /\ b.n = body
  <2> HIDE DEF at
  <2> QED
    BY <1>1, PutMade
<1>3. stream # 0 => a \in PutType /\ a.at = header /\ a.n = stream
  <2>1. SUFFICES ASSUME stream # 0 PROVE a \in PutType /\ a.at = header /\ a.n = stream
    OBVIOUS
  <2>2. stream \in Nat \ {0}
    BY <2>1
  <2> QED
    BY <2>2, PutMade
<1>4. header > 0 => h \in PutType /\ h.at = 0 /\ h.n = header
  <2>1. SUFFICES ASSUME header > 0 PROVE h \in PutType /\ h.at = 0 /\ h.n = header
    OBVIOUS
  <2>2. header \in Nat \ {0} /\ 0 \in Nat
    BY <2>1
  <2> QED
    BY <2>2, PutMade
<1>5. c = (IF stream = 0 THEN <<>> ELSE <<a>>) \o <<b>>
  BY DEF Contents
<1>6. at = header + stream
  OBVIOUS
<1> HIDE DEF c, size, at, a, b, h
<1>7. /\ b.at + b.n <= size
      /\ stream # 0 => a.at + a.n <= size /\ Apart(a.at, a.n, b.at, b.n)
      /\ header > 0 => /\ h.at + h.n <= size /\ Apart(b.at, b.n, h.at, h.n)
                       /\ stream # 0 => Apart(a.at, a.n, h.at, h.n)
  BY <1>1, <1>2, <1>3, <1>4, <1>6 DEF Apart
<1> HIDE DEF Apart, PutsInside
<1>8. CASE stream = 0
  <2>1. c = <<b>> /\ c # <<>> /\ <<b, h>> # <<>>
    BY <1>2, <1>5, <1>8, SmallTuples
  <2>2. header > 0 => Append(c, h) = <<b, h>>
    BY <1>2, <1>4, <2>1, SmallTuples
  <2>3. header > 0 => PutsInside(<<b>>, size) /\ PutsInside(<<b, h>>, size)
    BY <1>1, <1>2, <1>4, <1>7, TwoPuts
  <2>4. ~(header > 0) => PutsInside(<<b>>, size)
    BY <1>1, <1>2, <1>7 DEF PutsInside
  <2>5. /\ PutsInside(c, size) /\ c # <<>>
        /\ header > 0 => PutsInside(Append(c, h), size) /\ Append(c, h) # <<>>
    BY <2>1, <2>3, <2>4, <2>2
  <2> QED
    BY <2>5 DEF c, h, size
<1>9. CASE stream # 0
  <2>1. <<a>> \o <<b>> = <<a, b>>
    BY <1>2, <1>3, <1>9, SmallTuples
  <2>2. c = <<a, b>> /\ c # <<>> /\ <<a, b, h>> # <<>>
    BY <2>1, <1>5, <1>9
  <2>3. header > 0 => Append(c, h) = <<a, b, h>>
    BY <1>2, <1>3, <1>4, <1>9, <2>2, SmallTuples
  <2>4. PutsInside(<<a, b>>, size)
    BY <1>1, <1>2, <1>3, <1>7, <1>9, TwoPuts
  <2>5. header > 0 => PutsInside(<<a, b, h>>, size)
    BY <1>1, <1>2, <1>3, <1>4, <1>7, <1>9, ThreePuts
  <2>6. /\ PutsInside(c, size) /\ c # <<>>
        /\ header > 0 => PutsInside(Append(c, h), size) /\ Append(c, h) # <<>>
    BY <2>2, <2>4, <2>5, <2>3
  <2> QED
    BY <2>6 DEF c, h, size
<1> QED
  BY <1>8, <1>9

\* The frame's box ends the codestream exactly if the frame is the last one.
LEMMA FrameMade ==
  ASSUME NEW f \in Pictures, NEW last \in BOOLEAN
  PROVE  LET b == FrameBox(f, last)
         IN  /\ b \in Proper /\ b.last = last
             /\ b.kind = "jxlc" => last /\ jxlp_counter = 0 /\ ~Partial(f)
<1> DEFINE header == IF ~Container THEN 0
                     ELSE (IF setup.large THEN LargeHeader ELSE SmallHeader)
                          + (IF Alone(f, last) THEN 0 ELSE IndexLen)
           stream == IF First /\ ~Partial(f) THEN StreamHeader ELSE 0
           kind == IF ~Container THEN "bare" ELSE IF Alone(f, last) THEN "jxlc" ELSE "jxlp"
           c == Contents(header, stream, f.body)
           order == IF Container THEN Append(c, Split(0, header)) ELSE c
           size == header + stream + f.body
<1>1. f.body \in Nat \ {0}
  BY OutputAssumption
<1>2. /\ SmallHeader \in Nat \ {0} /\ LargeHeader \in Nat \ {0}
      /\ IndexLen \in Nat \ {0} /\ StreamHeader \in Nat \ {0}
  BY OutputAssumption
<1>3. header \in Nat /\ (Container => header > 0)
  BY <1>2
<1>4. stream \in Nat
  BY <1>2
<1>5. kind \in Kinds
  BY DEF Kinds
<1>6. kind = "jxlc" => last /\ jxlp_counter = 0 /\ ~Partial(f)
  BY DEF Alone
<1>7. FrameBox(f, last) = Box(kind, size, order, last, TRUE)
  BY DEF FrameBox, Contents
<1> HIDE DEF header, stream, kind
<1>8. size \in Nat \ {0}
  BY <1>1, <1>3, <1>4
<1>9. PutsInside(order, size) /\ order # <<>>
  BY <1>1, <1>3, <1>4, ContentsMade
<1> HIDE DEF order, size, c
<1>10. TRUE \in BOOLEAN /\ FALSE \in BOOLEAN
  OBVIOUS
<1>11. CASE last = TRUE
  <2>1. /\ Box(kind, size, order, TRUE, TRUE) \in Proper
        /\ Box(kind, size, order, TRUE, TRUE).kind = kind
        /\ Box(kind, size, order, TRUE, TRUE).last = TRUE
    BY <1>5, <1>8, <1>9, <1>10, InsideTyped DEF Box, Proper
  <2> QED
    BY <2>1, <1>6, <1>7, <1>11
<1>12. CASE last = FALSE
  <2>1. /\ Box(kind, size, order, FALSE, TRUE) \in Proper
        /\ Box(kind, size, order, FALSE, TRUE).kind = kind
        /\ Box(kind, size, order, FALSE, TRUE).last = FALSE
    BY <1>5, <1>8, <1>9, <1>10, InsideTyped DEF Box, Proper
  <2> QED
    BY <2>1, <1>6, <1>7, <1>12
<1> QED
  BY <1>11, <1>12

\* Of a frame's boxes the last may end the codestream, and is all of it only if
\* no part of it is in front.
LEMMA PlanMade ==
  ASSUME NEW f \in Pictures, NEW last \in BOOLEAN
  PROVE  LET p == BoxesOf(f, last)
         IN  /\ p \in Seq(Proper)
             /\ \A i \in 1 .. Len(p) :
                  /\ p[i].last => i = Len(p) /\ last
                  /\ p[i].kind = "jxlc" => /\ p[i].last /\ jxlp_counter = 0
                                          /\ \A j \in 1 .. Len(p) : p[j].kind # "jxlp"
<1> DEFINE front == FileBoxes(f) \o HeaderBoxes(f) \o MetadataBoxes(f)
           b == FrameBox(f, last)
           ks == FrontKinds(f)
           p == front \o <<b>>
<1>1. AllBefore(front, ks)
  BY FrontMade
<1>2. /\ b \in Proper /\ b.last = last
      /\ b.kind = "jxlc" => last /\ jxlp_counter = 0 /\ ~Partial(f)
  BY FrameMade
<1>3. "jxlc" \notin ks /\ (~Partial(f) => "jxlp" \notin ks)
  BY DEF FrontKinds
<1>4. BoxesOf(f, last) = p
  BY DEF BoxesOf
<1> HIDE DEF front, b, ks
<1>5. front \in Seq(Proper) /\ Len(front) \in Nat
  BY <1>1, LenProperties DEF AllBefore
<1>6. <<b>> \in Seq(Proper) /\ Len(<<b>>) = 1 /\ <<b>>[1] = b
  BY <1>2
<1>7. /\ p \in Seq(Proper) /\ Len(p) = Len(front) + 1
      /\ \A i \in 1 .. Len(front) + 1 : p[i] = IF i <= Len(front) THEN front[i] ELSE <<b>>[i - Len(front)]
  BY <1>5, <1>6, ConcatProperties
<1>8. p[Len(p)] = b
  BY <1>5, <1>6, <1>7
<1>9. ASSUME NEW i \in 1 .. Len(p), i # Len(p)
      PROVE  p[i].kind \in ks /\ ~p[i].last
  <2>1. i \in 1 .. Len(front) /\ i \in 1 .. Len(front) + 1 /\ i <= Len(front)
    BY <1>5, <1>7, <1>9
  <2> QED
    BY <2>1, <1>1, <1>7 DEF AllBefore, Before
<1> HIDE DEF p
<1>10. ASSUME NEW i \in 1 .. Len(p)
       PROVE  /\ p[i].last => i = Len(p) /\ last
              /\ p[i].kind = "jxlc" => /\ p[i].last /\ jxlp_counter = 0
                                      /\ \A j \in 1 .. Len(p) : p[j].kind # "jxlp"
  <2>1. CASE i = Len(p)
    <3>1. p[i].last = last /\ p[i] = b
      BY <2>1, <1>2, <1>8
    <3>2. b.kind = "jxlc" => \A j \in 1 .. Len(p) : p[j].kind # "jxlp"
      BY <1>2, <1>3, <1>8, <1>9
    <3> QED
      BY <2>1, <3>1, <3>2, <1>2
  <2>2. CASE i # Len(p)
    BY <2>2, <1>3, <1>9
  <2> QED
    BY <2>1, <2>2
<1> QED
  BY <1>4, <1>7, <1>10

-----------------------------------------------------------------------------
(* The steps that move no byte *)

bytesVars == <<boxes, puts, chunks, position, output_position, finalized_position, handed>>

LEMMA BytesSame ==
  ASSUME OutputInv, UNCHANGED <<bytesVars, avail, caller>>
  PROVE  Chained(boxes)' /\ PlaceInv' /\ ChunksInv' /\ HandedInv'
<1>1. UNCHANGED bytesVars /\ avail' = avail /\ caller' = caller
  OBVIOUS
<1>2. Chained(boxes)'
  BY <1>1 DEF OutputInv, bytesVars
<1>3. PlaceInv'
  BY <1>1 DEF OutputInv, PlaceInv, bytesVars, Written, Current
<1>4. ChunksInv'
  BY <1>1 DEF OutputInv, ChunksInv, bytesVars, ChunkInv, CallerInv, EndOf, Current
<1>5. HandedInv'
  BY <1>1 DEF OutputInv, HandedInv, bytesVars
<1> QED
  BY <1>2, <1>3, <1>4, <1>5

LEMMA AddFrameStep ==
  ASSUME OutputInv, NEW f \in Pictures, AddFrame(f)
  PROVE  OutputInv'
<1>1. UNCHANGED <<bytesVars, avail, caller>>
  BY DEF AddFrame, bytesVars, wrapperVars
<1>2. queue' \in Seq(Pictures) /\ added' \in Nat
  BY AppendProperties DEF OutputInv, TypedInv, AddFrame
<1>3. has_jpeg_metadata_boxes' \in BOOLEAN
  BY DEF OutputInv, TypedInv, AddFrame
<1>4. TypedInv'
  BY <1>2, <1>3 DEF OutputInv, TypedInv, AddFrame, wrapperVars
<1>5. StageInv'
  BY DEF OutputInv, StageInv, AddFrame, wrapperVars, Idle
<1> QED
  BY <1>1, <1>4, <1>5, BytesSame DEF OutputInv

LEMMA CloseInputStep ==
  ASSUME OutputInv, CloseInput
  PROVE  OutputInv'
<1>1. UNCHANGED <<bytesVars, avail, caller>>
  BY DEF CloseInput, bytesVars, wrapperVars
<1>2. TypedInv'
  BY DEF OutputInv, TypedInv, CloseInput, wrapperVars
<1>3. StageInv'
  BY DEF OutputInv, StageInv, CloseInput, wrapperVars, Idle
<1> QED
  BY <1>1, <1>2, <1>3, BytesSame DEF OutputInv

\* Another buffer: no byte waits in the one that is gone.
LEMMA ProcessOutputStep ==
  ASSUME OutputInv, NEW room \in Rooms, ProcessOutput(room)
  PROVE  OutputInv'
<1>1. UNCHANGED bytesVars /\ UNCHANGED <<inputVars, plan, answer>>
  BY DEF ProcessOutput, bytesVars, wrapperVars
<1>2. \A c \in chunks : c.owned
  BY DEF OutputInv, StageInv, ProcessOutput, Idle
<1>3. room \in Nat
  BY OutputAssumption
<1>4. TypedInv'
  BY <1>1, <1>3 DEF OutputInv, TypedInv, ProcessOutput, bytesVars, inputVars
<1>5. Chained(boxes)' /\ PlaceInv' /\ HandedInv'
  BY <1>1 DEF OutputInv, PlaceInv, HandedInv, bytesVars, Written, Current
<1>6. ChunksInv'
  BY <1>1, <1>2 DEF OutputInv, ChunksInv, bytesVars, ChunkInv, CallerInv, EndOf, Current
<1>7. StageInv'
  BY <1>1 DEF OutputInv, StageInv, bytesVars, ProcessOutput, Idle
<1> QED
  BY <1>4, <1>5, <1>6, <1>7 DEF OutputInv

LEMMA ReturnOutputStep ==
  ASSUME OutputInv, ReturnOutput
  PROVE  OutputInv'
<1>1. UNCHANGED <<bytesVars, avail, caller>>
  BY DEF ReturnOutput, bytesVars, wrapperVars
<1>2. TypedInv'
  BY DEF OutputInv, TypedInv, ReturnOutput, wrapperVars, inputVars
<1>3. StageInv'
  BY <1>1 DEF OutputInv, StageInv, ReturnOutput, bytesVars, Answer
<1> QED
  BY <1>1, <1>2, <1>3, BytesSame DEF OutputInv

LEMMA EncodeFailsStep ==
  ASSUME OutputInv, EncodeFails
  PROVE  OutputInv'
<1>1. UNCHANGED <<bytesVars, avail, caller>>
  BY DEF EncodeFails, bytesVars, wrapperVars
<1>2. TypedInv'
  BY DEF OutputInv, TypedInv, EncodeFails, wrapperVars, inputVars
<1>3. StageInv'
  BY DEF StageInv, EncodeFails
<1> QED
  BY <1>1, <1>2, <1>3, BytesSame DEF OutputInv

LEMMA TakeFrameStep ==
  ASSUME OutputInv, TakeFrame
  PROVE  OutputInv'
<1>1. UNCHANGED <<bytesVars, avail, caller>>
  BY DEF TakeFrame, bytesVars, wrapperVars
<1>2. queue \in Seq(Pictures) /\ queue # <<>> /\ input_closed \in BOOLEAN
  BY DEF OutputInv, TypedInv, TakeFrame
<1>3. Head(queue) \in Pictures /\ Tail(queue) \in Seq(Pictures)
  BY <1>2, HeadTailProperties
<1>4. ASSUME NEW last \in BOOLEAN PROVE BoxesOf(Head(queue), last) \in Seq(Proper)
  BY <1>3, PlanMade
<1>5. plan' \in Seq(Proper)
  <2>1. BoxesOf(Head(queue), TRUE) \in Seq(Proper) /\ BoxesOf(Head(queue), FALSE) \in Seq(Proper)
    BY <1>4
  <2>2. CASE input_closed /\ Tail(queue) = <<>>
    <3>1. (input_closed /\ Tail(queue) = <<>>) = TRUE
      BY <2>2
    <3> QED
      BY <2>1, <3>1 DEF TakeFrame
  <2>3. CASE ~(input_closed /\ Tail(queue) = <<>>)
    <3>1. (input_closed /\ Tail(queue) = <<>>) = FALSE
      BY <2>3
    <3> QED
      BY <2>1, <3>1 DEF TakeFrame
  <2> QED
    BY <2>2, <2>3
<1>6. TypedInv'
  BY <1>3, <1>5 DEF OutputInv, TypedInv, TakeFrame, wrapperVars
<1>7. StageInv'
  BY DEF OutputInv, StageInv, TakeFrame
<1> QED
  BY <1>1, <1>6, <1>7, BytesSame DEF OutputInv

LEMMA InBox ==
  ASSUME NEW start \in Nat, NEW size \in Nat, NEW at \in Nat, NEW n \in Nat,
         at + n <= size, NEW end \in Nat, start + size <= end, NEW s, s = start + at
  PROVE  s + n <= end /\ s + n <= start + size
OBVIOUS

LEMMA ChunkFacts ==
  ASSUME Chained(boxes), NEW c, ChunkInv(c)
  PROVE  /\ c.start \in Nat /\ c.len \in Nat \ {0} /\ c.owned \in BOOLEAN /\ c.at \in Nat
         /\ c.box \in 1 .. Len(boxes) /\ EndOf(c) \in Nat /\ EndOf(c) = c.start + c.len
         /\ EndOf(c) <= Written
         /\ boxes[c.box].start \in Nat /\ boxes[c.box].size \in Nat
<1>1. /\ c.start \in Nat /\ c.len \in Nat \ {0} /\ c.owned \in BOOLEAN /\ c.at \in Nat
      /\ c.box \in Nat \ {0}
  BY DEF ChunkInv, ChunkType
<1>2. c.box \in 1 .. Len(boxes)
  <2>1. Len(boxes) \in Nat
    BY LenProperties DEF Chained
  <2> QED
    BY <1>1, <2>1 DEF ChunkInv
<1>3. /\ boxes[c.box].start \in Nat /\ boxes[c.box].size \in Nat
      /\ boxes[c.box].start + boxes[c.box].size <= Written /\ Written \in Nat
  BY <1>2, BoxFacts, WrittenFacts
<1>4. c.at + c.len <= boxes[c.box].size /\ c.start = boxes[c.box].start + c.at
  BY DEF ChunkInv
<1>5. EndOf(c) = c.start + c.len
  BY DEF EndOf
<1>6. c.start + c.len <= Written
  BY <1>1, <1>3, <1>4, InBox
<1>7. EndOf(c) \in Nat /\ EndOf(c) <= Written
  BY <1>1, <1>5, <1>6
<1> QED
  BY <1>1, <1>2, <1>3, <1>5, <1>7

\* What is left when the caller's buffer is flushed is not in it.
LEMMA FlushDoneStep ==
  ASSUME OutputInv, FlushDone
  PROVE  OutputInv'
<1>1. UNCHANGED <<bytesVars, avail, caller>> /\ UNCHANGED <<plan, answer>>
  BY DEF FlushDone, bytesVars, wrapperVars
<1>2. TypedInv'
  BY DEF OutputInv, TypedInv, FlushDone, wrapperVars, inputVars
<1>3. answer # "ERROR" /\ puts = <<>> /\ finalized_position = position
  BY DEF OutputInv, StageInv, FlushDone
<1>4. /\ position = Written /\ output_position <= finalized_position
      /\ output_position \in Nat /\ avail \in Nat /\ position \in Nat
  BY <1>3 DEF OutputInv, PlaceInv, TypedInv
<1>5. ASSUME NEW c \in chunks PROVE c.owned
  <2>1. Chained(boxes) /\ ChunkInv(c) /\ CallerInv(c)
    BY DEF OutputInv, ChunksInv
  <2>2. EndOf(c) \in Nat /\ EndOf(c) <= Written /\ output_position < EndOf(c)
    BY <2>1, ChunkFacts DEF ChunkInv
  <2>3. SUFFICES ASSUME ~c.owned PROVE FALSE
    OBVIOUS
  <2>4. EndOf(c) <= output_position + avail
    BY <2>1, <2>3 DEF CallerInv
  <2>5. avail > 0 /\ output_position < finalized_position
    BY <2>2, <2>4, <1>3, <1>4
  <2> QED
    BY <2>5 DEF FlushDone, HasOutputToWrite
<1>6. StageInv'
  BY <1>1, <1>3, <1>5 DEF StageInv, FlushDone, bytesVars
<1> QED
  BY <1>1, <1>2, <1>6, BytesSame DEF OutputInv

LEMMA FinalizeStep ==
  ASSUME OutputInv, Finalize
  PROVE  OutputInv'
<1>1. /\ UNCHANGED <<boxes, puts, chunks, position, output_position, handed, avail, caller>>
      /\ UNCHANGED <<plan, answer, inputVars>>
  BY DEF Finalize
<1>2. puts = <<>> /\ finalized_position' = position /\ stage' = "flush" /\ stage = "write"
  BY DEF Finalize
<1>3. position = Written /\ position \in Nat
  BY <1>2 DEF OutputInv, PlaceInv, TypedInv
<1>4. output_position <= position
  <2>1. /\ output_position <= finalized_position /\ finalized_position <= Written
        /\ output_position \in Nat /\ finalized_position \in Nat
    BY DEF OutputInv, PlaceInv, TypedInv
  <2> QED
    BY <2>1, <1>3
<1>5. TypedInv'
  BY <1>1, <1>2, <1>3 DEF OutputInv, TypedInv, inputVars
<1>6. Chained(boxes)' /\ HandedInv'
  BY <1>1 DEF OutputInv, HandedInv
<1>7. PlaceInv'
  BY <1>1, <1>2, <1>3, <1>4 DEF PlaceInv, Written, Current
<1>8. ChunksInv'
  BY <1>1 DEF OutputInv, ChunksInv, ChunkInv, CallerInv, EndOf, Current
<1>9. StageInv'
  BY <1>1, <1>2 DEF OutputInv, StageInv
<1> QED
  BY <1>5, <1>6, <1>7, <1>8, <1>9 DEF OutputInv

LEMMA BoxBegun ==
  ASSUME OutputInv, BeginBox
  PROVE  /\ boxes \in Seq(BoxType) /\ Len(boxes) \in Nat
         /\ Len(boxes') = Len(boxes) + 1 /\ boxes' \in Seq(BoxType)
         /\ \A n \in 1 .. Len(boxes) : boxes'[n] = boxes[n]
         /\ boxes'[Len(boxes) + 1].start = position /\ position = Written
         /\ boxes'[Len(boxes) + 1].size = Head(plan).size
         /\ boxes'[Len(boxes) + 1].kind = Head(plan).kind
         /\ boxes'[Len(boxes) + 1].last = Head(plan).last
         /\ boxes'[Len(boxes) + 1].index = jxlp_counter
         /\ Head(plan) \in Proper /\ Head(plan) = plan[1] /\ Tail(plan) \in Seq(Proper)
         /\ Len(Tail(plan)) = Len(plan) - 1 /\ Len(plan) \in Nat \ {0}
         /\ \A i \in 1 .. Len(Tail(plan)) : Tail(plan)[i] = plan[i + 1]
<1> DEFINE box == Head(plan)
           new == [kind |-> box.kind, start |-> position, size |-> box.size,
                   index |-> jxlp_counter, last |-> box.last, final |-> box.final]
<1>1. plan \in Seq(Proper) /\ plan # <<>> /\ position \in Nat /\ jxlp_counter \in Nat
  BY DEF OutputInv, TypedInv, BeginBox
<1>2. /\ box \in Proper /\ Tail(plan) \in Seq(Proper) /\ Len(Tail(plan)) = Len(plan) - 1
      /\ \A i \in 1 .. Len(Tail(plan)) : Tail(plan)[i] = plan[i + 1]
  BY <1>1, HeadTailProperties
<1>3. Len(plan) \in Nat \ {0} /\ box = plan[1]
  BY <1>1, LenProperties, EmptySeq
<1>4. puts = <<>> /\ boxes' = Append(boxes, new)
  BY DEF BeginBox, BoxWritten
<1>5. position = Written
  BY <1>4 DEF OutputInv, PlaceInv
<1> HIDE DEF box
<1>6. /\ new \in BoxType /\ new.start = position /\ new.size = box.size /\ new.kind = box.kind
      /\ new.last = box.last /\ new.index = jxlp_counter
  BY <1>1, <1>2 DEF Proper, BoxType
<1>7. boxes \in Seq(BoxType) /\ Len(boxes) \in Nat
  BY LenProperties DEF OutputInv, Chained
<1> HIDE DEF new
<1>8. /\ boxes' \in Seq(BoxType) /\ Len(boxes') = Len(boxes) + 1
      /\ \A n \in 1 .. Len(boxes) : boxes'[n] = boxes[n]
      /\ boxes'[Len(boxes) + 1] = new
  BY <1>4, <1>6, <1>7, AppendProperties
<1> QED
  BY <1>2, <1>3, <1>5, <1>6, <1>7, <1>8 DEF box

LEMMA BeginBoxStep ==
  ASSUME OutputInv, BeginBox
  PROVE  OutputInv'
<1> DEFINE N == Len(boxes)
           box == Head(plan)
<1>1. /\ UNCHANGED <<setup, queue, added, input_closed, wrote_bytes, has_jpeg_metadata_boxes>>
      /\ UNCHANGED <<chunks, output_position, finalized_position, avail, caller, stage, answer>>
      /\ UNCHANGED handed
  BY DEF BeginBox
<1>2. stage = "write" /\ puts = <<>> /\ puts' = box.order /\ position' = position + Head(box.order).at
  BY DEF BeginBox, BoxWritten
<1>3. /\ N \in Nat /\ Len(boxes') = N + 1 /\ boxes' \in Seq(BoxType)
      /\ \A n \in 1 .. N : boxes'[n] = boxes[n]
      /\ boxes'[N + 1].start = position /\ position = Written
      /\ boxes'[N + 1].size = box.size
      /\ box \in Proper /\ Tail(plan) \in Seq(Proper)
  BY BoxBegun
<1>4. Chained(boxes)
  BY DEF OutputInv
<1>5. /\ Written \in Nat
      /\ \A n \in 1 .. N : boxes[n].start + boxes[n].size <= Written
      /\ boxes # <<>> => N \in Nat \ {0} /\ Written = boxes[N].start + boxes[N].size
  BY <1>4, WrittenFacts DEF Current
<1>6. /\ output_position <= finalized_position /\ finalized_position <= position
      /\ output_position \in Nat /\ finalized_position \in Nat /\ position \in Nat
  BY <1>3 DEF OutputInv, PlaceInv, TypedInv
<1>7. /\ box.size \in Nat \ {0} /\ PutsInside(box.order, box.size) /\ box.order # <<>>
  BY <1>3 DEF Proper
<1>8. /\ box.order \in Seq(PutType) /\ Len(box.order) \in Nat \ {0}
      /\ Head(box.order) = box.order[1] /\ box.order[1].at \in Nat
  <2>1. box.order \in Seq(PutType) /\ Len(box.order) \in Nat \ {0}
    BY <1>7, LenProperties, EmptySeq DEF PutsInside
  <2>2. 1 \in 1 .. Len(box.order)
    BY <2>1
  <2> QED
    BY <2>1, <2>2, <1>7, PutOf
<1>9. TypedInv'
  <2>1. jxlp_counter' \in Nat
    BY DEF OutputInv, TypedInv, BeginBox
  <2>2. plan' \in Seq(Proper) /\ position' \in Nat
    BY <1>2, <1>3, <1>6, <1>8 DEF BeginBox
  <2> QED
    BY <2>1, <2>2, <1>1 DEF OutputInv, TypedInv
<1> HIDE DEF box
<1>10. Current'.start = position /\ Current'.size = box.size /\ boxes' # <<>>
  BY <1>3 DEF Current
<1>11. Written' = position + box.size
  BY <1>10 DEF Written
<1>12. Chained(boxes)'
  <2>1. ASSUME NEW n \in 1 .. N + 1
        PROVE  boxes'[n].start = IF n = 1 THEN 0 ELSE boxes'[n - 1].start + boxes'[n - 1].size
    <3>1. CASE n \in 1 .. N
      <4>1. n # 1 => n - 1 \in 1 .. N
        BY <3>1
      <4> QED
        BY <3>1, <4>1, <1>3, <1>4 DEF Chained
    <3>2. CASE n = N + 1 /\ N = 0
      <4>1. boxes = <<>>
        BY <3>2, <1>4, EmptySeq DEF Chained
      <4>2. Written = 0
        BY <4>1 DEF Written
      <4> QED
        BY <3>2, <4>2, <1>3
    <3>3. CASE n = N + 1 /\ N # 0
      <4>1. boxes # <<>> /\ n # 1 /\ n - 1 = N /\ N \in 1 .. N
        BY <3>3, <1>3
      <4> QED
        BY <3>3, <4>1, <1>3, <1>5
    <3> QED
      BY <3>1, <3>2, <3>3, <1>3
  <2>2. ASSUME NEW m \in 1 .. N + 1, NEW n \in 1 .. N + 1, m < n
        PROVE  boxes'[m].start + boxes'[m].size <= boxes'[n].start
    <3>1. m \in 1 .. N
      BY <2>2, <1>3
    <3>2. CASE n \in 1 .. N
      BY <2>2, <3>1, <3>2, <1>3, <1>4 DEF Chained
    <3>3. CASE n = N + 1
      BY <3>1, <3>3, <1>3, <1>5
    <3> QED
      BY <3>2, <3>3, <1>3
  <2> QED
    BY <2>1, <2>2, <1>3 DEF Chained
<1>13. PlaceInv'
  <2>1. puts' = box.order /\ puts' # <<>>
    BY <1>2, <1>7
  <2>2. output_position' <= finalized_position' /\ finalized_position' <= Written'
    BY <1>1, <1>6, <1>7, <1>11
  <2>3. /\ PutsInside(puts', Current'.size) /\ position' = Current'.start + Head(puts').at
        /\ finalized_position' <= Current'.start
    BY <1>1, <1>2, <1>6, <1>7, <1>10, <2>1
  <2> QED
    BY <2>1, <2>2, <2>3, <1>10 DEF PlaceInv
<1>14. ChunksInv'
  <2>1. ASSUME NEW c \in chunks
        PROVE  /\ ChunkInv(c)' /\ CallerInv(c)'
               /\ \A i \in 1 .. Len(puts') :
                    Apart(c.start, c.len, Current'.start + puts'[i].at, puts'[i].n)
    <3>1. ChunkInv(c) /\ CallerInv(c)
      BY DEF OutputInv, ChunksInv
    <3>2. /\ c.box \in 1 .. N /\ c.start \in Nat /\ c.len \in Nat
          /\ EndOf(c) = c.start + c.len /\ EndOf(c) <= Written
      BY <3>1, <1>4, ChunkFacts
    <3>3. c.box <= Len(boxes') /\ boxes'[c.box] = boxes[c.box]
      BY <3>2, <1>3
    <3>4. ChunkInv(c)' /\ CallerInv(c)'
      BY <3>1, <3>3, <1>1 DEF ChunkInv, CallerInv, EndOf
    <3>5. ASSUME NEW i \in 1 .. Len(puts')
          PROVE  Apart(c.start, c.len, Current'.start + puts'[i].at, puts'[i].n)
      <4>1. puts'[i].at \in Nat
        BY <1>2, <1>8, PutOf
      <4> QED
        BY <4>1, <3>2, <1>3, <1>6, <1>10 DEF Apart
    <3> QED
      BY <3>4, <3>5
  <2>2. \A c, d \in chunks : c # d => Apart(c.start, c.len, d.start, d.len)
    BY DEF OutputInv, ChunksInv
  <2> QED
    BY <2>1, <2>2, <1>1 DEF ChunksInv
<1>15. StageInv'
  BY <1>1, <1>2 DEF OutputInv, StageInv
<1>16. HandedInv'
  <2>1. ASSUME NEW n \in 1 .. N + 1, NEW i \in 0 .. boxes'[n].size - 1,
               boxes'[n].start + i < output_position
        PROVE  handed[boxes'[n].start + i + 1] = <<n, i>>
    <3>1. CASE n \in 1 .. N
      BY <2>1, <3>1, <1>3 DEF OutputInv, HandedInv
    <3>2. CASE n = N + 1
      BY <2>1, <3>2, <1>3, <1>6, <1>7
    <3> QED
      BY <3>1, <3>2, <1>3
  <2> QED
    BY <2>1, <1>1, <1>3 DEF OutputInv, HandedInv
<1> QED
  BY <1>9, <1>12, <1>13, <1>14, <1>15, <1>16 DEF OutputInv

-----------------------------------------------------------------------------
(* Handing out *)

\* The byte of a chunk at a position that is not handed out yet.
LEMMA RightByte ==
  ASSUME NEW c, ChunkInv(c), CallerInv(c), Chained(boxes),
         NEW p \in Nat, c.start <= p, output_position <= p, p < EndOf(c)
  PROVE  /\ ByteAt(c, p) = <<c.box, c.at + p - c.start>>
         /\ c.box \in 1 .. Len(boxes) /\ c.box \in Nat
         /\ c.at + p - c.start \in Nat /\ c.at + p - c.start < boxes[c.box].size
         /\ boxes[c.box].start + (c.at + p - c.start) = p
<1>1. /\ c.start \in Nat /\ c.len \in Nat \ {0} /\ c.owned \in BOOLEAN /\ c.at \in Nat
      /\ c.box \in 1 .. Len(boxes) /\ EndOf(c) = c.start + c.len
      /\ boxes[c.box].start \in Nat /\ boxes[c.box].size \in Nat
  BY ChunkFacts
<1>2. c.at + c.len <= boxes[c.box].size /\ c.start = boxes[c.box].start + c.at
  BY DEF ChunkInv
<1>3. p \in c.start .. EndOf(c) - 1
  BY <1>1
<1>4. ByteAt(c, p) = <<c.box, c.at + p - c.start>>
  BY <1>3 DEF ByteAt, CallerInv
<1>5. c.box \in Nat
  <2>1. Len(boxes) \in Nat
    BY LenProperties DEF Chained
  <2> QED
    BY <2>1, <1>1
<1>6. p < c.start + c.len /\ c.len \in Nat
  BY <1>1
<1>7. /\ c.at + p - c.start \in Nat /\ c.at + p - c.start < boxes[c.box].size
      /\ boxes[c.box].start + (c.at + p - c.start) = p
  <2> DEFINE start == boxes[c.box].start
             size == boxes[c.box].size
             at == c.at
             n == c.len
             s == c.start
  <2>1. /\ start \in Nat /\ size \in Nat /\ at \in Nat /\ n \in Nat /\ s \in Nat
        /\ at + n <= size /\ s = start + at /\ s <= p /\ p < s + n
    BY <1>1, <1>2, <1>6
  <2> HIDE DEF start, size, at, n, s
  <2>2. at + p - s \in Nat /\ at + p - s < size /\ start + (at + p - s) = p
    BY <2>1
  <2> QED
    BY <2>2 DEF start, size, at, n, s
<1> QED
  BY <1>1, <1>4, <1>5, <1>7

LEMMA BehindApart ==
  ASSUME NEW s \in Nat, NEW m \in Nat, NEW t \in Nat, NEW k \in Nat \ {0}, Apart(s, m, t, k),
         NEW out \in Nat, NEW n \in Nat, s <= out, out < t + k, n > 0, out + n <= s + m
  PROVE  out + n < t + k
BY DEF Apart

LEMMA FlushStep ==
  ASSUME OutputInv, Flush
  PROVE  OutputInv'
<1> DEFINE out == output_position
<1>1. /\ UNCHANGED <<setup, queue, added, input_closed, wrote_bytes, jxlp_counter>>
      /\ UNCHANGED <<has_jpeg_metadata_boxes, position, finalized_position, caller, stage>>
      /\ UNCHANGED <<plan, puts, answer, boxes>>
  BY DEF Flush, inputVars
<1>2. PICK c \in chunks :
        /\ c.start <= out
        /\ handed' = handed \o [i \in 1 .. Flushed(c) |-> ByteAt(c, out + i - 1)]
        /\ output_position' = out + Flushed(c)
        /\ avail' = avail - Flushed(c)
        /\ chunks' = IF out + Flushed(c) = EndOf(c) THEN chunks \ {c} ELSE chunks
  BY DEF Flush
<1> DEFINE n == Flushed(c)
<1>3. /\ out \in Nat /\ finalized_position \in Nat /\ avail \in Nat
      /\ out < finalized_position /\ avail > 0 /\ finalized_position <= Written
  BY DEF OutputInv, TypedInv, PlaceInv, Flush, HasOutputToWrite
<1>4. ChunkInv(c) /\ CallerInv(c) /\ Chained(boxes)
  BY DEF OutputInv, ChunksInv
<1>5. /\ c.start \in Nat /\ c.len \in Nat /\ EndOf(c) \in Nat /\ EndOf(c) = c.start + c.len
      /\ out < EndOf(c) /\ c.owned \in BOOLEAN
  BY <1>4, ChunkFacts DEF ChunkInv
<1>6. ~c.owned => EndOf(c) <= out + avail
  BY <1>4 DEF CallerInv
<1>7. /\ n \in Nat \ {0} /\ out + n <= EndOf(c) /\ out + n <= finalized_position /\ n <= avail
  BY <1>3, <1>5, <1>6 DEF Flushed, Lesser
<1> HIDE DEF n
<1>8. /\ handed' = handed \o [i \in 1 .. n |-> ByteAt(c, out + i - 1)]
      /\ output_position' = out + n /\ avail' = avail - n
      /\ chunks' = IF out + n = EndOf(c) THEN chunks \ {c} ELSE chunks
  BY <1>2 DEF n
<1> DEFINE more == [i \in 1 .. n |-> ByteAt(c, out + i - 1)]
<1>9. ASSUME NEW i \in 1 .. n
      PROVE  /\ out + i - 1 \in Nat /\ out <= out + i - 1 /\ out + i - 1 < EndOf(c)
             /\ c.start <= out + i - 1
  BY <1>2, <1>3, <1>5, <1>7
<1>10. ASSUME NEW i \in 1 .. n PROVE ByteAt(c, out + i - 1) \in Nat \X Nat
  BY <1>4, <1>9, RightByte
<1>11. /\ more \in Seq(Nat \X Nat) /\ Len(more) = n
       /\ \A i \in 1 .. n : more[i] = ByteAt(c, out + i - 1)
  BY <1>7, <1>10
<1>12. handed \in Seq(Nat \X Nat) /\ Len(handed) = out
  BY DEF OutputInv, TypedInv, HandedInv
<1> HIDE DEF more
<1>13. /\ handed' \in Seq(Nat \X Nat) /\ Len(handed') = out + n
       /\ \A i \in 1 .. out + n : handed'[i] = IF i <= out THEN handed[i] ELSE more[i - out]
  <2>1. handed' = handed \o more
    BY <1>8 DEF more
  <2> QED
    BY <2>1, <1>11, <1>12, ConcatProperties
<1>14. TypedInv'
  <2>1. output_position' \in Nat /\ avail' \in Nat
    BY <1>3, <1>7, <1>8
  <2> QED
    BY <2>1, <1>1, <1>13 DEF OutputInv, TypedInv
<1>15. Chained(boxes)'
  BY <1>1 DEF OutputInv
<1>16. PlaceInv'
  BY <1>1, <1>7, <1>8 DEF OutputInv, PlaceInv, Written, Current
<1>17. ChunksInv'
  <2>1. chunks' \subseteq chunks
    BY <1>8
  <2>2. ASSUME NEW d \in chunks' PROVE ChunkInv(d)' /\ CallerInv(d)'
    <3>1. d \in chunks /\ ChunkInv(d) /\ CallerInv(d)
      BY <2>1 DEF OutputInv, ChunksInv
    <3>2. /\ d.start \in Nat /\ d.len \in Nat \ {0} /\ EndOf(d) = d.start + d.len
          /\ EndOf(d) \in Nat /\ out < EndOf(d)
      BY <1>4, <3>1, ChunkFacts DEF ChunkInv
    <3>3. out + n < EndOf(d)
      <4>1. CASE d = c
        BY <4>1, <1>3, <1>5, <1>7, <1>8
      <4>2. CASE d # c
        <5>1. Apart(c.start, c.len, d.start, d.len)
          BY <3>1, <4>2 DEF OutputInv, ChunksInv
        <5>2. n \in Nat /\ n > 0 /\ out + n <= c.start + c.len /\ c.start <= out
          BY <1>2, <1>5, <1>7
        <5>3. d.len \in Nat \ {0} /\ out < d.start + d.len
          BY <3>2
        <5>4. out + n < d.start + d.len
          BY <5>1, <5>2, <5>3, <3>2, <1>3, <1>5, BehindApart
        <5> QED
          BY <5>4, <3>2
      <4> QED
        BY <4>1, <4>2
    <3>4. ChunkInv(d)'
      BY <3>1, <3>3, <1>1, <1>8 DEF ChunkInv, EndOf
    <3>5. ~d.owned => EndOf(d) <= output_position' + avail'
      BY <3>1, <1>3, <1>7, <1>8 DEF CallerInv
    <3>6. ASSUME ~d.owned, NEW p \in d.start .. EndOf(d) - 1, output_position' <= p
          PROVE  p \in DOMAIN caller /\ caller[p] = <<d.box, d.at + p - d.start>>
      <4>1. out <= p
        BY <3>2, <3>6, <1>3, <1>7, <1>8
      <4> QED
        BY <4>1, <3>1, <3>6 DEF CallerInv
    <3>7. CallerInv(d)'
      BY <3>5, <3>6, <1>1 DEF CallerInv, EndOf
    <3> QED
      BY <3>4, <3>7
  <2>3. \A d, e \in chunks' : d # e => Apart(d.start, d.len, e.start, e.len)
    BY <2>1 DEF OutputInv, ChunksInv
  <2>4. puts = <<>>
    BY DEF OutputInv, StageInv, Flush
  <2> QED
    BY <2>2, <2>3, <2>4, <1>1 DEF ChunksInv
<1>18. StageInv'
  BY <1>1 DEF OutputInv, StageInv, Flush
<1>19. HandedInv'
  <2>1. ASSUME NEW m \in 1 .. Len(boxes), NEW i \in 0 .. boxes[m].size - 1,
               boxes[m].start + i < out + n
        PROVE  handed'[boxes[m].start + i + 1] = <<m, i>>
    <3>1. boxes[m].start \in Nat /\ boxes[m].size \in Nat /\ i \in Nat /\ i < boxes[m].size
      BY <1>4, BoxFacts
    <3>2. CASE boxes[m].start + i < out
      <4>1. boxes[m].start + i + 1 \in 1 .. out + n /\ boxes[m].start + i + 1 <= out
        BY <2>1, <3>1, <3>2, <1>3, <1>7
      <4>2. handed[boxes[m].start + i + 1] = <<m, i>>
        BY <3>2 DEF OutputInv, HandedInv
      <4> QED
        BY <4>1, <4>2, <1>13
    <3>3. CASE ~(boxes[m].start + i < out)
      <4> DEFINE p == boxes[m].start + i
      <4>1. p \in Nat /\ out <= p /\ p < out + n
        BY <2>1, <3>1, <3>3, <1>3
      <4>2. p = boxes[m].start + i
        OBVIOUS
      <4> HIDE DEF p
      <4>3. p + 1 \in 1 .. out + n /\ ~(p + 1 <= out) /\ p + 1 - out \in 1 .. n
        BY <4>1, <1>3, <1>7
      <4>4. out + (p + 1 - out) - 1 = p
        BY <4>1, <1>3
      <4>5. handed'[p + 1] = ByteAt(c, p)
        <5>1. ASSUME NEW q \in 1 .. out + n, ~(q <= out) PROVE handed'[q] = more[q - out]
          BY <5>1, <1>13
        <5>2. handed'[p + 1] = more[p + 1 - out]
          BY <4>1, <4>3, <5>1, <1>3, <1>7
        <5>3. more[p + 1 - out] = ByteAt(c, out + (p + 1 - out) - 1)
          BY <4>3, <1>11
        <5> QED
          BY <5>2, <5>3, <4>4
      <4>6. c.start <= p /\ out <= p /\ p < EndOf(c)
        BY <4>1, <1>2, <1>3, <1>5, <1>7
      <4>7. /\ ByteAt(c, p) = <<c.box, c.at + p - c.start>> /\ c.box \in 1 .. Len(boxes)
            /\ c.at + p - c.start \in Nat /\ c.at + p - c.start < boxes[c.box].size
            /\ boxes[c.box].start + (c.at + p - c.start) = p
        BY <4>1, <4>6, <1>4, RightByte
      <4>8. boxes[c.box].start + (c.at + p - c.start) = boxes[m].start + i
        BY <4>7, <4>2
      <4>9. c.box = m /\ c.at + p - c.start = i
        BY <4>7, <4>8, <3>1, <1>4, OneBox
      <4> QED
        BY <4>5, <4>7, <4>9, <4>2
    <3> QED
      BY <3>2, <3>3
  <2> QED
    BY <2>1, <1>1, <1>8, <1>13 DEF HandedInv
<1> QED
  BY <1>14, <1>15, <1>16, <1>17, <1>18, <1>19 DEF OutputInv

-----------------------------------------------------------------------------
(* Placing bytes *)

\* The puts that are left when n bytes of the first are placed.
Left(ps, n) == IF n = ps[1].n THEN Tail(ps) ELSE <<Rest(ps[1], n)>> \o Tail(ps)

\* Each of them is one of those there were, or what is left of the first.
LEMMA LeftInside ==
  ASSUME NEW size \in Nat, NEW ps, PutsInside(ps, size), ps # <<>>,
         NEW n \in Nat \ {0}, n <= ps[1].n
  PROVE  /\ Left(ps, n) # <<>> => PutsInside(Left(ps, n), size)
         /\ n # ps[1].n => Left(ps, n) # <<>> /\ Left(ps, n)[1].at = ps[1].at + n
         /\ n = ps[1].n /\ Left(ps, n) # <<>> => Left(ps, n)[1] = ps[2]
         /\ n = ps[1].n => (Left(ps, n) = <<>> <=> Len(ps) = 1)
         /\ \A i \in 1 .. Len(Left(ps, n)) :
              \/ \E j \in 2 .. Len(ps) : Left(ps, n)[i] = ps[j]
              \/ n # ps[1].n /\ Left(ps, n)[i] = Rest(ps[1], n)
<1>1. ps \in Seq(PutType) /\ Len(ps) \in Nat \ {0}
  BY LenProperties, EmptySeq DEF PutsInside
<1>2. 1 \in 1 .. Len(ps)
  BY <1>1
<1>3. ps[1].at \in Nat /\ ps[1].n \in Nat \ {0}
  BY <1>1, <1>2, PutOf
<1> DEFINE qs == Left(ps, n)
<1>4. CASE n = ps[1].n
  <2>1. qs = Tail(ps)
    BY <1>4 DEF Left
  <2> HIDE DEF qs
  <2>2. /\ PutsInside(qs, size) /\ Len(qs) = Len(ps) - 1
        /\ \A i \in 1 .. Len(qs) : qs[i] = ps[i + 1]
    BY <2>1, TailInside
  <2>3. qs \in Seq(PutType) /\ (qs = <<>> <=> Len(ps) = 1)
    <3>1. qs \in Seq(PutType)
      BY <2>2 DEF PutsInside
    <3> QED
      BY <3>1, <2>2, <1>1, EmptySeq, LenProperties
  <2>4. qs # <<>> => qs[1] = ps[2]
    <3>1. qs # <<>> => 1 \in 1 .. Len(qs)
      BY <2>2, <2>3, <1>1
    <3> QED
      BY <3>1, <2>2
  <2>5. ASSUME NEW i \in 1 .. Len(qs) PROVE \E j \in 2 .. Len(ps) : qs[i] = ps[j]
    <3>1. i + 1 \in 2 .. Len(ps)
      BY <2>2, <1>1
    <3> QED
      BY <3>1, <2>2
  <2> QED
    BY <1>4, <2>2, <2>3, <2>4, <2>5 DEF qs
<1>5. CASE n # ps[1].n
  <2>1. qs = <<Rest(ps[1], n)>> \o Tail(ps) /\ n < ps[1].n
    BY <1>3, <1>5 DEF Left
  <2> HIDE DEF qs
  <2>2. /\ PutsInside(qs, size) /\ Len(qs) = Len(ps) /\ qs # <<>>
        /\ qs[1] = Rest(ps[1], n) /\ \A i \in 2 .. Len(ps) : qs[i] = ps[i]
    BY <2>1, RestInside
  <2>3. qs[1].at = ps[1].at + n
    BY <2>2 DEF Rest
  <2>4. ASSUME NEW i \in 1 .. Len(qs)
        PROVE  (\E j \in 2 .. Len(ps) : qs[i] = ps[j]) \/ qs[i] = Rest(ps[1], n)
    <3>1. i = 1 \/ i \in 2 .. Len(ps)
      BY <2>2, <1>1
    <3> QED
      BY <3>1, <2>2
  <2> QED
    BY <1>5, <2>2, <2>3, <2>4 DEF qs
<1> QED
  BY <1>4, <1>5

LEMMA ApartShift ==
  ASSUME NEW s \in Nat, NEW a \in Nat, NEW m \in Nat, NEW b \in Nat, NEW k \in Nat,
         NEW n \in Nat, n <= m, Apart(a, m, b, k)
  PROVE  Apart(s + a, n, s + b, k)
BY DEF Apart

LEMMA ApartRest ==
  ASSUME NEW p \in Nat, NEW k \in Nat, NEW s \in Nat, NEW a \in Nat, NEW m \in Nat,
         NEW n \in Nat, n <= m, Apart(p, k, s + a, m)
  PROVE  Apart(p, k, s + (a + n), m - n)
BY DEF Apart

LEMMA PlaceStep ==
  ASSUME OutputInv, stage = "write", puts # <<>>,
         NEW n \in Nat \ {0}, n <= Head(puts).n, NEW owned \in BOOLEAN, Place(n, owned),
         ~owned => position + n <= output_position + avail
  PROVE  OutputInv'
<1> DEFINE put == puts[1]
           out == output_position
           N == Len(boxes)
<1>1. PICK new : new = [start |-> position, len |-> n, owned |-> owned, box |-> N, at |-> put.at]
  OBVIOUS
<1>2. /\ UNCHANGED <<setup, queue, added, input_closed, wrote_bytes, jxlp_counter>>
      /\ UNCHANGED <<has_jpeg_metadata_boxes, output_position, finalized_position, avail>>
      /\ UNCHANGED <<stage, plan, answer, boxes, handed>>
  BY DEF Place, inputVars
<1>3. boxes # <<>> /\ PutsInside(puts, Current.size) /\ position = Current.start + Head(puts).at
      /\ finalized_position <= Current.start /\ out <= finalized_position
  BY DEF OutputInv, PlaceInv
<1>4. /\ Chained(boxes) /\ Written \in Nat /\ N \in Nat \ {0}
      /\ Written = Current.start + Current.size /\ Current = boxes[N]
      /\ Current.start \in Nat /\ Current.size \in Nat
  BY <1>3, WrittenFacts DEF OutputInv, Current
<1>5. puts \in Seq(PutType) /\ Len(puts) \in Nat \ {0} /\ Head(puts) = put
  BY <1>3, LenProperties, EmptySeq DEF PutsInside
<1>6. 1 \in 1 .. Len(puts)
  BY <1>5
<1>7. put.at \in Nat /\ put.n \in Nat \ {0} /\ put.at + put.n <= Current.size
  BY <1>3, <1>5, <1>6, PutOf DEF PutsInside
<1>8. n <= put.n /\ position = Current.start + put.at
  BY <1>3, <1>5
<1>9. /\ out \in Nat /\ finalized_position \in Nat /\ position \in Nat /\ avail \in Nat
  BY DEF OutputInv, TypedInv
<1>10. /\ puts' = Left(puts, n)
       /\ chunks' = chunks \cup {new}
       /\ caller' = IF owned THEN caller
                    ELSE [p \in DOMAIN caller \cup position .. position + n - 1 |->
                            IF p \in position .. position + n - 1
                            THEN <<N, put.at + p - position>> ELSE caller[p]]
       /\ position' = IF n # put.n THEN position + n
                      ELSE IF Len(puts) = 1 THEN Current.start + Current.size
                      ELSE Current.start + puts[2].at
  BY <1>1, <1>5 DEF Place, Left, Rest
<1>11. /\ puts' # <<>> => PutsInside(puts', Current.size)
       /\ n # put.n => puts' # <<>> /\ puts'[1].at = put.at + n
       /\ n = put.n /\ puts' # <<>> => puts'[1] = puts[2]
       /\ n = put.n => (puts' = <<>> <=> Len(puts) = 1)
       /\ \A i \in 1 .. Len(puts') :
            \/ \E j \in 2 .. Len(puts) : puts'[i] = puts[j]
            \/ n # put.n /\ puts'[i] = Rest(put, n)
  BY <1>3, <1>4, <1>8, <1>10, LeftInside
<1>12. /\ new.start = position /\ new.len = n /\ new.owned = owned /\ new.box = N
       /\ new.at = put.at /\ new \in ChunkType
  BY <1>1, <1>4, <1>7, <1>9 DEF ChunkType
<1> HIDE DEF put
<1>13. Current' = Current /\ Written' = Written
  BY <1>2 DEF Current, Written
<1>14. position' = IF puts' = <<>> THEN Written ELSE Current.start + puts'[1].at
  BY <1>4, <1>7, <1>8, <1>10, <1>11
<1>15. puts' # <<>> => Head(puts') = puts'[1] /\ puts'[1].at \in Nat
  <2>1. SUFFICES ASSUME puts' # <<>> PROVE Head(puts') = puts'[1] /\ puts'[1].at \in Nat
    OBVIOUS
  <2>2. puts' \in Seq(PutType) /\ Len(puts') \in Nat \ {0}
    BY <2>1, <1>11, LenProperties, EmptySeq DEF PutsInside
  <2>3. 1 \in 1 .. Len(puts')
    BY <2>2
  <2> QED
    BY <2>1, <2>2, <2>3, PutOf
<1>16. position' \in Nat
  BY <1>4, <1>14, <1>15
<1>17. TypedInv'
  BY <1>2, <1>16 DEF OutputInv, TypedInv
<1>18. Chained(boxes)' /\ HandedInv'
  BY <1>2 DEF OutputInv, HandedInv
<1>19. PlaceInv'
  <2>1. out <= finalized_position /\ finalized_position <= Written
    BY DEF OutputInv, PlaceInv
  <2> QED
    BY <2>1, <1>2, <1>3, <1>11, <1>13, <1>14, <1>15 DEF PlaceInv
<1>20. StageInv'
  BY <1>2 DEF OutputInv, StageInv
<1>21. out <= position
  BY <1>3, <1>4, <1>7, <1>8, <1>9
<1>22. EndOf(new) = position + n /\ put.at + n <= Current.size
  BY <1>4, <1>7, <1>8, <1>12 DEF EndOf
<1>23. ChunkInv(new)'
  <2>1. Len(boxes') = N /\ boxes' = boxes /\ output_position' = out
    BY <1>2
  <2>2. new.at + new.len <= boxes[new.box].size /\ new.start = boxes[new.box].start + new.at
    BY <1>4, <1>8, <1>12, <1>22
  <2>3. out < EndOf(new) /\ new.box <= N
    BY <1>4, <1>9, <1>12, <1>21, <1>22
  <2>4. EndOf(new)' = EndOf(new)
    BY DEF EndOf
  <2> QED
    BY <1>12, <2>1, <2>2, <2>3, <2>4 DEF ChunkInv
<1>24. CallerInv(new)'
  <2>1. SUFFICES ASSUME ~owned PROVE CallerInv(new)'
    BY <1>12 DEF CallerInv
  <2>2. EndOf(new)' <= output_position' + avail'
    BY <2>1, <1>2, <1>12, <1>22 DEF EndOf
  <2>3. ASSUME NEW p \in position .. position + n - 1
        PROVE  p \in DOMAIN caller' /\ caller'[p] = <<N, put.at + p - position>>
    BY <2>1, <1>10
  <2>4. new.start = position /\ EndOf(new) - 1 = position + n - 1
    BY <1>9, <1>12, <1>22
  <2>5. \A p \in new.start .. EndOf(new) - 1 :
          p \in DOMAIN caller' /\ caller'[p] = <<new.box, new.at + p - new.start>>
    BY <2>3, <2>4, <1>12
  <2> QED
    BY <2>2, <2>5 DEF CallerInv, EndOf
<1>25. ASSUME NEW c \in chunks
       PROVE  /\ ChunkInv(c)' /\ CallerInv(c)'
              /\ Apart(c.start, c.len, position, n) /\ Apart(position, n, c.start, c.len)
  <2>1. ChunkInv(c) /\ CallerInv(c)
    BY DEF OutputInv, ChunksInv
  <2>2. /\ c.start \in Nat /\ c.len \in Nat \ {0} /\ c.box \in 1 .. N /\ c.at \in Nat
        /\ EndOf(c) = c.start + c.len
    BY <2>1, <1>4, ChunkFacts
  <2>3. ChunkInv(c)'
    BY <2>1, <1>2 DEF ChunkInv, EndOf
  <2>4. Apart(c.start, c.len, Current.start + put.at, put.n)
    BY <1>6 DEF OutputInv, ChunksInv, put
  <2>5. Apart(c.start, c.len, position, n) /\ Apart(position, n, c.start, c.len)
    BY <2>2, <2>4, <1>4, <1>7, <1>8, <1>9 DEF Apart
  <2>6. ASSUME ~c.owned, NEW p \in c.start .. EndOf(c) - 1, out <= p
        PROVE  p \in DOMAIN caller' /\ caller'[p] = <<c.box, c.at + p - c.start>>
    <3>1. p \in DOMAIN caller /\ caller[p] = <<c.box, c.at + p - c.start>>
      BY <2>1, <2>6 DEF CallerInv
    <3>2. ~(p \in position .. position + n - 1)
      BY <2>2, <2>5, <1>9 DEF Apart
    <3> QED
      BY <3>1, <3>2, <1>10
  <2>7. CallerInv(c)'
    BY <2>1, <2>6, <1>2 DEF CallerInv, EndOf
  <2> QED
    BY <2>3, <2>5, <2>7
<1>26. ASSUME NEW c \in chunks', NEW i \in 1 .. Len(puts')
       PROVE  Apart(c.start, c.len, Current.start + puts'[i].at, puts'[i].n)
  <2>1. CASE \E j \in 2 .. Len(puts) : puts'[i] = puts[j]
    <3>1. PICK j \in 2 .. Len(puts) : puts'[i] = puts[j]
      BY <2>1
    <3>2. j \in 1 .. Len(puts) /\ j # 1
      BY <1>5
    <3>3. puts[j].at \in Nat /\ puts[j].n \in Nat
      BY <3>2, <1>5, PutOf
    <3>4. CASE c \in chunks
      BY <3>1, <3>2, <3>4 DEF OutputInv, ChunksInv
    <3>5. CASE c = new
      <4>1. Apart(put.at, put.n, puts[j].at, puts[j].n)
        BY <3>2, <1>3, <1>6 DEF PutsInside, put
      <4>2. Apart(Current.start + put.at, n, Current.start + puts[j].at, puts[j].n)
        BY <4>1, <3>3, <1>4, <1>7, <1>8, ApartShift
      <4> QED
        BY <4>2, <3>1, <3>5, <1>8, <1>12
    <3> QED
      BY <3>4, <3>5, <1>10
  <2>2. CASE n # put.n /\ puts'[i] = Rest(put, n)
    <3>1. puts'[i].at = put.at + n /\ puts'[i].n = put.n - n
      BY <2>2 DEF Rest
    <3>2. CASE c \in chunks
      <4>1. c.start \in Nat /\ c.len \in Nat
        BY <3>2, <1>4, ChunkFacts DEF OutputInv, ChunksInv
      <4>2. Apart(c.start, c.len, Current.start + put.at, put.n)
        BY <3>2, <1>6 DEF OutputInv, ChunksInv, put
      <4>3. Apart(c.start, c.len, Current.start + (put.at + n), put.n - n)
        BY <4>1, <4>2, <1>4, <1>7, <1>8, ApartRest
      <4> QED
        BY <4>3, <3>1
    <3>3. CASE c = new
      <4>1. position + n = Current.start + (put.at + n)
        BY <1>4, <1>7, <1>8
      <4>2. Apart(position, n, Current.start + (put.at + n), put.n - n)
        BY <4>1, <1>4, <1>7, <1>8, <1>9 DEF Apart
      <4> QED
        BY <4>2, <3>1, <3>3, <1>12
    <3> QED
      BY <3>2, <3>3, <1>10
  <2> QED
    BY <2>1, <2>2, <1>11
<1>27. ASSUME NEW c \in chunks', NEW d \in chunks', c # d
       PROVE  Apart(c.start, c.len, d.start, d.len)
  <2>1. CASE c \in chunks /\ d \in chunks
    BY <2>1, <1>27 DEF OutputInv, ChunksInv
  <2>2. CASE c = new /\ d \in chunks
    BY <2>2, <1>12, <1>25
  <2>3. CASE c \in chunks /\ d = new
    BY <2>3, <1>12, <1>25
  <2> QED
    BY <2>1, <2>2, <2>3, <1>10, <1>27
<1>28. ChunksInv'
  <2>1. ASSUME NEW c \in chunks' PROVE ChunkInv(c)' /\ CallerInv(c)'
    BY <1>10, <1>23, <1>24, <1>25
  <2> QED
    BY <2>1, <1>13, <1>26, <1>27 DEF ChunksInv
<1> QED
  BY <1>17, <1>18, <1>19, <1>20, <1>28 DEF OutputInv

LEMMA FirstPut ==
  ASSUME OutputInv, puts # <<>>
  PROVE  /\ Head(puts).n \in Nat \ {0} /\ Needed \in Nat \ {0} /\ Needed <= Head(puts).n
         /\ position \in Nat /\ output_position \in Nat /\ avail \in Nat
<1>1. puts \in Seq(PutType)
  BY DEF OutputInv, PlaceInv, PutsInside
<1>2. Len(puts) \in Nat \ {0} /\ Head(puts) = puts[1]
  BY <1>1, LenProperties, EmptySeq
<1>3. 1 \in 1 .. Len(puts)
  BY <1>2
<1>4. Head(puts).n \in Nat \ {0}
  BY <1>1, <1>2, <1>3, PutOf
<1> QED
  BY <1>4 DEF Needed, OutputInv, TypedInv

LEMMA PutInCallerStep ==
  ASSUME OutputInv, PutInCaller
  PROVE  OutputInv'
<1> DEFINE n == Lesser(Head(puts).n, RoomAhead)
<1>1. stage = "write" /\ puts # <<>> /\ FitsCaller /\ Place(n, FALSE)
  BY DEF PutInCaller
<1>2. /\ Head(puts).n \in Nat \ {0} /\ Needed \in Nat \ {0}
      /\ position \in Nat /\ output_position \in Nat /\ avail \in Nat
  BY <1>1, FirstPut
<1>3. /\ n \in Nat \ {0} /\ n <= Head(puts).n
      /\ position + n <= output_position + avail
  BY <1>1, <1>2 DEF FitsCaller, Lesser, RoomAhead, Ahead
<1> HIDE DEF n
<1> QED
  BY <1>1, <1>3, PlaceStep

LEMMA PutInChunkStep ==
  ASSUME OutputInv, PutInChunk
  PROVE  OutputInv'
<1>1. stage = "write" /\ puts # <<>>
  BY DEF PutInChunk
<1>2. Head(puts).n \in Nat \ {0} /\ Needed \in Nat \ {0}
  BY <1>1, FirstPut
<1>3. PICK n \in Needed .. Head(puts).n : Place(n, TRUE)
  BY DEF PutInChunk
<1>4. n \in Nat \ {0} /\ n <= Head(puts).n
  BY <1>2
<1> QED
  BY <1>1, <1>3, <1>4, PlaceStep

-----------------------------------------------------------------------------
(* The theorems *)

LEMMA OutputStart == OutputInit => OutputInv
<1> SUFFICES ASSUME OutputInit PROVE OutputInv
  OBVIOUS
<1>1. /\ queue = <<>> /\ plan = <<>> /\ puts = <<>> /\ boxes = <<>> /\ handed = <<>> /\ chunks = {}
      /\ position = 0 /\ output_position = 0 /\ finalized_position = 0
  BY DEF OutputInit
<1>2. /\ queue \in Seq(Pictures) /\ plan \in Seq(Proper) /\ handed \in Seq(Nat \X Nat)
      /\ boxes \in Seq(BoxType) /\ Len(boxes) = 0 /\ Len(handed) = 0
  BY <1>1
<1>3. TypedInv
  BY <1>2 DEF TypedInv, OutputInit
<1>4. Chained(boxes)
  BY <1>2 DEF Chained
<1>5. PlaceInv /\ ChunksInv /\ StageInv
  BY <1>1 DEF PlaceInv, ChunksInv, StageInv, Written, OutputInit
<1>6. HandedInv
  BY <1>1, <1>2 DEF HandedInv
<1> QED
  BY <1>3, <1>4, <1>5, <1>6 DEF OutputInv

\* Every step keeps the invariant.
LEMMA OutputStep == OutputInv /\ [OutputNext]_outputVars => OutputInv'
<1> SUFFICES ASSUME OutputInv, [OutputNext]_outputVars PROVE OutputInv'
  OBVIOUS
<1>1. ASSUME NEW f \in Pictures, AddFrame(f) PROVE OutputInv'
  BY <1>1, AddFrameStep
<1>2. CASE CloseInput
  BY <1>2, CloseInputStep
<1>3. ASSUME NEW room \in Rooms, ProcessOutput(room) PROVE OutputInv'
  BY <1>3, ProcessOutputStep
<1>4. CASE Working
  BY <1>4, FlushStep, FlushDoneStep, TakeFrameStep, ReturnOutputStep, BeginBoxStep,
     PutInCallerStep, PutInChunkStep, FinalizeStep DEF Working
<1>5. CASE EncodeFails
  BY <1>5, EncodeFailsStep
<1>6. CASE UNCHANGED outputVars
  <2>1. UNCHANGED <<bytesVars, avail, caller>> /\ UNCHANGED <<inputVars, stage, plan, answer>>
    BY <1>6 DEF outputVars, bytesVars, wrapperVars
  <2>2. TypedInv'
    BY <2>1 DEF OutputInv, TypedInv, inputVars, bytesVars
  <2>3. StageInv'
    BY <2>1 DEF OutputInv, StageInv, bytesVars
  <2> QED
    BY <2>1, <2>2, <2>3, BytesSame DEF OutputInv
<1> QED
  BY <1>1, <1>2, <1>3, <1>4, <1>5, <1>6 DEF OutputNext

LEMMA OutputAlways == OutputSpec => []OutputInv
BY OutputStart, OutputStep, PTL DEF OutputSpec

\* For all frames, all rooms and all sizes of headers: what the application
\* gets are the boxes one behind the other, wherever their bytes waited, and
\* never more than it had room for.
THEOREM AlwaysHandedOutInOrder == OutputSpec => []HandedOutInOrder
<1>1. OutputInv => HandedOutInOrder
  <2> SUFFICES ASSUME OutputInv PROVE HandedOutInOrder
    OBVIOUS
  <2>1. avail >= 0 /\ Len(handed) = output_position
    BY DEF OutputInv, TypedInv, HandedInv
  <2>2. DOMAIN boxes = 1 .. Len(boxes)
    BY LenProperties DEF OutputInv, Chained
  <2> QED
    BY <2>1, <2>2 DEF HandedOutInOrder, OutputInv, Chained, HandedInv
<1> QED
  BY <1>1, OutputAlways, PTL

-----------------------------------------------------------------------------
(* The parts are numbered *)

numberedVars == <<boxes, plan, queue, input_closed, jxlp_counter>>

LEMMA NumberedSame ==
  ASSUME NumberedInv, UNCHANGED numberedVars
  PROVE  NumberedInv'
<1>1. UNCHANGED <<boxes, plan, queue, input_closed, jxlp_counter>>
  BY DEF numberedVars
<1>2. PlanInv'
  BY <1>1 DEF NumberedInv, PlanInv
<1>3. PartsInv'
  BY <1>1 DEF NumberedInv, PartsInv, Part
<1>4. CodestreamInParts'
  BY <1>1 DEF NumberedInv, CodestreamInParts, Parts
<1> QED
  BY <1>2, <1>3, <1>4 DEF NumberedInv

\* While frames come in no plan is under way, and no box has said it is the last.
LEMMA NumberedIdle ==
  ASSUME OutputInv, NumberedInv, (\E f \in Pictures : AddFrame(f)) \/ CloseInput
  PROVE  NumberedInv'
<1>1. /\ plan = <<>> /\ ~input_closed
      /\ UNCHANGED <<boxes, plan, jxlp_counter>>
  BY DEF AddFrame, CloseInput, Idle, OutputInv, StageInv
<1>2. \A n \in 1 .. Len(boxes) : ~boxes[n].last
  BY <1>1 DEF NumberedInv, PartsInv
<1>3. PlanInv'
  BY <1>1 DEF PlanInv
<1>4. PartsInv'
  BY <1>1, <1>2 DEF NumberedInv, PartsInv, Part
<1>5. CodestreamInParts'
  BY <1>1 DEF NumberedInv, CodestreamInParts, Parts
<1> QED
  BY <1>3, <1>4, <1>5 DEF NumberedInv

LEMMA NumberedTakeFrame ==
  ASSUME OutputInv, NumberedInv, TakeFrame
  PROVE  NumberedInv'
<1> DEFINE f == Head(queue)
<1>1. /\ queue # <<>> /\ queue \in Seq(Pictures)
      /\ plan' = BoxesOf(f, input_closed /\ Tail(queue) = <<>>) /\ queue' = Tail(queue)
      /\ UNCHANGED <<boxes, input_closed, jxlp_counter>>
  BY DEF TakeFrame, OutputInv, TypedInv
<1>2. f \in Pictures
  BY <1>1, HeadTailProperties
<1>3. \A n \in 1 .. Len(boxes) : ~boxes[n].last
  BY <1>1 DEF NumberedInv, PartsInv
<1> HIDE DEF f
<1>4. PlanInv'
  <2>1. CASE input_closed /\ Tail(queue) = <<>>
    <3>1. plan' = BoxesOf(f, TRUE)
      BY <1>1, <2>1
    <3> QED
      BY <1>1, <1>2, <2>1, <3>1, PlanMade DEF PlanInv
  <2>2. CASE ~(input_closed /\ Tail(queue) = <<>>)
    <3>1. plan' = BoxesOf(f, FALSE)
      BY <1>1, <2>2
    <3> QED
      BY <1>1, <1>2, <3>1, PlanMade DEF PlanInv
  <2> QED
    BY <2>1, <2>2
<1>5. PartsInv'
  BY <1>1, <1>3 DEF NumberedInv, PartsInv, Part
<1>6. CodestreamInParts'
  BY <1>1 DEF NumberedInv, CodestreamInParts, Parts
<1> QED
  BY <1>4, <1>5, <1>6 DEF NumberedInv

LEMMA NumberedBeginBox ==
  ASSUME OutputInv, NumberedInv, BeginBox
  PROVE  NumberedInv'
<1> DEFINE N == Len(boxes)
           new == boxes'[Len(boxes) + 1]
           box == Head(plan)
<1>1. /\ N \in Nat /\ Len(boxes') = N + 1 /\ \A n \in 1 .. N : boxes'[n] = boxes[n]
      /\ new.kind = box.kind /\ new.last = box.last /\ new.index = jxlp_counter
      /\ box = plan[1] /\ Len(plan) \in Nat \ {0} /\ Len(Tail(plan)) = Len(plan) - 1
      /\ \A i \in 1 .. Len(Tail(plan)) : Tail(plan)[i] = plan[i + 1]
      /\ boxes \in Seq(BoxType) /\ boxes' \in Seq(BoxType) /\ Tail(plan) \in Seq(Proper)
  BY BoxBegun
<1>2. /\ plan' = Tail(plan) /\ UNCHANGED <<queue, input_closed>>
      /\ jxlp_counter' = IF box.kind = "jxlp" THEN jxlp_counter + 1 ELSE jxlp_counter
      /\ jxlp_counter \in Nat /\ plan # <<>>
  BY DEF BeginBox, OutputInv, TypedInv
<1>3. /\ box.last => 1 = Len(plan) /\ input_closed /\ queue = <<>>
      /\ box.kind = "jxlc" => box.last /\ jxlp_counter = 0
      /\ \A i \in 1 .. Len(plan) : plan[i].kind = "jxlc" => jxlp_counter = 0 /\ box.kind # "jxlp"
  <2>1. 1 \in 1 .. Len(plan) /\ box = plan[1]
    BY <1>1
  <2> HIDE DEF box, new, N
  <2>2. PlanInv
    BY DEF NumberedInv
  <2>3. box.last => 1 = Len(plan) /\ input_closed /\ queue = <<>>
    BY <2>1, <2>2 DEF PlanInv
  <2>4. box.kind = "jxlc" => box.last /\ jxlp_counter = 0
    BY <2>1, <2>2 DEF PlanInv
  <2>5. \A i \in 1 .. Len(plan) : plan[i].kind = "jxlc" => jxlp_counter = 0 /\ box.kind # "jxlp"
    BY <2>1, <2>2 DEF PlanInv
  <2> QED
    BY <2>3, <2>4, <2>5
<1>4. \A n \in 1 .. N : /\ ~boxes[n].last /\ boxes[n].kind # "jxlc"
                        /\ boxes[n].index \in Nat
  <2>1. \A n \in 1 .. N : boxes[n] \in BoxType
    BY <1>1, ElementOfSeq
  <2>2. \A n \in 1 .. N : boxes[n].index \in Nat
    BY <2>1 DEF BoxType
  <2> QED
    BY <1>2, <2>2 DEF NumberedInv, PartsInv
<1>5. /\ Parts = {n \in 1 .. N : Part(boxes[n])}
      /\ Parts' = {n \in 1 .. N + 1 : Part(boxes'[n])}
  BY <1>1, LenProperties DEF Parts, Part
<1>6. /\ \A n \in 1 .. N : boxes[n].kind = "jxlp" => boxes[n].index < jxlp_counter
      /\ \A n \in 1 .. N :
           boxes[n].kind = "jxlp" /\ (\A m \in 1 .. N : n < m => ~Part(boxes[m])) =>
             jxlp_counter = boxes[n].index + 1
      /\ (\A n \in 1 .. N : ~Part(boxes[n])) => jxlp_counter = 0
  BY DEF NumberedInv, PartsInv
<1>7. Len(plan) = 1 => plan' = <<>>
  <2>1. Len(plan) = 1 => Len(Tail(plan)) = 0
    BY <1>1
  <2> QED
    BY <1>1, <1>2, <2>1, EmptySeq
<1> HIDE DEF N, new, box
<1>8. \A n \in 1 .. N + 1 : n \in 1 .. N \/ n = N + 1
  BY <1>1
<1>9. PlanInv'
  <2>1. ASSUME NEW i \in 1 .. Len(plan')
        PROVE  /\ i + 1 \in 1 .. Len(plan) /\ plan'[i] = plan[i + 1]
               /\ i + 1 = Len(plan) => i = Len(plan')
    <3>1. Len(plan') = Len(plan) - 1 /\ Len(plan) \in Nat /\ plan' = Tail(plan)
      BY <1>1, <1>2
    <3>2. i + 1 \in 1 .. Len(plan) /\ (i + 1 = Len(plan) => i = Len(plan'))
      BY <3>1
    <3>3. plan'[i] = plan[i + 1]
      BY <1>1, <3>1
    <3> QED
      BY <3>2, <3>3
  <2>2. ASSUME NEW i \in 1 .. Len(plan'), plan'[i].last
        PROVE  i = Len(plan') /\ input_closed' /\ queue' = <<>>
    BY <1>2, <2>1, <2>2 DEF NumberedInv, PlanInv
  <2>3. ASSUME NEW i \in 1 .. Len(plan'), plan'[i].kind = "jxlc"
        PROVE  /\ plan'[i].last /\ jxlp_counter' = 0
               /\ \A j \in 1 .. Len(plan') : plan'[j].kind # "jxlp"
    <3>1. i + 1 \in 1 .. Len(plan) /\ plan[i + 1].kind = "jxlc"
      BY <2>1, <2>3
    <3>2. plan[i + 1].last /\ \A j \in 1 .. Len(plan) : plan[j].kind # "jxlp"
      BY <3>1 DEF NumberedInv, PlanInv
    <3>3. jxlp_counter' = 0
      BY <3>1, <1>2, <1>3
    <3> QED
      BY <2>1, <3>2, <3>3
  <2> QED
    BY <2>2, <2>3 DEF PlanInv
<1>10. boxes'[N + 1] = new
  BY DEF new, N
<1>11. PartsInv'
  <2>1. ASSUME NEW n \in 1 .. N + 1
        PROVE  /\ boxes'[n].last => input_closed /\ queue = <<>> /\ plan' = <<>>
               /\ boxes'[n].kind = "jxlc" => boxes'[n].last
               /\ boxes'[n].kind = "jxlp" => boxes'[n].index < jxlp_counter'
    <3>1. CASE n \in 1 .. N
      BY <3>1, <1>1, <1>2, <1>4, <1>6
    <3>2. CASE n = N + 1
      BY <3>2, <1>1, <1>2, <1>3, <1>7, <1>10
    <3> QED
      BY <3>1, <3>2, <1>8
  <2>2. ASSUME NEW n \in 1 .. N + 1, boxes'[n].kind = "jxlp",
               \A m \in 1 .. N + 1 : n < m => ~Part(boxes'[m])
        PROVE  jxlp_counter' = boxes'[n].index + 1
    <3>1. CASE n \in 1 .. N
      <4>1. N + 1 \in 1 .. N + 1 /\ n < N + 1
        BY <3>1, <1>1
      <4>2. ~Part(new)
        BY <4>1, <2>2, <1>10
      <4>3. jxlp_counter' = jxlp_counter
        BY <4>2, <1>1, <1>2 DEF Part
      <4>4. \A m \in 1 .. N : m \in 1 .. N + 1 /\ boxes'[m] = boxes[m]
        BY <1>1
      <4> QED
        BY <3>1, <4>3, <4>4, <2>2, <1>6
    <3>2. CASE n = N + 1
      BY <3>2, <2>2, <1>1, <1>2, <1>10
    <3> QED
      BY <3>1, <3>2, <1>8
  <2>3. ASSUME \A n \in 1 .. N + 1 : ~Part(boxes'[n])
        PROVE  jxlp_counter' = 0
    <3>1. N + 1 \in 1 .. N + 1 /\ \A m \in 1 .. N : m \in 1 .. N + 1 /\ boxes'[m] = boxes[m]
      BY <1>1
    <3>2. ~Part(new) /\ \A m \in 1 .. N : ~Part(boxes[m])
      BY <3>1, <2>3, <1>10
    <3> QED
      BY <3>2, <1>1, <1>2, <1>6 DEF Part
  <2>4. UNCHANGED <<queue, input_closed>> /\ Len(boxes') = N + 1
    BY <1>1, <1>2
  <2> QED
    BY <2>1, <2>2, <2>3, <2>4 DEF PartsInv, Part
<1>12. /\ Parts \subseteq Parts' /\ Parts' \subseteq Parts \cup {N + 1}
       /\ N + 1 \in Parts' <=> Part(new)
       /\ \A n \in Parts : n \in 1 .. N /\ n \in Nat /\ n < N + 1 /\ boxes'[n] = boxes[n]
                           /\ boxes[n].kind = "jxlp"
  <2>1. \A n \in 1 .. N : n \in Nat /\ n < N + 1 /\ n \in 1 .. N + 1 /\ boxes'[n] = boxes[n]
    BY <1>1
  <2>2. N + 1 \in 1 .. N + 1
    BY <1>1
  <2> QED
    BY <2>1, <2>2, <1>4, <1>5, <1>8, <1>10 DEF Part
<1>13. ASSUME NEW n \in Parts'
       PROVE  /\ boxes'[n].kind = "jxlc" => Parts' = {n}
              /\ boxes'[n].last => \A m \in Parts' : m <= n
              /\ \A m \in Parts' : (m < n /\ \A k \in Parts' : k <= m \/ n <= k) =>
                   boxes'[n].index = boxes'[m].index + 1
              /\ (\A m \in Parts' : n <= m) => boxes'[n].index = 0
  <2>1. CASE n \in Parts
    <3>1. /\ boxes'[n] = boxes[n] /\ ~boxes[n].last /\ boxes[n].kind # "jxlc"
      BY <2>1, <1>4, <1>12
    <3>2. ASSUME NEW m \in Parts', m < n, \A k \in Parts' : k <= m \/ n <= k
          PROVE  boxes'[n].index = boxes'[m].index + 1
      <4>1. m \in Parts
        BY <2>1, <3>2, <1>1, <1>12
      <4> QED
        BY <2>1, <3>1, <3>2, <4>1, <1>12 DEF NumberedInv, CodestreamInParts
    <3>3. (\A m \in Parts' : n <= m) => boxes'[n].index = 0
      BY <2>1, <3>1, <1>12 DEF NumberedInv, CodestreamInParts
    <3> QED
      BY <3>1, <3>2, <3>3
  <2>2. CASE n = N + 1
    <3>1. boxes'[n] = new
      BY <2>2, <1>10
    <3>2. ASSUME new.kind = "jxlc" PROVE Parts' = {n}
      <4>1. jxlp_counter = 0
        BY <3>2, <1>1, <1>3
      <4>2. Parts = {}
        BY <4>1, <1>4, <1>6, <1>12
      <4> QED
        BY <2>2, <4>2, <1>12
    <3>3. \A m \in Parts' : m <= n
      BY <2>2, <1>1, <1>12
    <3>4. ASSUME NEW m \in Parts', m < n, \A k \in Parts' : k <= m \/ n <= k
          PROVE  new.index = boxes'[m].index + 1
      <4>1. m \in Parts /\ m \in 1 .. N /\ boxes[m].kind = "jxlp" /\ boxes'[m] = boxes[m]
        BY <2>2, <3>4, <1>1, <1>12
      <4>2. ASSUME NEW k \in 1 .. N, m < k PROVE ~Part(boxes[k])
        BY <2>2, <3>4, <4>1, <4>2, <1>1, <1>5, <1>12
      <4> QED
        BY <4>1, <4>2, <1>1, <1>6
    <3>5. ASSUME \A m \in Parts' : n <= m PROVE new.index = 0
      <4>1. Parts = {}
        BY <2>2, <3>5, <1>1, <1>12
      <4> QED
        BY <4>1, <1>1, <1>5, <1>6
    <3> QED
      BY <3>1, <3>2, <3>3, <3>4, <3>5
  <2> QED
    BY <2>1, <2>2, <1>12
<1> QED
  BY <1>9, <1>11, <1>13 DEF NumberedInv, CodestreamInParts

LEMMA NumberedStep == OutputInv /\ NumberedInv /\ [OutputNext]_outputVars => NumberedInv'
<1> SUFFICES ASSUME OutputInv, NumberedInv, [OutputNext]_outputVars PROVE NumberedInv'
  OBVIOUS
<1>1. CASE (\E f \in Pictures : AddFrame(f)) \/ CloseInput
  BY <1>1, NumberedIdle
<1>2. CASE TakeFrame
  BY <1>2, NumberedTakeFrame
<1>3. CASE BeginBox
  BY <1>3, NumberedBeginBox
<1>4. CASE (\E room \in Rooms : ProcessOutput(room)) \/ ReturnOutput \/ EncodeFails
  BY <1>4, NumberedSame DEF ProcessOutput, ReturnOutput, EncodeFails, inputVars, numberedVars
<1>5. CASE Flush \/ FlushDone \/ Finalize
  BY <1>5, NumberedSame DEF Flush, FlushDone, Finalize, inputVars, numberedVars
<1>6. CASE PutInCaller \/ PutInChunk
  BY <1>6, NumberedSame DEF PutInCaller, PutInChunk, Place, inputVars, numberedVars
<1>7. CASE UNCHANGED outputVars
  BY <1>7, NumberedSame DEF outputVars, inputVars, numberedVars
<1> QED
  BY <1>1, <1>2, <1>3, <1>4, <1>5, <1>6, <1>7 DEF OutputNext, Working

LEMMA NumberedStart == OutputInit => NumberedInv
<1> SUFFICES ASSUME OutputInit PROVE NumberedInv
  OBVIOUS
<1>1. boxes = <<>> /\ plan = <<>> /\ jxlp_counter = 0 /\ Len(boxes) = 0 /\ Len(plan) = 0
  BY DEF OutputInit
<1>2. DOMAIN boxes = {}
  BY <1>1
<1> QED
  BY <1>1, <1>2 DEF NumberedInv, PlanInv, PartsInv, CodestreamInParts, Parts

\* For all frames, in whatever order they are added, asked for and the input is
\* closed: the parts of a codestream are numbered from 0, the last one is the
\* last, and a jxlc box is alone.
THEOREM AlwaysInParts == OutputSpec => []CodestreamInParts
<1>1. NumberedInv => CodestreamInParts
  BY DEF NumberedInv
<1> QED
  BY <1>1, NumberedStart, NumberedStep, OutputAlways, PTL DEF OutputSpec
=============================================================================
