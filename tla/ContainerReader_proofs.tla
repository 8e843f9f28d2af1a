----------------------- MODULE ContainerReader_proofs -----------------------
(***************************************************************************)
(* What the container reader and the decoder in front of it guarantee for  *)
(* every file and every way of cutting it.  The parser's invariant says    *)
(* where it stands; the invariant here says what the callback has made of  *)
(* the bytes passed so far: the codestream and the list hold all that lies *)
(* before the cursor, and the box being read holds its payload up to it.   *)
(***************************************************************************)
EXTENDS DecoderSession, ContainerParser_proofs, FiniteSetTheorems, SequenceTheorems

Alive == status = "OK" /\ failed = "OK"

IsSeq(s) == Len(s) \in Nat /\ s = [i \in 1 .. Len(s) |-> s[i]]

(* ReaderTypeOK, and the shape of the values it looks into. *)
ShapeInv ==
  /\ ReaderTypeOK
  /\ IsSeq(boxes)
  /\ jbrd = [phase |-> jbrd.phase, staged |-> jbrd.staged, brotli |-> jbrd.brotli]
  /\ jbrd.staged \in Nat

(* The codestream is what the file has of it before the cursor. *)
StreamInv ==
  /\ \A i, j \in 1 .. Len(codestream) : i < j => codestream[i] < codestream[j]
  /\ \A i \in 1 .. Len(codestream) :
       codestream[i] \in CodestreamPositions /\ codestream[i] < cursor
  /\ \A x \in CodestreamPositions :
       x < cursor => \E i \in 1 .. Len(codestream) : codestream[i] = x
  /\ codestream # <<>> => codestream_kind # "unknown"

(* The list is what the file has of auxiliary boxes before the cursor, less *)
(* the one that is being read.                                              *)
ListInv ==
  /\ \A i, j \in 1 .. Len(boxes) : i < j => boxes[i].at < boxes[j].at
  /\ \A i \in 1 .. Len(boxes) :
       /\ boxes[i].at \in AuxStarts /\ boxes[i].at < cursor
       /\ boxes[i].ty = InnerType(boxes[i].at)
  /\ Alive =>
       /\ state = "IN_AUX_BOX" => \A i \in 1 .. Len(boxes) : boxes[i].at < pending_header
       /\ \A p \in AuxStarts :
            p < cursor /\ ~(state = "IN_AUX_BOX" /\ p = pending_header) =>
              \E i \in 1 .. Len(boxes) : boxes[i].at = p

(* The box that is being read, if one is. *)
OpenInv ==
  Alive =>
    IF Opened
    THEN /\ current_box_ty = CurrentType
         /\ reader_kind = IF CurrentType = "jbrd" THEN "INIT"
                          ELSE IF Pending.ty = "brob" THEN "BROTLI" ELSE "RAW"
         /\ reader_kind = "RAW" => raw = Span(PayloadStart(pending_header), cursor)
    ELSE current_box_ty = "none" /\ reader_kind = "INIT"

(* A compressed box, while its payload has not come in pieces. *)
PayloadLen(p) == PayloadEnd(p) - PayloadStart(p)
Done(b, p, n) ==
  Fits(p) => b.out = Symbols(p, Least(Stream(p), n)) /\ b.total = Inflated(b.k)
WholeInv ==
  Alive /\ ~split /\ Opened /\ reader_kind = "BROTLI" =>
    \/ cursor = PayloadStart(pending_header) /\ brotli = NoBrotli
    \/ /\ cursor = PayloadEnd(pending_header)
       /\ Done(brotli, pending_header, PayloadLen(pending_header))

(* The jbrd data: nothing of it outside its box before the box has ended. *)
JbrdOpen == Opened /\ CurrentType = "jbrd"
JbrdStaged(n) == [phase |-> "absent", staged |-> n, brotli |-> NoBrotli]
JbrdFed(p) ==
  IF PayloadLen(p) < JbrHeaderLen THEN jbrd = JbrdStaged(PayloadLen(p))
  ELSE jbrd.phase = "parsed" /\ Done(jbrd.brotli, p, PayloadLen(p) - JbrHeaderLen)
JbrdInv ==
  /\ jbrd.phase = "finalized" =>
       \E q \in Starts :
         /\ file.box[q].ty = "jbrd" /\ q < cursor
         /\ Alive => ~(state = "IN_AUX_BOX" /\ q = pending_header)
         /\ ~split /\ Fits(q) => jbrd.brotli.out = Symbols(q, Stream(q))
  /\ Alive /\ jbrd.phase = "absent" /\ ~JbrdOpen => jbrd = NoJbrd
  /\ Alive /\ jbrd.phase = "parsed" => JbrdOpen
  /\ Alive /\ ~split /\ JbrdOpen /\ jbrd.phase # "finalized" =>
       \/ cursor = PayloadStart(pending_header) /\ jbrd = NoJbrd
       \/ cursor = PayloadEnd(pending_header) /\ JbrdFed(pending_header)

(* What has been listed is what the boxes hold. *)
ExactInv ==
  \A i \in 1 .. Len(boxes) :
    file.box[boxes[i].at].ty # "brob" \/ (~split /\ Fits(boxes[i].at)) =>
      boxes[i].data = Content(boxes[i].at)

AcceptedInv == Sound(file) /\ AuxSound /\ JbrdFits /\ ~split => failed = "OK"

(* The list takes a box for the last one only if no box follows. *)
LastInv ==
  Alive /\ last_box =>
    (state = "IN_CODESTREAM" /\ no_more) \/ (Opened /\ ~Pending.sized)

ReaderInv ==
  /\ Inv /\ SoundInv
  /\ ShapeInv /\ StreamInv /\ ListInv /\ OpenInv /\ WholeInv /\ JbrdInv
  /\ ExactInv /\ AcceptedInv /\ LastInv
-----------------------------------------------------------------------------
(* Sequences *)

LEMMA InSeq == ASSUME NEW s, IsSeq(s), NEW S, \A i \in 1 .. Len(s) : s[i] \in S
               PROVE s \in Seq(S)
<1>1. s \in [1 .. Len(s) -> S]
  BY DEF IsSeq
<1>. QED BY <1>1 DEF IsSeq

(* Appending to a sequence, whatever it holds. *)
LEMMA AppendAny ==
  ASSUME NEW s, IsSeq(s), NEW e
  PROVE  /\ IsSeq(Append(s, e)) /\ Len(Append(s, e)) = Len(s) + 1
         /\ \A i \in 1 .. Len(s) : Append(s, e)[i] = s[i]
         /\ Append(s, e)[Len(s) + 1] = e
<1>. DEFINE S == {s[i] : i \in 1 .. Len(s)} \cup {e}
<1>1. s \in Seq(S) /\ e \in S /\ Len(s) \in Nat
  BY InSeq DEF IsSeq
<1>. HIDE DEF S
<1>2. Append(s, e) \in Seq(S) /\ Len(Append(s, e)) = Len(s) + 1
  BY <1>1
<1>. DEFINE t == Append(s, e)
<1>3. IsSeq(t)
  <2>1. t \in [1 .. Len(t) -> S] /\ Len(t) \in Nat
    BY <1>2, LenProperties
  <2>. QED BY <2>1 DEF IsSeq
<1>4. /\ \A i \in 1 .. Len(s) : Append(s, e)[i] = s[i]
      /\ Append(s, e)[Len(s) + 1] = e
  BY <1>1
<1>. QED BY <1>2, <1>3, <1>4

(* A span of positions, and two spans that meet. *)
LEMMA SpanSeq == ASSUME NEW a \in Nat, NEW b \in Nat, a <= b
   PROVE /\ Span(a, b) \in Seq(Nat) /\ Len(Span(a, b)) = b - a
         /\ \A i \in 1 .. b - a : Span(a, b)[i] = a + i - 1
<1>1. b - a \in Nat /\ \A i \in 1 .. b - a : a + i - 1 \in Nat
  OBVIOUS
<1>. QED BY <1>1, IsASeq DEF Span

LEMMA SpanConcat == ASSUME NEW a \in Nat, NEW b \in Nat, NEW c \in Nat, a <= b, b <= c
   PROVE Span(a, b) \o Span(b, c) = Span(a, c)
<1>. DEFINE s == Span(a, b) t == Span(b, c) u == Span(a, c)
<1>1. /\ s \in Seq(Nat) /\ Len(s) = b - a
      /\ \A i \in 1 .. b - a : s[i] = a + i - 1
  BY SpanSeq
<1>2. /\ t \in Seq(Nat) /\ Len(t) = c - b
      /\ \A i \in 1 .. c - b : t[i] = b + i - 1
  BY SpanSeq
<1>3. /\ u \in Seq(Nat) /\ Len(u) = c - a
      /\ \A i \in 1 .. c - a : u[i] = a + i - 1
  <2>1. a <= c
    OBVIOUS
  <2>. QED BY <2>1, SpanSeq
<1>. HIDE DEF s, t, u
<1>4. /\ s \o t \in Seq(Nat) /\ Len(s \o t) = Len(s) + Len(t)
      /\ \A i \in 1 .. Len(s) + Len(t) :
            (s \o t)[i] = IF i <= Len(s) THEN s[i] ELSE t[i - Len(s)]
  BY <1>1, <1>2, ConcatProperties
<1>5. Len(s \o t) = c - a
  BY <1>1, <1>2, <1>4
<1>6. ASSUME NEW i \in 1 .. c - a PROVE (s \o t)[i] = u[i]
  <2>1. i \in 1 .. Len(s) + Len(t) /\ i \in Nat
    BY <1>1, <1>2
  <2>2. CASE i <= b - a
    <3>1. (s \o t)[i] = s[i] /\ i \in 1 .. b - a
      BY <1>1, <1>4, <2>1, <2>2
    <3>. QED BY <1>1, <1>3, <3>1
  <2>3. CASE ~(i <= b - a)
    <3>1. (s \o t)[i] = t[i - (b - a)] /\ i - (b - a) \in 1 .. c - b
      BY <1>1, <1>4, <2>1, <2>3
    <3>. QED BY <1>2, <1>3, <3>1
  <2>. QED BY <2>2, <2>3
<1>7. s \o t = u
  BY <1>3, <1>4, <1>5, <1>6, SeqEqual
<1>. QED BY <1>7 DEF s, t, u

-----------------------------------------------------------------------------
(* What depends on the file alone never changes. *)

LEMMA FileKept ==
  ASSUME file' = file
  PROVE  /\ Starts' = Starts /\ AuxStarts' = AuxStarts
         /\ CodestreamPositions' = CodestreamPositions
         /\ AuxSound' = AuxSound /\ JbrdFits' = JbrdFits
         /\ \A p : /\ PayloadStart(p)' = PayloadStart(p) /\ PayloadEnd(p)' = PayloadEnd(p)
                   /\ InnerType(p)' = InnerType(p) /\ Stream(p)' = Stream(p)
                   /\ Content(p)' = Content(p) /\ Fits(p)' = Fits(p)
<1>1. /\ Starts' = Starts
      /\ \A p : /\ PayloadStart(p)' = PayloadStart(p) /\ PayloadEnd(p)' = PayloadEnd(p)
                /\ InnerType(p)' = InnerType(p) /\ Stream(p)' = Stream(p)
  BY DEF Starts, PayloadStart, PayloadEnd, InnerType, Stream
<1>2. AuxStarts' = AuxStarts
  BY <1>1 DEF AuxStarts
<1>3. CodestreamPositions' = CodestreamPositions
  BY <1>1 DEF CodestreamPositions
<1>4. AuxSound' = AuxSound
  BY <1>1 DEF AuxSound
<1>5. \A p : Content(p)' = Content(p)
  BY <1>1 DEF Content, Symbols
<1>6. JbrdFits' = JbrdFits /\ \A p : Fits(p)' = Fits(p)
  BY <1>1 DEF JbrdFits, Fits
<1>. QED BY <1>6, <1>1, <1>2, <1>3, <1>4, <1>5

-----------------------------------------------------------------------------
(* The codestream of the file, as the parser passes it *)

LEMMA PayloadTyped ==
  ASSUME TypeOK, NEW p \in DOMAIN file.box
  PROVE  /\ PayloadStart(p) \in Nat /\ PayloadEnd(p) \in Nat /\ p < PayloadStart(p)
         /\ p + file.box[p].hdr <= PayloadStart(p)
BY BoxTyped DEF PayloadStart, PayloadEnd

LEMMA CodestreamIn ==
  ASSUME TypeOK, NEW x
  PROVE  x \in CodestreamPositions <=>
           /\ x \in Nat /\ x < file.len
           /\ \/ file.sig # "container"
              \/ \E p \in DOMAIN file.box :
                   /\ file.box[p].ty \in {"jxlc", "jxlp"}
                   /\ PayloadStart(p) <= x /\ x < PayloadEnd(p)
<1>1. file.len \in Nat
  BY FileTyped
<1>2. CASE file.sig # "container"
  BY <1>1, <1>2 DEF CodestreamPositions
<1>3. CASE file.sig = "container"
  <2>1. x \in CodestreamPositions <=>
          \E p \in DOMAIN file.box :
             /\ file.box[p].ty \in {"jxlc", "jxlp"}
             /\ x \in PayloadStart(p) .. Least(PayloadEnd(p), file.len) - 1
    BY <1>3 DEF CodestreamPositions, Starts
  <2>2. ASSUME NEW p \in DOMAIN file.box
        PROVE  x \in PayloadStart(p) .. Least(PayloadEnd(p), file.len) - 1 <=>
                 x \in Nat /\ x < file.len /\ PayloadStart(p) <= x /\ x < PayloadEnd(p)
    BY <1>1, PayloadTyped DEF Least
  <2>. QED BY <1>3, <2>1, <2>2
<1>. QED BY <1>2, <1>3

(* What a step of each state passes. *)
LEMMA HeaderMoves ==
  ASSUME Inv, Emit, state = "WAITING_BOX_HEADER"
  PROVE  cursor \in DOMAIN file.box /\ cursor' = cursor + file.box[cursor].hdr
<1>1. EmitHeader
  BY DEF Emit, EmitJxlpIndex, JxlpIndex, JxlpIndexRejected, JxlpIndexOf, DetectBareOrInvalid,
         DetectContainer, NoMoreAuxBox, Codestream, BrobInnerType, BrobInnerRejected,
         InnerTypeRead, AuxEnd, AuxDataSized, AuxDataUnsized, Emitting
<1>2. PICK box : HeaderOf(box)
  BY <1>1 DEF EmitHeader, HeaderJxlc, HeaderJxlp, HeaderAux, HeaderBrob,
              HeaderCodestreamRejected, HeaderBrobRejected
<1>. QED BY <1>2, HeaderFacts

LEMMA IndexMoves ==
  ASSUME Inv, Emit, state = "WAITING_JXLP_INDEX"
  PROVE  /\ cursor' = cursor + 4 /\ cursor' = PayloadStart(pending_header)
<1>1. EmitJxlpIndex
  BY DEF Emit, EmitHeader, HeaderJxlc, HeaderJxlp, HeaderAux, HeaderBrob,
         HeaderCodestreamRejected, HeaderBrobRejected, HeaderOf, DetectBareOrInvalid,
         DetectContainer, NoMoreAuxBox, Codestream, BrobInnerType, BrobInnerRejected,
         InnerTypeRead, AuxEnd, AuxDataSized, AuxDataUnsized, Emitting
<1>2. cursor' = cursor + 4
  BY <1>1 DEF EmitJxlpIndex, JxlpIndex, JxlpIndexRejected, JxlpIndexOf
<1>3. /\ pending_header \in DOMAIN file.box /\ file.box[pending_header].ty = "jxlp"
      /\ cursor = pending_header + file.box[pending_header].hdr
  BY EmitFrame DEF PlaceInv, JxlpInv, Pending
<1>4. pending_header \in Nat /\ file.box[pending_header].hdr \in {8, 16}
  BY <1>3, BoxTyped DEF Inv
<1>. QED BY <1>2, <1>3, <1>4 DEF PayloadStart

LEMMA SignatureMoves ==
  ASSUME Inv, Emit, state = "WAITING_SIGNATURE", file.sig = "container"
  PROVE  cursor' <= ContainerSigLen
<1>1. DetectBareOrInvalid \/ DetectContainer
  BY DEF Emit, EmitHeader, HeaderJxlc, HeaderJxlp, HeaderAux, HeaderBrob,
         HeaderCodestreamRejected, HeaderBrobRejected, HeaderOf, EmitJxlpIndex,
         JxlpIndex, JxlpIndexRejected, JxlpIndexOf, NoMoreAuxBox, Codestream,
         BrobInnerType, BrobInnerRejected, InnerTypeRead, AuxEnd, AuxDataSized,
         AuxDataUnsized, Emitting
<1>2. cursor = 0
  BY EmitFrame DEF PlaceInv, SignatureInv
<1>. QED BY <1>1, <1>2 DEF DetectBareOrInvalid, DetectContainer, ContainerSigLen

(* Only codestream events pass bytes of the codestream, and nothing else. *)
LEMMA CodestreamPassed ==
  ASSUME Inv, Emit, NEW x \in CodestreamPositions, cursor <= x, x < cursor',
         state # "IN_CODESTREAM"
  PROVE  FALSE
<1>0. TypeOK
  BY DEF Inv
<1>1. /\ cursor \in Nat /\ cursor' \in Nat /\ PlaceInv
      /\ cursor' <= file.len /\ file.len \in Nat
  BY EmitFrame
<1>2. x \in Nat
  BY <1>0, CodestreamIn
<1>3. file.sig = "container"
  <2>1. SUFFICES ASSUME file.sig # "container" PROVE FALSE
    OBVIOUS
  <2>2. state = "WAITING_SIGNATURE"
    BY <1>0, <1>1, <2>1 DEF TypeOK, PlaceInv, HeaderInv
  <2>3. DetectBareOrInvalid
    BY <2>1, <2>2 DEF Emit, EmitHeader, HeaderJxlc, HeaderJxlp, HeaderAux, HeaderBrob,
         HeaderCodestreamRejected, HeaderBrobRejected, HeaderOf, EmitJxlpIndex,
         JxlpIndex, JxlpIndexRejected, JxlpIndexOf, NoMoreAuxBox, Codestream,
         BrobInnerType, BrobInnerRejected, InnerTypeRead, AuxEnd, AuxDataSized,
         AuxDataUnsized, Emitting, DetectContainer, StartsWith
  <2>4. cursor' = cursor
    BY <2>3 DEF DetectBareOrInvalid
  <2>. QED BY <1>1, <1>2, <2>4
<1>4. PICK p \in DOMAIN file.box : /\ file.box[p].ty \in {"jxlc", "jxlp"}
                                  /\ PayloadStart(p) <= x /\ x < PayloadEnd(p)
  BY <1>0, <1>3, CodestreamIn
<1>5. /\ p \in Nat /\ PayloadStart(p) \in Nat /\ PayloadEnd(p) \in Nat
      /\ p + file.box[p].hdr <= PayloadStart(p) /\ file.box[p].hdr \in {8, 16}
  BY <1>0, PayloadTyped, BoxTyped
<1>6. CASE state = "WAITING_SIGNATURE"
  <2>1. ContainerSigLen <= p /\ cursor' <= ContainerSigLen
    BY <1>0, <1>3, <1>6, FirstBox, SignatureMoves
  <2>. QED BY <1>1, <1>2, <1>4, <1>5, <2>1 DEF ContainerSigLen
<1>7. CASE state # "WAITING_SIGNATURE"
  <2>1. /\ CurrentBox \in DOMAIN file.box /\ CurrentBox <= cursor
        /\ cursor' <= PayloadEnd(CurrentBox)
    BY <1>3, <1>7, StaysInBox
  <2>2. CurrentBox \in Nat /\ PayloadEnd(CurrentBox) \in Nat
    BY <1>0, <2>1, PayloadTyped, BoxTyped
  <2>3. p = CurrentBox
    <3>1. CASE p < CurrentBox
      <4>1. PayloadEnd(p) <= CurrentBox
        BY <1>0, <2>1, <3>1, BoxesApart
      <4>. QED BY <1>1, <1>2, <1>4, <1>5, <2>1, <2>2, <4>1
    <3>2. CASE CurrentBox < p
      <4>1. PayloadEnd(CurrentBox) <= p
        BY <1>0, <2>1, <3>2, BoxesApart
      <4>. QED BY <1>1, <1>2, <1>4, <1>5, <2>1, <2>2, <4>1
    <3>. QED BY <1>5, <2>2, <3>1, <3>2
  <2>4. CASE state = "WAITING_BOX_HEADER"
    <3>1. p = cursor
      BY <2>3, <2>4 DEF CurrentBox
    <3>2. cursor' = p + file.box[p].hdr
      BY <2>4, <3>1, HeaderMoves
    <3>. QED BY <1>1, <1>2, <1>4, <1>5, <3>2
  <2>5. CASE state = "WAITING_JXLP_INDEX"
    <3>1. p = pending_header
      BY <2>3, <2>5 DEF CurrentBox
    <3>2. cursor' = PayloadStart(p)
      BY <2>5, <3>1, IndexMoves
    <3>. QED BY <1>1, <1>2, <1>4, <1>5, <3>2
  <2>6. CASE state = "IN_AUX_BOX"
    <3>1. p = pending_header
      BY <2>3, <2>6 DEF CurrentBox
    <3>2. file.box[p].ty \in AuxTypes \cup {"brob"}
      BY <1>1, <2>6, <3>1 DEF PlaceInv, AuxInv, Pending
    <3>. QED BY <1>4, <3>2, AuxAssumption
  <2>. QED BY <1>0, <1>7, <2>4, <2>5, <2>6 DEF TypeOK
<1>. QED BY <1>6, <1>7

LEMMA CodestreamHanded ==
  ASSUME Inv, Emit, state = "IN_CODESTREAM", NEW x \in Nat, cursor <= x, x < cursor'
  PROVE  x \in CodestreamPositions
<1>0. TypeOK
  BY DEF Inv
<1>1. /\ cursor \in Nat /\ cursor' \in Nat /\ PlaceInv
      /\ cursor' <= fed /\ fed <= file.len /\ fed \in Nat /\ file.len \in Nat
  BY EmitFrame
<1>2. x < file.len
  BY <1>1
<1>3. CASE file.sig = "container"
  <2>1. /\ accepted # <<>> /\ file.box[Current].ty \in {"jxlc", "jxlp"}
        /\ PayloadStart(Current) <= cursor
    BY <1>1, <1>3 DEF PlaceInv, BoxedInv
  <2>2. Current \in DOMAIN file.box /\ cursor' <= PayloadEnd(Current)
    BY <1>3, StaysInBox DEF CurrentBox
  <2>3. PayloadStart(Current) \in Nat /\ PayloadEnd(Current) \in Nat
    BY <1>0, <2>2, PayloadTyped
  <2>4. PayloadStart(Current) <= x /\ x < PayloadEnd(Current)
    BY <1>1, <2>1, <2>2, <2>3
  <2>. QED BY <1>0, <1>2, <2>1, <2>2, <2>4, CodestreamIn
<1>. QED BY <1>0, <1>2, <1>3, CodestreamIn

LEMMA KindKept ==
  ASSUME Inv, Emit
  PROVE  \/ codestream_kind' = codestream_kind
         \/ codestream_kind' = "container" /\ file.sig = "container"
         \/ state = "WAITING_SIGNATURE" /\ codestream_kind' \in {"bare", "invalid"}
<1>1. CASE EmitHeader
  <2>1. state = "WAITING_BOX_HEADER" /\ status = "OK"
    BY <1>1, EmitFrame DEF EmitHeader, HeaderJxlc, HeaderJxlp, HeaderAux, HeaderBrob,
                HeaderCodestreamRejected, HeaderBrobRejected, HeaderOf, Emitting
  <2>2. file.sig = "container"
    BY <2>1, EmitFrame DEF PlaceInv, HeaderInv
  <2>. QED BY <1>1, <2>2 DEF EmitHeader, HeaderJxlc, HeaderJxlp, HeaderAux, HeaderBrob,
                HeaderCodestreamRejected, HeaderBrobRejected, EnterCodestream
<1>2. CASE EmitJxlpIndex
  <2>1. state = "WAITING_JXLP_INDEX" /\ status = "OK"
    BY <1>2, EmitFrame DEF EmitJxlpIndex, JxlpIndex, JxlpIndexRejected, JxlpIndexOf, Emitting
  <2>2. file.sig = "container"
    BY <2>1, EmitFrame DEF PlaceInv, HeaderInv
  <2>. QED BY <1>2, <2>2 DEF EmitJxlpIndex, JxlpIndex, JxlpIndexRejected, EnterCodestream
<1>3. CASE DetectBareOrInvalid \/ DetectContainer
  BY <1>3 DEF DetectBareOrInvalid, DetectContainer, Emitting
<1>4. CASE NoMoreAuxBox \/ Codestream \/ BrobInnerType \/ BrobInnerRejected
           \/ AuxEnd \/ AuxDataSized \/ AuxDataUnsized
  BY <1>4 DEF NoMoreAuxBox, Codestream, BrobInnerType, BrobInnerRejected, InnerTypeRead,
              AuxEnd, AuxDataSized, AuxDataUnsized
<1>. QED BY <1>1, <1>2, <1>3, <1>4 DEF Emit

LEMMA NoMoreStays ==
  ASSUME Emit, no_more
  PROVE  no_more'
BY DEF Emit, EmitHeader, HeaderJxlc, HeaderJxlp, HeaderAux, HeaderBrob,
       HeaderCodestreamRejected, HeaderBrobRejected, EmitJxlpIndex, JxlpIndex,
       JxlpIndexRejected, DetectBareOrInvalid, DetectContainer, NoMoreAuxBox, Codestream,
       BrobInnerType, BrobInnerRejected, InnerTypeRead, AuxEnd, AuxDataSized,
       AuxDataUnsized, hist

-----------------------------------------------------------------------------
(* The brotli decoder, fed a payload in one piece *)

LEMMA SymbolsSeq ==
  ASSUME NEW p, NEW k \in Nat
  PROVE  Symbols(p, k) \in Seq({p} \X Nat) /\ Len(Symbols(p, k)) = 2 * k
<1>1. Inflated(k) \in Nat /\ \A i \in 1 .. Inflated(k) : <<p, i>> \in {p} \X Nat
  BY DEF Inflated
<1>. QED BY <1>1, IsASeq DEF Symbols, Inflated

LEMMA SymbolsLen ==
  ASSUME NEW p, NEW k \in Nat, NEW s, s = Symbols(p, k), NEW m \in Nat, Len(s) = 2 * m
  PROVE  k = m
<1>1. Len(s) = 2 * k
  BY SymbolsSeq
<1>. QED BY <1>1

(* What the first turn leaves of a payload that inflates into the first buffer. *)
LEMMA FirstTurn ==
  ASSUME NEW p, Stream(p) \in Nat, Fits(p), NEW k \in Nat, k <= Stream(p)
  PROVE  LET b == Turn(NoBrotli, p, k)
         IN  b.out = Symbols(p, k) /\ b.total = Inflated(b.k) /\ b.k = k
<1>. DEFINE s == Symbols(p, k)
            b == Turn(NoBrotli, p, k)
<1>1. NoBrotli.cap = 0 /\ NoBrotli.total = 0 /\ NoBrotli.out = <<>> /\ Len(NoBrotli.out) = 0
  BY DEF NoBrotli
<1>2. s \in Seq({p} \X Nat) /\ Len(s) = 2 * k /\ Inflated(k) = 2 * k
  BY SymbolsSeq DEF Inflated
<1>3. Grown(0, 0 + BufferLen) = BufferLen
  BY BufferAssumption DEF Grown
<1>4. Least(2 * k, 0 + BufferLen - 0) = 2 * k /\ ~(0 > BufferLen)
  BY BufferAssumption DEF Fits, Inflated, Least
<1>5. (<<>> \o SubSeq(s, 1, Len(s))) \o <<>> = s
  BY <1>2, SubSeqFull, ConcatEmptySeq
<1>6. Garbage(0) = <<>>
  BY DEF Garbage
<1>7. (<<>> \o SubSeq(s, 0 + 1, 2 * k)) \o Garbage(0) = s
  <2>1. SubSeq(s, 1, 2 * k) = SubSeq(s, 1, Len(s))
    BY <1>2
  <2>2. 0 + 1 = 1
    OBVIOUS
  <2>. QED BY <2>1, <2>2, <1>5, <1>6
<1>. HIDE DEF s
<1>8. b.k = k /\ b.total = 2 * k
  BY <1>1, <1>2, <1>3, <1>4 DEF Turn
<1>9. b.out = (<<>> \o SubSeq(s, 0 + 1, 2 * k)) \o Garbage(0)
  BY <1>1, <1>2, <1>3, <1>4 DEF Turn, s
<1>. HIDE DEF b
<1>. QED BY <1>2, <1>7, <1>8, <1>9 DEF s, b

LEMMA BrotliWhole ==
  ASSUME NEW p, Stream(p) \in Nat, NEW n \in Nat
  PROVE  Done(BrotliFeed(NoBrotli, p, n), p, n) /\ Done(NoBrotli, p, 0)
<1>. DEFINE k == Least(0 + n, Stream(p))
            b == BrotliFeed(NoBrotli, p, n)
            first == Turn(NoBrotli, p, k)
<1>1. k \in Nat /\ k = Least(Stream(p), n) /\ k <= Stream(p)
  BY DEF Least
<1>. HIDE DEF k
<1>2. /\ NoBrotli.total = 0 /\ NoBrotli.k = 0 /\ Inflated(0) = 0
      /\ NoBrotli.out = <<>> /\ Symbols(p, 0) = <<>>
  BY DEF NoBrotli, Inflated, Symbols
<1>3. Least(Stream(p), 0) = 0
  BY DEF Least
<1>4. ASSUME Fits(p) PROVE b.out = Symbols(p, k) /\ b.total = Inflated(b.k)
  <2>1. CASE n = 0
    <3>1. b = NoBrotli
      BY <1>2, <2>1 DEF BrotliFeed
    <3>. QED BY <1>1, <1>2, <1>3, <2>1, <3>1
  <2>2. CASE n # 0
    <3>1. first.out = Symbols(p, k) /\ first.total = Inflated(first.k) /\ first.k = k
      BY <1>1, <1>4, FirstTurn
    <3>2. Settled(p, k, first.total)
      BY <3>1 DEF Settled
    <3>3. Least(NoBrotli.k + n, Stream(p)) = k
      BY <1>2 DEF k
    <3>. HIDE DEF first
    <3>4. b = first
      BY <2>2, <3>2, <3>3 DEF BrotliFeed, first
    <3>. QED BY <3>1, <3>4
  <2>. QED BY <2>1, <2>2
<1>. HIDE DEF b
<1>. QED BY <1>1, <1>2, <1>3, <1>4 DEF Done, b

(* A decoder with nothing pending is finished as it is. *)
LEMMA BrotliIdle ==
  ASSUME NEW p, NEW b, b.total = Inflated(b.k)
  PROVE  BrotliFinish(b, p) = b
<1>1. BrotliFeed(b, p, 0) = b
  BY DEF BrotliFeed
<1>. QED BY <1>1 DEF BrotliFinish

(* Of a sound box, the library refuses nothing that a new decoder is fed. *)
LEMMA SoundNotRefused ==
  ASSUME TypeOK, AuxSound, NEW p \in DOMAIN file.box, file.box[p].ty \in {"brob", "jbrd"},
         NEW n \in Int
  PROVE  ~BrotliRefuses(NoBrotli, p, n)
<1>1. file.box[p] \in Box
  BY FilesAssumption DEF TypeOK, File
<1>2. Stream(p) \in Nat /\ file.box[p].intact \in Nat /\ file.box[p].intact >= Stream(p)
  BY <1>1 DEF Box, Stream, AuxSound, Starts
<1>. QED BY <1>2 DEF BrotliRefuses, NoBrotli, Least

-----------------------------------------------------------------------------
(* The steps.  What the conjuncts of the invariant have in common first. *)

LEMMA AuxStartIn ==
  ASSUME NEW p
  PROVE  p \in AuxStarts <=> /\ p \in DOMAIN file.box
                             /\ file.box[p].ty \notin {"jxlc", "jxlp"}
                             /\ InnerType(p) # "jbrd"
BY DEF AuxStarts, Starts

LEMMA BoxStartsNat ==
  ASSUME TypeOK
  PROVE  /\ \A p \in AuxStarts : p \in Nat /\ p \in DOMAIN file.box
         /\ \A p \in Starts : p \in Nat
         /\ \A x \in CodestreamPositions : x \in Nat /\ x < file.len
BY FileTyped, AuxStartIn, CodestreamIn DEF Starts

LEMMA StreamKept ==
  ASSUME ReaderInv, Emit, codestream' = codestream, state # "IN_CODESTREAM" \/ cursor' = cursor
  PROVE  StreamInv'
<1>1. /\ file' = file /\ cursor \in Nat /\ cursor' \in Nat /\ cursor <= cursor'
      /\ Inv /\ TypeOK /\ StreamInv
  BY EmitFrame DEF ReaderInv, Inv
<1>2. CodestreamPositions' = CodestreamPositions
  BY <1>1, FileKept
<1>3. \A i \in 1 .. Len(codestream) : codestream[i] \in Nat
  BY <1>1, BoxStartsNat DEF StreamInv
<1>4. ASSUME NEW x \in CodestreamPositions, x < cursor'
      PROVE  x < cursor
  BY <1>1, <1>4, CodestreamPassed, BoxStartsNat
<1>5. codestream_kind # "unknown" => codestream_kind' # "unknown"
  BY <1>1, KindKept
<1>. QED BY <1>1, <1>2, <1>3, <1>4, <1>5 DEF StreamInv

LEMMA ListKept ==
  ASSUME ReaderInv, Emit, failed = "OK", boxes' = boxes,
         status' = "OK" /\ failed' = "OK" /\ state = "IN_AUX_BOX" /\ state' # "IN_AUX_BOX" =>
           pending_header \notin AuxStarts
  PROVE  ListInv'
<1>1. /\ file' = file /\ cursor \in Nat /\ cursor' \in Nat /\ cursor <= cursor'
      /\ Inv /\ TypeOK /\ ListInv /\ Alive
  BY EmitFrame DEF ReaderInv, Inv, Alive
<1>2. AuxStarts' = AuxStarts /\ \A p : InnerType(p)' = InnerType(p)
  BY <1>1, FileKept
<1>3. \A i \in 1 .. Len(boxes) : boxes[i].at \in Nat /\ boxes[i].at < cursor
  BY <1>1, BoxStartsNat DEF ListInv
<1>4. ASSUME NEW i \in 1 .. Len(boxes)
      PROVE  boxes[i].at < cursor' /\ boxes[i].ty = InnerType(boxes[i].at)'
  BY <1>1, <1>2, <1>3, <1>4 DEF ListInv
<1>5. ASSUME Alive', state' = "IN_AUX_BOX", NEW i \in 1 .. Len(boxes)
      PROVE  boxes[i].at < pending_header'
  <2>1. status' = "OK"
    BY <1>5 DEF Alive
  <2>2. CASE state = "WAITING_BOX_HEADER"
    BY <1>1, <1>3, <1>5, <2>1, <2>2, HeadersLead, BoxTyped
  <2>3. CASE state # "WAITING_BOX_HEADER"
    BY <1>1, <1>5, <2>1, <2>3, HeadersLead DEF ListInv
  <2>. QED BY <2>2, <2>3
<1>6. ASSUME Alive', NEW p \in AuxStarts, p < cursor',
             ~(state' = "IN_AUX_BOX" /\ p = pending_header')
      PROVE  \E i \in 1 .. Len(boxes) : boxes[i].at = p
  <2>1. status' = "OK" /\ failed' = "OK"
    BY <1>6 DEF Alive
  <2>2. p \in Nat /\ p \in DOMAIN file.box /\ file.box[p].ty \notin {"jxlc", "jxlp"}
    BY <1>1, BoxStartsNat, AuxStartIn
  <2>3. p < cursor
    <3>1. SUFFICES ASSUME cursor <= p PROVE FALSE
      BY <1>1, <2>2
    <3>2. p = cursor /\ state = "WAITING_BOX_HEADER"
      BY <1>1, <1>6, <2>2, <3>1, PassesItsHeader
    <3>. QED BY <1>1, <1>6, <2>1, <2>2, <3>2, HeadersLead
  <2>4. ~(state = "IN_AUX_BOX" /\ p = pending_header)
    BY <1>1, <1>6, <2>1, HeadersLead
  <2>. QED BY <1>1, <2>3, <2>4 DEF ListInv
<1>. QED BY <1>1, <1>2, <1>4, <1>5, <1>6 DEF ListInv

LEMMA FinalizedKept ==
  ASSUME ReaderInv, Emit, failed = "OK", jbrd.phase = "finalized",
         jbrd' = jbrd, ~split' => ~split
  PROVE  \E q \in Starts' :
           /\ file'.box[q].ty = "jbrd" /\ q < cursor'
           /\ Alive' => ~(state' = "IN_AUX_BOX" /\ q = pending_header')
           /\ ~split' /\ Fits(q)' => jbrd'.brotli.out = Symbols(q, Stream(q)')
<1>1. /\ file' = file /\ cursor \in Nat /\ cursor' \in Nat /\ cursor <= cursor'
      /\ Inv /\ TypeOK /\ JbrdInv /\ Alive
  BY EmitFrame DEF ReaderInv, Inv, Alive
<1>2. Starts' = Starts /\ \A p : Stream(p)' = Stream(p) /\ Fits(p)' = Fits(p)
  BY <1>1, FileKept
<1>3. PICK q \in Starts :
         /\ file.box[q].ty = "jbrd" /\ q < cursor
         /\ ~(state = "IN_AUX_BOX" /\ q = pending_header)
         /\ ~split /\ Fits(q) => jbrd.brotli.out = Symbols(q, Stream(q))
  BY <1>1 DEF JbrdInv
<1>4. q \in Nat
  BY <1>1, BoxStartsNat
<1>5. q < cursor'
  BY <1>1, <1>3, <1>4
<1>6. ASSUME Alive', state' = "IN_AUX_BOX", q = pending_header'
      PROVE  FALSE
  <2>1. status' = "OK"
    BY <1>6 DEF Alive
  <2>2. CASE state = "WAITING_BOX_HEADER"
    BY <1>1, <1>3, <1>4, <1>6, <2>1, <2>2, HeadersLead
  <2>3. CASE state # "WAITING_BOX_HEADER"
    BY <1>1, <1>3, <1>6, <2>1, <2>3, HeadersLead
  <2>. QED BY <2>2, <2>3
<1>7. ~split' /\ Fits(q)' => jbrd'.brotli.out = Symbols(q, Stream(q)')
  BY <1>2, <1>3
<1>. QED BY <1>1, <1>2, <1>3, <1>5, <1>6, <1>7

LEMMA EmitReader ==
  ASSUME ReaderInv, ReaderEmit
  PROVE  /\ Emit /\ Callback /\ failed = "OK" /\ status = "OK" /\ Alive
         /\ file' = file /\ Inv /\ TypeOK /\ Inv' /\ TypeOK' /\ SoundInv'
         /\ cursor \in Nat /\ cursor' \in Nat /\ cursor <= cursor' /\ cursor' <= file.len
         /\ file.len \in Nat
<1>1. Emit /\ Callback /\ failed = "OK" /\ Inv /\ SoundInv
  BY DEF ReaderEmit, ReaderInv
<1>2. Inv' /\ SoundInv'
  BY <1>1, InvStep, SoundInvStep DEF Next
<1>3. /\ status = "OK" /\ file' = file /\ cursor \in Nat /\ cursor' \in Nat
      /\ cursor <= cursor' /\ cursor' <= fed /\ fed <= file.len /\ fed \in Nat
      /\ file.len \in Nat
  BY <1>1, EmitFrame
<1>. QED BY <1>1, <1>2, <1>3 DEF Inv, Alive

LEMMA ExactKept ==
  ASSUME ReaderInv, file' = file, boxes' = boxes, split => split'
  PROVE  ExactInv'
<1>1. \A p : Content(p)' = Content(p) /\ Fits(p)' = Fits(p)
  BY FileKept
<1>2. ASSUME NEW i \in 1 .. Len(boxes),
             file.box[boxes[i].at].ty # "brob" \/ (~split' /\ Fits(boxes[i].at)')
      PROVE  boxes[i].data = Content(boxes[i].at)'
  <2>1. PICK q : q = boxes[i].at
    OBVIOUS
  <2>2. Fits(boxes[i].at)' = Fits(q)' /\ Content(boxes[i].at)' = Content(q)'
    BY <2>1 DEF Fits, Stream, Content, PayloadStart, PayloadEnd, Symbols
  <2>. QED BY <1>1, <1>2, <2>1, <2>2 DEF ReaderInv, ExactInv
<1>. QED BY <1>2 DEF ExactInv

LEMMA AcceptedKept ==
  ASSUME ReaderInv, ReaderEmit, failed' = failed
  PROVE  AcceptedInv'
BY EmitReader DEF AcceptedInv

(* A step the callback has nothing to do for, and the codestream's. *)
LEMMA SilentReader ==
  ASSUME ReaderInv, ReaderEmit, Silent
  PROVE  ReaderInv'
<1>1. /\ Emit /\ file' = file /\ Inv /\ TypeOK /\ Inv' /\ SoundInv' /\ Alive /\ failed = "OK"
      /\ ShapeInv /\ OpenInv /\ JbrdInv /\ LastInv /\ cursor <= cursor'
      /\ cursor \in Nat /\ cursor' \in Nat
  BY EmitReader DEF ReaderInv
<1>2. UNCHANGED readervars
  <2>1. event'.type \in {"none", "kind"} /\ Callback
    BY EmitReader DEF Silent
  <2>. QED BY <2>1 DEF Callback
<1>3. /\ codestream' = codestream /\ boxes' = boxes /\ current_box_ty' = current_box_ty
      /\ reader_kind' = reader_kind /\ raw' = raw /\ brotli' = brotli
      /\ last_box' = last_box /\ jbrd' = jbrd /\ failed' = failed /\ split' = split
  BY <1>2 DEF readervars
<1>4. /\ state # "IN_CODESTREAM" /\ ~Opened
      /\ status' = "OK" => ~Opened' /\ state # "IN_AUX_BOX"
  BY DEF Silent
<1>5. ShapeInv'
  BY <1>1, <1>3 DEF ShapeInv, ReaderTypeOK, Starts
<1>6. StreamInv'
  BY <1>1, <1>3, <1>4, StreamKept
<1>7. ListInv'
  BY <1>1, <1>3, <1>4, ListKept
<1>8. OpenInv'
  BY <1>1, <1>3, <1>4 DEF OpenInv, Alive
<1>9. WholeInv'
  BY <1>4 DEF WholeInv, Alive
<1>10. JbrdInv'
  <2>1. jbrd.phase # "parsed" /\ (jbrd.phase = "absent" => jbrd = NoJbrd)
    BY <1>1, <1>4 DEF JbrdInv, JbrdOpen
  <2>2. Alive' => ~JbrdOpen'
    BY <1>4 DEF JbrdOpen, Alive
  <2>3. jbrd.phase = "finalized" =>
          \E q \in Starts' :
             /\ file'.box[q].ty = "jbrd" /\ q < cursor'
             /\ Alive' => ~(state' = "IN_AUX_BOX" /\ q = pending_header')
             /\ ~split' /\ Fits(q)' => jbrd'.brotli.out = Symbols(q, Stream(q)')
    BY <1>1, <1>3, FinalizedKept
  <2>. QED BY <1>3, <2>1, <2>2, <2>3 DEF JbrdInv, NoJbrd, NoBrotli, Symbols, Fits, Stream
<1>11. ExactInv'
  BY <1>1, <1>3, ExactKept
<1>12. AcceptedInv'
  BY <1>1, <1>3, AcceptedKept
<1>13. LastInv'
  BY <1>1, <1>3, <1>4 DEF LastInv, Alive
<1>. QED BY <1>1, <1>5, <1>6, <1>7, <1>8, <1>9, <1>10, <1>11, <1>12, <1>13 DEF ReaderInv

LEMMA CodestreamReader ==
  ASSUME ReaderInv, ReaderEmit, HandsCodestream
  PROVE  ReaderInv'
<1>1. /\ Emit /\ file' = file /\ Inv /\ TypeOK /\ Inv' /\ SoundInv' /\ Alive /\ failed = "OK"
      /\ ShapeInv /\ StreamInv /\ OpenInv /\ JbrdInv /\ LastInv
      /\ cursor \in Nat /\ cursor' \in Nat /\ cursor <= cursor' /\ cursor' <= file.len
      /\ file.len \in Nat
  BY EmitReader DEF ReaderInv
<1>2. /\ codestream' = codestream \o Span(cursor, cursor')
      /\ boxes' = boxes /\ current_box_ty' = current_box_ty
      /\ reader_kind' = reader_kind /\ raw' = raw /\ brotli' = brotli
      /\ last_box' = last_box /\ jbrd' = jbrd /\ failed' = failed /\ split' = split
  <2>1. event'.type = "codestream" /\ event'.from = cursor /\ event'.to = cursor' /\ Callback
    BY EmitReader DEF HandsCodestream, CodestreamEvent
  <2>. QED BY <2>1 DEF Callback, auxvars
<1>3. /\ state = "IN_CODESTREAM" /\ state' \in {"IN_CODESTREAM", "WAITING_BOX_HEADER"}
      /\ no_more => state' = "IN_CODESTREAM"
      /\ status' = "OK" /\ codestream_kind # "unknown" /\ codestream_kind' = codestream_kind
      /\ ~Opened /\ ~Opened'
  BY DEF HandsCodestream, Opened
<1>. DEFINE s == Span(cursor, cursor')
            t == codestream \o s
            m == Len(codestream)
            n == cursor' - cursor
<1>4. /\ s \in Seq(Nat) /\ Len(s) = n /\ n \in Nat
      /\ \A i \in 1 .. n : s[i] = cursor + i - 1
  <2>1. PICK a \in Nat, b \in Nat : a = cursor /\ b = cursor'
    BY <1>1
  <2>2. a <= b /\ b - a \in Nat
    <3>1. cursor <= cursor'
      BY <1>1
    <3>2. a <= b
      BY <2>1, <3>1
    <3>. QED BY <3>2
  <2>3. /\ Span(a, b) \in Seq(Nat) /\ Len(Span(a, b)) = b - a
        /\ \A i \in 1 .. b - a : Span(a, b)[i] = a + i - 1
    BY <2>2, SpanSeq
  <2>. QED BY <2>1, <2>2, <2>3
<1>5. codestream \in Seq(0 .. file.len) /\ codestream \in Seq(Nat) /\ m \in Nat
  <2>1. codestream \in Seq(0 .. file.len)
    BY <1>1 DEF ShapeInv, ReaderTypeOK
  <2>2. 0 .. file.len \subseteq Nat
    BY <1>1
  <2>. QED BY <2>1, <2>2, SeqMonotonic, LenProperties
<1>6. \A i \in 1 .. m : codestream[i] \in Nat /\ codestream[i] < cursor
  BY <1>1, BoxStartsNat DEF StreamInv
<1>. HIDE DEF s
<1>7. /\ Len(t) = m + n /\ t \in Seq(Nat)
      /\ \A i \in 1 .. m : t[i] = codestream[i]
      /\ \A i \in 1 .. m + n : i > m => t[i] = cursor + (i - m) - 1
  <2>1. /\ t \in Seq(Nat) /\ Len(t) = m + Len(s)
        /\ \A i \in 1 .. m + Len(s) : t[i] = IF i <= m THEN codestream[i] ELSE s[i - m]
    BY <1>4, <1>5, ConcatProperties
  <2>2. ASSUME NEW i \in 1 .. m PROVE t[i] = codestream[i]
    BY <1>4, <1>5, <2>1, <2>2
  <2>3. ASSUME NEW i \in 1 .. m + n, i > m PROVE t[i] = cursor + (i - m) - 1
    <3>1. i - m \in 1 .. n /\ t[i] = s[i - m]
      BY <1>4, <1>5, <2>1, <2>3
    <3>. QED BY <1>4, <3>1
  <2>. QED BY <1>4, <2>1, <2>2, <2>3
<1>. HIDE DEF t
<1>8. codestream' = t
  BY <1>2 DEF t, s
<1>9. ShapeInv'
  <2>1. \A i \in 1 .. Len(t) : t[i] \in 0 .. file.len
    <3>1. ASSUME NEW i \in 1 .. m + n PROVE t[i] \in 0 .. file.len
      <4>1. CASE i <= m
        <5>1. i \in 1 .. m
          BY <1>4, <1>5, <4>1
        <5>2. t[i] \in Nat /\ t[i] < cursor
          BY <1>6, <1>7, <5>1
        <5>. QED BY <1>1, <5>2
      <4>2. CASE i > m
        <5>1. t[i] = cursor + (i - m) - 1 /\ i - m \in 1 .. n
          BY <1>4, <1>5, <1>7, <4>2
        <5>2. cursor \in Nat /\ cursor + n <= file.len /\ file.len \in Nat
          BY <1>1, <1>4
        <5>. QED BY <1>4, <5>1, <5>2
      <4>. QED BY <1>4, <1>5, <4>1, <4>2
    <3>. QED BY <1>7, <3>1
  <2>2. t \in Seq(0 .. file.len)
    <3>1. Len(t) \in Nat /\ t \in [1 .. Len(t) -> Nat]
      BY <1>7, LenProperties
    <3>2. IsSeq(t)
      BY <3>1 DEF IsSeq
    <3>. QED BY <2>1, <3>2, InSeq
  <2>. QED BY <1>1, <1>2, <1>8, <2>2 DEF ShapeInv, ReaderTypeOK, Starts
<1>10. StreamInv'
  <2>0. CodestreamPositions' = CodestreamPositions
    BY <1>1, FileKept
  <2>1. ASSUME NEW i \in 1 .. Len(t), NEW j \in 1 .. Len(t), i < j
        PROVE  t[i] < t[j]
    <3>1. i \in 1 .. m + n /\ j \in 1 .. m + n
      BY <1>7
    <3>2. CASE j <= m
      <4>1. i \in 1 .. m /\ j \in 1 .. m
        BY <1>4, <1>5, <2>1, <3>1, <3>2
      <4>2. codestream[i] < codestream[j]
        BY <1>1, <2>1, <4>1 DEF StreamInv
      <4>. QED BY <1>7, <4>1, <4>2
    <3>3. CASE j > m
      <4>1. t[j] = cursor + (j - m) - 1
        BY <1>7, <3>1, <3>3
      <4>2. CASE i <= m
        <5>1. i \in 1 .. m
          BY <1>5, <3>1, <4>2
        <5>2. t[i] \in Nat /\ t[i] < cursor
          BY <1>6, <1>7, <5>1
        <5>. QED BY <1>1, <1>4, <1>5, <3>1, <3>3, <4>1, <5>2
      <4>3. CASE i > m
        <5>1. t[i] = cursor + (i - m) - 1
          BY <1>7, <3>1, <4>3
        <5>. QED BY <1>1, <1>4, <1>5, <2>1, <3>1, <4>1, <5>1
      <4>. QED BY <1>5, <3>1, <4>2, <4>3
    <3>. QED BY <1>5, <3>1, <3>2, <3>3
  <2>2. ASSUME NEW i \in 1 .. Len(t)
        PROVE  t[i] \in CodestreamPositions /\ t[i] < cursor'
    <3>0. i \in 1 .. m + n
      BY <1>7
    <3>1. CASE i <= m
      <4>1. i \in 1 .. m
        BY <1>5, <3>0, <3>1
      <4>2. t[i] \in CodestreamPositions /\ t[i] \in Nat /\ t[i] < cursor
        BY <1>1, <1>6, <1>7, <4>1 DEF StreamInv
      <4>. QED BY <1>1, <4>2
    <3>2. CASE i > m
      <4>1. /\ t[i] = cursor + (i - m) - 1 /\ t[i] \in Nat
            /\ cursor <= t[i] /\ t[i] < cursor'
        BY <1>1, <1>4, <1>5, <1>7, <3>0, <3>2
      <4>. QED BY <1>1, <1>3, <4>1, CodestreamHanded
    <3>. QED BY <1>5, <3>0, <3>1, <3>2
  <2>3. ASSUME NEW x \in CodestreamPositions, x < cursor'
        PROVE  \E i \in 1 .. Len(t) : t[i] = x
    <3>0. x \in Nat
      BY <1>1, BoxStartsNat
    <3>1. CASE x < cursor
      <4>1. PICK i \in 1 .. m : codestream[i] = x
        BY <1>1, <3>1 DEF StreamInv
      <4>. QED BY <1>4, <1>5, <1>7, <4>1
    <3>2. CASE cursor <= x
      <4>. DEFINE i == m + (x - cursor) + 1
      <4>1. i \in 1 .. m + n /\ i > m /\ cursor + (i - m) - 1 = x
        BY <1>1, <1>4, <1>5, <2>3, <3>0, <3>2
      <4>. HIDE DEF i
      <4>2. t[i] = x
        BY <1>7, <4>1
      <4>. QED BY <1>7, <4>1, <4>2
    <3>. QED BY <1>1, <3>0, <3>1, <3>2
  <2>. QED BY <1>3, <1>8, <2>0, <2>1, <2>2, <2>3 DEF StreamInv
<1>11. ListInv'
  BY <1>1, <1>2, <1>3, ListKept
<1>12. OpenInv'
  BY <1>1, <1>2, <1>3 DEF OpenInv, Alive
<1>13. WholeInv'
  BY <1>3 DEF WholeInv
<1>14. JbrdInv'
  <2>1. jbrd.phase # "parsed" /\ (jbrd.phase = "absent" => jbrd = NoJbrd) /\ ~JbrdOpen'
    BY <1>1, <1>3 DEF JbrdInv, JbrdOpen
  <2>2. jbrd.phase = "finalized" =>
          \E q \in Starts' :
             /\ file'.box[q].ty = "jbrd" /\ q < cursor'
             /\ Alive' => ~(state' = "IN_AUX_BOX" /\ q = pending_header')
             /\ ~split' /\ Fits(q)' => jbrd'.brotli.out = Symbols(q, Stream(q)')
    BY <1>1, <1>2, FinalizedKept
  <2>. QED BY <1>2, <2>1, <2>2 DEF JbrdInv, NoJbrd, NoBrotli, Symbols, Fits, Stream
<1>15. ExactInv'
  BY <1>1, <1>2, ExactKept
<1>16. AcceptedInv'
  BY <1>1, <1>2, AcceptedKept
<1>17. LastInv'
  BY <1>1, <1>2, <1>3, NoMoreStays DEF LastInv, Alive
<1>. QED BY <1>1, <1>9, <1>10, <1>11, <1>12, <1>13, <1>14, <1>15, <1>16, <1>17 DEF ReaderInv

LEMMA EndReader ==
  ASSUME ReaderInv, ReaderEmit, AnnouncesEnd
  PROVE  ReaderInv'
<1>1. /\ Emit /\ file' = file /\ Inv /\ TypeOK /\ Inv' /\ SoundInv' /\ Alive /\ failed = "OK"
      /\ ShapeInv /\ OpenInv /\ JbrdInv
  BY EmitReader DEF ReaderInv
<1>2. current_box_ty' = "none" /\ last_box' = TRUE
      /\ codestream' = codestream /\ boxes' = boxes
      /\ reader_kind' = reader_kind /\ raw' = raw /\ brotli' = brotli
      /\ jbrd' = jbrd /\ failed' = failed /\ split' = split
  <2>1. event'.type = "no_more_aux_box" /\ Callback
    BY EmitReader DEF AnnouncesEnd, NoMoreEvent
  <2>. QED BY <2>1 DEF Callback, NoMoreBoxes
<1>3. /\ state = "IN_CODESTREAM" /\ state' = "IN_CODESTREAM" /\ no_more'
      /\ cursor' = cursor /\ ~Opened /\ ~Opened'
  BY DEF AnnouncesEnd, Opened
<1>4. ShapeInv'
  BY <1>1, <1>2 DEF ShapeInv, ReaderTypeOK, Starts
<1>5. StreamInv'
  BY <1>1, <1>2, <1>3, StreamKept
<1>6. ListInv'
  BY <1>1, <1>2, <1>3, ListKept
<1>7. OpenInv'
  BY <1>1, <1>2, <1>3 DEF OpenInv, Alive
<1>8. WholeInv'
  BY <1>3 DEF WholeInv
<1>9. JbrdInv'
  <2>1. jbrd.phase # "parsed" /\ (jbrd.phase = "absent" => jbrd = NoJbrd) /\ ~JbrdOpen'
    BY <1>1, <1>3 DEF JbrdInv, JbrdOpen
  <2>2. jbrd.phase = "finalized" =>
          \E q \in Starts' :
             /\ file'.box[q].ty = "jbrd" /\ q < cursor'
             /\ Alive' => ~(state' = "IN_AUX_BOX" /\ q = pending_header')
             /\ ~split' /\ Fits(q)' => jbrd'.brotli.out = Symbols(q, Stream(q)')
    BY <1>1, <1>2, FinalizedKept
  <2>. QED BY <1>2, <2>1, <2>2 DEF JbrdInv, NoJbrd, NoBrotli, Symbols, Fits, Stream
<1>10. ExactInv'
  BY <1>1, <1>2, ExactKept
<1>11. AcceptedInv'
  BY <1>1, <1>2, AcceptedKept
<1>12. LastInv'
  BY <1>3 DEF LastInv
<1>. QED BY <1>1, <1>4, <1>5, <1>6, <1>7, <1>8, <1>9, <1>10, <1>11, <1>12 DEF ReaderInv

(* The box that is open. *)
OpenBox ==
  /\ pending_header \in DOMAIN file.box /\ state = "IN_AUX_BOX"
  /\ Pending.ty \in AuxTypes \cup {"brob"} /\ CurrentType \in AuxTypes
  /\ CurrentType = InnerType(pending_header)
  /\ CurrentType = "jbrd" => Pending.ty = "jbrd"
  /\ pending_header \in AuxStarts <=> CurrentType # "jbrd"

LEMMA OpenBoxHere ==
  ASSUME Inv, status = "OK", Opened
  PROVE  OpenBox
<1>1. state = "IN_AUX_BOX" /\ ~AwaitsInnerType /\ AuxInv
  BY DEF Opened, Inv, PlaceInv
<1>2. /\ pending_header \in DOMAIN file.box
      /\ Pending.ty \in AuxTypes \cup {"brob"}
      /\ has_brotli_inner_type => Pending.ty = "brob" /\ Pending.inner \in AuxTypes \ ReservedInner
  BY <1>1 DEF AuxInv
<1>3. Pending.ty \notin {"jxlc", "jxlp"} /\ (Pending.ty = "brob" <=> has_brotli_inner_type)
  BY <1>1, <1>2, AuxAssumption DEF AwaitsInnerType
<1>4. /\ CurrentType \in AuxTypes /\ (CurrentType = "jbrd" => Pending.ty = "jbrd")
      /\ CurrentType = InnerType(pending_header)
  BY <1>2, <1>3 DEF CurrentType, ReservedInner, InnerType, Pending
<1>. QED BY <1>1, <1>2, <1>3, <1>4, AuxStartIn DEF OpenBox, Pending

LEMMA OpenBoxNext ==
  ASSUME Inv', status' = "OK", Opened'
  PROVE  OpenBox'
<1>1. state' = "IN_AUX_BOX" /\ ~AwaitsInnerType' /\ AuxInv'
  BY DEF Opened, Inv, PlaceInv
<1>2. /\ pending_header' \in DOMAIN file'.box
      /\ Pending'.ty \in AuxTypes \cup {"brob"}
      /\ has_brotli_inner_type' => Pending'.ty = "brob" /\ Pending'.inner \in AuxTypes \ ReservedInner
  BY <1>1 DEF AuxInv
<1>3. Pending'.ty \notin {"jxlc", "jxlp"} /\ (Pending'.ty = "brob" <=> has_brotli_inner_type')
  BY <1>1, <1>2, AuxAssumption DEF AwaitsInnerType
<1>4. /\ CurrentType' \in AuxTypes /\ (CurrentType' = "jbrd" => Pending'.ty = "jbrd")
      /\ CurrentType' = InnerType(pending_header)'
  BY <1>2, <1>3 DEF CurrentType, ReservedInner, InnerType, Pending
<1>. QED BY <1>1, <1>2, <1>3, <1>4 DEF OpenBox, Pending, AuxStarts, Starts

LEMMA OpensReader ==
  ASSUME ReaderInv, ReaderEmit, OpensBox
  PROVE  ReaderInv'
<1>1. /\ Emit /\ file' = file /\ Inv /\ TypeOK /\ Inv' /\ SoundInv' /\ Alive /\ failed = "OK"
      /\ ShapeInv /\ OpenInv /\ JbrdInv /\ cursor' \in Nat
  BY EmitReader DEF ReaderInv
<1>2. /\ state \in {"WAITING_BOX_HEADER", "IN_AUX_BOX"} /\ ~Opened /\ Opened'
      /\ cursor' = PayloadStart(pending_header)'
      /\ status' = "OK"
  BY DEF OpensBox
<1>3. /\ current_box_ty = "none" /\ reader_kind = "INIT" /\ raw = <<>> /\ brotli = NoBrotli
  BY <1>1, <1>2 DEF OpenInv, ShapeInv, ReaderTypeOK
<1>4. /\ OpenBox' /\ state' = "IN_AUX_BOX"
  BY <1>1, <1>2, OpenBoxNext DEF OpenBox
<1>5. /\ current_box_ty' = CurrentType'
      /\ reader_kind' = IF CurrentType' = "jbrd" THEN "INIT"
                        ELSE IF Pending'.ty = "brob" THEN "BROTLI" ELSE "RAW"
      /\ last_box' = ~Pending'.sized
      /\ codestream' = codestream /\ boxes' = boxes /\ raw' = raw /\ brotli' = brotli
      /\ jbrd' = jbrd /\ failed' = failed /\ split' = split
  <2>1. event' = StartEvent(CurrentType', Pending'.ty = "brob", ~Pending'.sized)
    BY DEF OpensBox
  <2>2. /\ event'.type = "aux_start" /\ event'.ty = CurrentType'
        /\ event'.brotli = (Pending'.ty = "brob") /\ event'.last = ~Pending'.sized
    BY <2>1, Zenon DEF StartEvent
  <2>3. BoxStart
    BY <2>2, EmitReader DEF Callback
  <2>. QED BY <1>3, <2>2, <2>3 DEF BoxStart
<1>6. ShapeInv'
  <2>1. Pending'.sized \in BOOLEAN
    <3>1. Pending'.sized = file.box[pending_header'].sized /\ pending_header' \in DOMAIN file.box
      BY <1>1, <1>4 DEF OpenBox, Pending
    <3>. QED BY <1>1, <3>1, BoxTyped
  <2>. QED BY <1>1, <1>3, <1>4, <1>5, <2>1 DEF ShapeInv, ReaderTypeOK, Starts, OpenBox
<1>7. StreamInv'
  BY <1>1, <1>2, <1>5, StreamKept
<1>8. ListInv'
  BY <1>1, <1>4, <1>5, ListKept
<1>9. OpenInv'
  <2>1. reader_kind' = "RAW" => raw' = Span(PayloadStart(pending_header)', cursor')
    <3>1. raw' = <<>>
      BY <1>3, <1>5
    <3>2. PICK c \in Nat : c = cursor'
      BY <1>1
    <3>3. Span(c, c) = <<>>
      BY DEF Span
    <3>. QED BY <1>2, <3>1, <3>2, <3>3
  <2>. QED BY <1>2, <1>5, <2>1 DEF OpenInv
<1>10. WholeInv'
  BY <1>2, <1>3, <1>5 DEF WholeInv
<1>11. JbrdInv'
  <2>1. jbrd.phase # "parsed" /\ (jbrd.phase = "absent" => jbrd = NoJbrd)
    BY <1>1, <1>2 DEF JbrdInv, JbrdOpen
  <2>2. jbrd.phase = "finalized" =>
          \E q \in Starts' :
             /\ file'.box[q].ty = "jbrd" /\ q < cursor'
             /\ Alive' => ~(state' = "IN_AUX_BOX" /\ q = pending_header')
             /\ ~split' /\ Fits(q)' => jbrd'.brotli.out = Symbols(q, Stream(q)')
    BY <1>1, <1>5, FinalizedKept
  <2>3. jbrd.phase \in {"absent", "parsed", "finalized"}
    BY <1>1 DEF ShapeInv, ReaderTypeOK
  <2>4. NoJbrd' = NoJbrd /\ NoBrotli' = NoBrotli
    BY DEF NoJbrd, NoBrotli
  <2>5. jbrd'.phase # "parsed" /\ (jbrd'.phase # "finalized" => jbrd' = NoJbrd)
    BY <1>5, <2>1, <2>3
  <2>6. cursor' = PayloadStart(pending_header)'
    BY <1>2
  <2>. QED BY <1>5, <2>2, <2>4, <2>5, <2>6 DEF JbrdInv, Symbols
<1>12. ExactInv'
  BY <1>1, <1>5, ExactKept
<1>13. AcceptedInv'
  BY <1>1, <1>5, AcceptedKept
<1>14. LastInv'
  BY <1>2, <1>5 DEF LastInv
<1>. QED BY <1>1, <1>6, <1>7, <1>8, <1>9, <1>10, <1>11, <1>12, <1>13, <1>14 DEF ReaderInv

(* Payload of the open box. *)
DataFacts ==
  /\ Emit /\ file' = file /\ Inv /\ TypeOK /\ Inv' /\ SoundInv' /\ Alive /\ failed = "OK"
  /\ ShapeInv /\ OpenInv /\ WholeInv /\ JbrdInv /\ LastInv /\ ListInv /\ AcceptedInv
  /\ Opened /\ Opened' /\ OpenBox /\ state' = "IN_AUX_BOX" /\ status' = "OK"
  /\ pending_header' = pending_header /\ Pending' = Pending /\ CurrentType' = CurrentType
  /\ PayloadStart(pending_header)' = PayloadStart(pending_header)
  /\ PayloadEnd(pending_header)' = PayloadEnd(pending_header)
  /\ cursor \in Nat /\ cursor' \in Nat /\ cursor < cursor'
  /\ PayloadStart(pending_header) \in Nat /\ PayloadEnd(pending_header) \in Nat
  /\ PayloadStart(pending_header) <= cursor /\ cursor' <= PayloadEnd(pending_header)
  /\ current_box_ty' = CurrentType
  /\ split' = (split \/ ((reader_kind = "BROTLI" \/ CurrentType = "jbrd") /\
                ~(cursor = PayloadStart(pending_header) /\ cursor' = PayloadEnd(pending_header))))
  /\ codestream' = codestream /\ boxes' = boxes /\ last_box' = last_box

LEMMA DataReader ==
  ASSUME ReaderInv, ReaderEmit, HandsData
  PROVE  /\ DataFacts
         /\ CurrentType = "jbrd" =>
              JbrdFeed(cursor' - cursor) /\ UNCHANGED <<reader_kind, raw, brotli>>
         /\ CurrentType # "jbrd" =>
              /\ jbrd' = jbrd
              /\ reader_kind = "RAW" =>
                   /\ raw' = raw \o Span(cursor, cursor') /\ reader_kind' = "RAW"
                   /\ brotli' = brotli /\ failed' = failed
              /\ reader_kind = "BROTLI" =>
                   /\ reader_kind' = "BROTLI" /\ raw' = raw
                   /\ ~BrotliRefuses(brotli, pending_header, cursor' - cursor) =>
                        /\ brotli' = BrotliFeed(brotli, pending_header, cursor' - cursor)
                        /\ failed' = failed
                   /\ BrotliRefuses(brotli, pending_header, cursor' - cursor) =>
                        brotli' = brotli /\ failed' = "VALIDATION_FAILED"
<1>1. /\ Emit /\ file' = file /\ Inv /\ TypeOK /\ Inv' /\ SoundInv' /\ Alive /\ failed = "OK"
      /\ ShapeInv /\ OpenInv /\ WholeInv /\ JbrdInv /\ LastInv /\ ListInv /\ AcceptedInv
      /\ cursor \in Nat /\ cursor' \in Nat /\ status = "OK"
  BY EmitReader DEF ReaderInv
<1>2. /\ event' = DataEvent(CurrentType, cursor, cursor')
      /\ Opened /\ Opened' /\ pending_header' = pending_header /\ CurrentType' = CurrentType
      /\ PayloadStart(pending_header) <= cursor /\ cursor < cursor'
      /\ cursor' <= PayloadEnd(pending_header) /\ status' = "OK"
  BY DEF HandsData
<1>3. OpenBox
  BY <1>1, <1>2, OpenBoxHere
<1>4. /\ event'.type = "aux_data" /\ event'.ty = CurrentType
      /\ event'.from = cursor /\ event'.to = cursor'
  BY <1>2 DEF DataEvent
<1>5. BoxData
  BY <1>4, EmitReader DEF Callback
<1>6. DataFacts
  <2>1. /\ PayloadStart(pending_header) \in Nat /\ PayloadEnd(pending_header) \in Nat
    BY <1>1, <1>3, PayloadTyped DEF OpenBox
  <2>2. /\ Pending' = Pending
        /\ PayloadStart(pending_header)' = PayloadStart(pending_header)
        /\ PayloadEnd(pending_header)' = PayloadEnd(pending_header)
    BY <1>1, <1>2 DEF Pending, PayloadStart, PayloadEnd
  <2>3. state' = "IN_AUX_BOX"
    BY <1>2 DEF Opened
  <2>4. /\ current_box_ty' = CurrentType
        /\ split' = (split \/ ((reader_kind = "BROTLI" \/ CurrentType = "jbrd") /\
             ~(cursor = PayloadStart(pending_header) /\ cursor' = PayloadEnd(pending_header))))
        /\ codestream' = codestream /\ boxes' = boxes /\ last_box' = last_box
    BY <1>4, <1>5, Zenon DEF BoxData, Whole
  <2>. QED BY <1>1, <1>2, <1>3, <2>1, <2>2, <2>3, <2>4 DEF DataFacts
<1>7. CurrentType = "jbrd" =>
              JbrdFeed(cursor' - cursor) /\ UNCHANGED <<reader_kind, raw, brotli>>
  BY <1>4, <1>5, Zenon DEF BoxData
<1>8. ASSUME CurrentType # "jbrd"
      PROVE  /\ jbrd' = jbrd
             /\ reader_kind = "RAW" =>
                   /\ raw' = raw \o Span(cursor, cursor') /\ reader_kind' = "RAW"
                   /\ brotli' = brotli /\ failed' = failed
             /\ reader_kind = "BROTLI" =>
                   /\ reader_kind' = "BROTLI" /\ raw' = raw
                   /\ ~BrotliRefuses(brotli, pending_header, cursor' - cursor) =>
                        /\ brotli' = BrotliFeed(brotli, pending_header, cursor' - cursor)
                        /\ failed' = failed
                   /\ BrotliRefuses(brotli, pending_header, cursor' - cursor) =>
                        brotli' = brotli /\ failed' = "VALIDATION_FAILED"
  BY <1>4, <1>5, <1>8 DEF BoxData
<1>. QED BY <1>6, <1>7, <1>8

(* What the two kinds of boxes have in common. *)
LEMMA DataKept ==
  ASSUME ReaderInv, DataFacts
  PROVE  /\ StreamInv' /\ ListInv' /\ ExactInv' /\ LastInv'
         /\ split' \in BOOLEAN /\ (split => split')
<1>1. split \in BOOLEAN
  BY DEF DataFacts, ShapeInv, ReaderTypeOK
<1>2. split' \in BOOLEAN /\ (split => split')
  BY <1>1 DEF DataFacts
<1>3. StreamInv'
  BY StreamKept DEF DataFacts, OpenBox
<1>4. ListInv'
  BY ListKept DEF DataFacts
<1>5. ExactInv'
  BY <1>2, ExactKept DEF DataFacts
<1>6. LastInv'
  BY DEF DataFacts, LastInv, Alive, Opened
<1>. QED BY <1>2, <1>3, <1>4, <1>5, <1>6

(* The payload and the stream of the open box have lengths. *)
LEMMA OpenTyped ==
  ASSUME DataFacts
  PROVE  PayloadLen(pending_header) \in Nat /\ Stream(pending_header) \in Nat
<1>1. file.box[pending_header] \in Box
  BY FilesAssumption DEF DataFacts, TypeOK, File, OpenBox
<1>2. Stream(pending_header) \in Nat
  BY <1>1 DEF Box, Stream
<1>3. PICK a \in Nat, b \in Nat, c \in Nat, d \in Nat :
        /\ a = PayloadStart(pending_header) /\ b = PayloadEnd(pending_header)
        /\ c = cursor /\ d = cursor'
  BY DEF DataFacts
<1>4. a <= c /\ c < d /\ d <= b
  BY <1>3 DEF DataFacts
<1>5. b - a \in Nat
  BY <1>4
<1>. QED BY <1>2, <1>3, <1>5 DEF PayloadLen

LEMMA PlainDataReader ==
  ASSUME ReaderInv, ReaderEmit, HandsData, CurrentType # "jbrd"
  PROVE  ReaderInv'
<1>1. DataFacts
  BY DataReader
<1>2. /\ jbrd' = jbrd
      /\ reader_kind = "RAW" =>
           /\ raw' = raw \o Span(cursor, cursor') /\ reader_kind' = "RAW"
           /\ brotli' = brotli /\ failed' = failed
      /\ reader_kind = "BROTLI" =>
           /\ reader_kind' = "BROTLI" /\ raw' = raw
           /\ ~BrotliRefuses(brotli, pending_header, cursor' - cursor) =>
                /\ brotli' = BrotliFeed(brotli, pending_header, cursor' - cursor)
                /\ failed' = failed
           /\ BrotliRefuses(brotli, pending_header, cursor' - cursor) =>
                brotli' = brotli /\ failed' = "VALIDATION_FAILED"
  BY DataReader
<1>3. StreamInv' /\ ListInv' /\ ExactInv' /\ LastInv' /\ split' \in BOOLEAN /\ (split => split')
  BY <1>1, DataKept
<1>4. /\ reader_kind = IF Pending.ty = "brob" THEN "BROTLI" ELSE "RAW"
      /\ reader_kind = "RAW" => raw = Span(PayloadStart(pending_header), cursor)
      /\ reader_kind' = reader_kind
      /\ failed' \in {"OK", "VALIDATION_FAILED"}
  BY <1>1, <1>2 DEF DataFacts, OpenInv
<1>5. ShapeInv'
  <2>1. /\ \A i \in DOMAIN boxes : boxes[i].ty \in AuxTypes /\ boxes[i].at \in Starts
        /\ codestream \in Seq(0 .. file.len) /\ last_box \in BOOLEAN
        /\ jbrd.phase \in {"absent", "parsed", "finalized"}
        /\ (brotli # NoBrotli => reader_kind = "BROTLI") /\ (raw # <<>> => reader_kind = "RAW")
    BY <1>1 DEF DataFacts, ShapeInv, ReaderTypeOK
  <2>2. NoBrotli' = NoBrotli /\ Starts' = Starts
    BY <1>1 DEF NoBrotli, Starts, DataFacts
  <2>3. (brotli' # NoBrotli' => reader_kind' = "BROTLI") /\ (raw' # <<>> => reader_kind' = "RAW")
    BY <1>2, <1>4, <2>1, <2>2
  <2>4. current_box_ty' \in AuxTypes \cup {"none"} /\ reader_kind' \in {"INIT", "RAW", "BROTLI"}
    BY <1>1, <1>4 DEF DataFacts, OpenBox
  <2>5. ReaderTypeOK'
    BY <1>1, <1>2, <1>3, <1>4, <2>1, <2>2, <2>3, <2>4 DEF DataFacts, ReaderTypeOK
  <2>. QED BY <1>1, <1>2, <2>5 DEF ShapeInv, DataFacts
<1>6. OpenInv'
  <2>1. ASSUME reader_kind = "RAW"
        PROVE  raw' = Span(PayloadStart(pending_header), cursor')
    <3>1. raw' = Span(PayloadStart(pending_header), cursor) \o Span(cursor, cursor')
      BY <1>2, <1>4, <2>1
    <3>2. PICK a \in Nat, b \in Nat, c \in Nat :
            a = PayloadStart(pending_header) /\ b = cursor /\ c = cursor'
      BY <1>1 DEF DataFacts
    <3>3. a <= b /\ b <= c
      <4>1. PayloadStart(pending_header) <= cursor /\ cursor < cursor'
        BY <1>1 DEF DataFacts
      <4>. QED BY <3>2, <4>1
    <3>4. Span(a, b) \o Span(b, c) = Span(a, c)
      BY <3>3, SpanConcat
    <3>. QED BY <3>1, <3>2, <3>4
  <2>2. reader_kind' = "RAW" => raw' = Span(PayloadStart(pending_header)', cursor')
    BY <1>1, <1>4, <2>1 DEF DataFacts
  <2>. QED BY <1>1, <1>4, <2>2 DEF OpenInv, DataFacts
<1>7. ASSUME reader_kind = "BROTLI", ~split'
      PROVE  /\ cursor' = PayloadEnd(pending_header) /\ brotli = NoBrotli
             /\ failed' = "OK" => Done(brotli', pending_header, PayloadLen(pending_header))
  <2>1. cursor = PayloadStart(pending_header) /\ cursor' = PayloadEnd(pending_header) /\ ~split
    BY <1>1, <1>3, <1>7 DEF DataFacts
  <2>2. brotli = NoBrotli
    BY <1>1, <1>7, <2>1 DEF DataFacts, WholeInv
  <2>3. ASSUME failed' = "OK"
        PROVE  brotli' = BrotliFeed(NoBrotli, pending_header, PayloadLen(pending_header))
    BY <1>1, <1>2, <1>7, <2>1, <2>2, <2>3 DEF DataFacts, PayloadLen
  <2>4. PayloadLen(pending_header) \in Nat /\ Stream(pending_header) \in Nat
    BY <1>1, <2>1, OpenTyped DEF DataFacts
  <2>. QED BY <2>1, <2>2, <2>3, <2>4, BrotliWhole
<1>8. WholeInv'
  <2>1. ASSUME ~split', reader_kind = "BROTLI", Alive'
        PROVE  /\ cursor' = PayloadEnd(pending_header)'
               /\ Done(brotli, pending_header, PayloadLen(pending_header))'
    <3>1. failed' = "OK"
      BY <2>1 DEF Alive
    <3>. QED BY <1>1, <1>7, <2>1, <3>1 DEF DataFacts, PayloadLen, Done, Fits, Stream, Symbols, Inflated
  <2>. QED BY <1>4, <2>1 DEF WholeInv
<1>9. JbrdInv'
  <2>1. jbrd.phase # "parsed" /\ (jbrd.phase = "absent" => jbrd = NoJbrd) /\ ~JbrdOpen'
    BY <1>1 DEF JbrdInv, JbrdOpen, DataFacts
  <2>2. jbrd.phase = "finalized" =>
          \E q \in Starts' :
             /\ file'.box[q].ty = "jbrd" /\ q < cursor'
             /\ Alive' => ~(state' = "IN_AUX_BOX" /\ q = pending_header')
             /\ ~split' /\ Fits(q)' => jbrd'.brotli.out = Symbols(q, Stream(q)')
    BY <1>1, <1>2, <1>3, FinalizedKept DEF DataFacts
  <2>. QED BY <1>2, <2>1, <2>2 DEF JbrdInv, NoJbrd, NoBrotli, Symbols, Fits, Stream
<1>10. AcceptedInv'
  <2>1. ASSUME AuxSound, ~split'
        PROVE  failed' = "OK"
    <3>1. CASE reader_kind = "BROTLI"
      <4>1. brotli = NoBrotli
        BY <1>7, <2>1, <3>1
      <4>2. ~BrotliRefuses(NoBrotli, pending_header, cursor' - cursor)
        BY <1>1, <1>4, <2>1, <3>1, SoundNotRefused DEF DataFacts, Pending, OpenBox
      <4>. QED BY <1>1, <1>2, <3>1, <4>1, <4>2 DEF DataFacts
    <3>2. CASE reader_kind # "BROTLI"
      BY <1>1, <1>2, <1>4, <3>2 DEF DataFacts
    <3>. QED BY <3>1, <3>2
  <2>2. AuxSound' = AuxSound
    BY <1>1, FileKept DEF DataFacts
  <2>. QED BY <1>1, <2>1, <2>2 DEF AcceptedInv, DataFacts
<1>. QED BY <1>1, <1>3, <1>5, <1>6, <1>8, <1>9, <1>10 DEF ReaderInv, DataFacts

(* A finalized jbrd box is another one than the open one. *)
LEMMA TwoJbrdBoxes ==
  ASSUME ReaderInv, Alive, Opened, OpenBox, CurrentType = "jbrd",
         jbrd.phase = "finalized", AuxSound
  PROVE  FALSE
<1>1. PICK q \in Starts : file.box[q].ty = "jbrd" /\ ~(state = "IN_AUX_BOX" /\ q = pending_header)
  BY DEF ReaderInv, JbrdInv
<1>2. /\ pending_header \in Starts /\ file.box[pending_header].ty = "jbrd"
      /\ q # pending_header
  BY <1>1 DEF OpenBox, Pending, Starts
<1>. QED BY <1>1, <1>2 DEF AuxSound

LEMMA JbrdDataReader ==
  ASSUME ReaderInv, ReaderEmit, HandsData, CurrentType = "jbrd"
  PROVE  ReaderInv'
<1>1. DataFacts /\ reader_kind' = reader_kind /\ raw' = raw /\ brotli' = brotli
  BY DataReader
<1>. DEFINE n == cursor' - cursor
            p == pending_header
<1>2. JbrdFeed(n)
  BY DataReader
<1>3. StreamInv' /\ ListInv' /\ ExactInv' /\ LastInv' /\ split' \in BOOLEAN /\ (split => split')
  BY <1>1, DataKept
<1>4. /\ reader_kind = "INIT"
      /\ jbrd = [phase |-> jbrd.phase, staged |-> jbrd.staged, brotli |-> jbrd.brotli]
      /\ jbrd.staged \in Nat /\ jbrd.phase \in {"absent", "parsed", "finalized"}
      /\ n \in Nat /\ JbrHeaderLen \in Nat
  BY <1>1, JbrAssumption DEF DataFacts, OpenInv, ShapeInv, ReaderTypeOK
<1>5. ASSUME ~split'
      PROVE  /\ ~split /\ cursor = PayloadStart(p) /\ cursor' = PayloadEnd(p)
             /\ n = PayloadLen(p)
             /\ jbrd.phase # "finalized" => jbrd = NoJbrd
  <2>1. ~split /\ cursor = PayloadStart(p) /\ cursor' = PayloadEnd(p)
    BY <1>1, <1>3, <1>5 DEF DataFacts
  <2>2. n = PayloadLen(p)
    BY <2>1 DEF PayloadLen
  <2>3. jbrd.phase # "finalized" => jbrd = NoJbrd
    <3>1. ~(cursor = PayloadEnd(p))
      <4>1. cursor < cursor' /\ cursor \in Nat /\ cursor' \in Nat
        BY <1>1 DEF DataFacts
      <4>. QED BY <2>1, <4>1
    <3>. QED BY <1>1, <2>1, <3>1 DEF DataFacts, JbrdInv, JbrdOpen
  <2>. QED BY <2>1, <2>2, <2>3
<1>. HIDE DEF n, p
<1>6. CASE jbrd.phase = "finalized"
  <2>1. jbrd' = jbrd /\ failed' = "VALIDATION_FAILED"
    BY <1>2, <1>6 DEF JbrdFeed
  <2>2. AcceptedInv'
    <3>1. ~(AuxSound)
      BY <1>1, <1>6, TwoJbrdBoxes DEF DataFacts
    <3>2. AuxSound' = AuxSound
      BY <1>1, FileKept DEF DataFacts
    <3>. QED BY <3>1, <3>2 DEF AcceptedInv
  <2>3. JbrdInv'
    <3>1. ~Alive'
      BY <2>1 DEF Alive
    <3>2. \E q \in Starts' :
             /\ file'.box[q].ty = "jbrd" /\ q < cursor'
             /\ Alive' => ~(state' = "IN_AUX_BOX" /\ q = pending_header')
             /\ ~split' /\ Fits(q)' => jbrd'.brotli.out = Symbols(q, Stream(q)')
      BY <1>1, <1>3, <1>6, <2>1, FinalizedKept DEF DataFacts
    <3>. QED BY <3>1, <3>2 DEF JbrdInv, Symbols
  <2>4. OpenInv' /\ WholeInv' /\ LastInv'
    BY <2>1 DEF OpenInv, WholeInv, LastInv, Alive
  <2>5. ShapeInv'
    <3>1. NoBrotli' = NoBrotli /\ Starts' = Starts
      BY <1>1 DEF NoBrotli, Starts, DataFacts
    <3>. QED BY <1>1, <1>3, <1>4, <2>1, <3>1 DEF ShapeInv, ReaderTypeOK, DataFacts, OpenBox
  <2>. QED BY <1>1, <1>3, <2>2, <2>3, <2>4, <2>5 DEF ReaderInv, DataFacts
<1>7. CASE jbrd.phase # "finalized"
  <2>. DEFINE behind == jbrd.staged + n - JbrHeaderLen
  <2>1. /\ failed' \in {"OK", "VALIDATION_FAILED"}
        /\ jbrd' = [phase |-> jbrd'.phase, staged |-> jbrd'.staged, brotli |-> jbrd'.brotli]
        /\ jbrd'.phase \in {"absent", "parsed"} /\ jbrd'.staged \in Nat
        /\ failed' # failed => \/ jbrd.phase = "absent" /\ BrotliRefuses(NoBrotli, p, behind)
                              \/ jbrd.phase = "parsed"
    <3>0. failed = "OK" /\ p = pending_header
      BY <1>1 DEF DataFacts, p
    <3>1. CASE jbrd.phase = "parsed"
      <4>1. \/ jbrd' = jbrd /\ failed' = failed
            \/ jbrd' = [jbrd EXCEPT !.brotli = BrotliFeed(@, pending_header, n)] /\ failed' = failed
            \/ failed' = "VALIDATION_FAILED" /\ jbrd' = jbrd
        BY <1>2, <3>1 DEF JbrdFeed
      <4>2. [jbrd EXCEPT !.brotli = BrotliFeed(@, pending_header, n)] =
              [phase |-> jbrd.phase, staged |-> jbrd.staged,
               brotli |-> BrotliFeed(jbrd.brotli, pending_header, n)]
        BY <1>4
      <4>. QED BY <1>4, <3>0, <3>1, <4>1, <4>2
    <3>2. CASE jbrd.phase = "absent"
      <4>1. \/ jbrd' = [jbrd EXCEPT !.staged = jbrd.staged + n] /\ failed' = failed
            \/ /\ jbrd' = [jbrd EXCEPT !.staged = jbrd.staged + n]
               /\ failed' = "VALIDATION_FAILED" /\ BrotliRefuses(NoBrotli, p, behind)
            \/ /\ jbrd' = [phase |-> "parsed", staged |-> 0, brotli |-> NoBrotli]
               /\ failed' = failed
            \/ /\ jbrd' = [phase |-> "parsed", staged |-> 0,
                           brotli |-> BrotliFeed(NoBrotli, pending_header, behind)]
               /\ failed' = failed
        <5>1. behind < 0 \/ behind = 0 \/ behind > 0
          BY <1>4
        <5>2. CASE behind < 0
          BY <1>2, <1>4, <3>2, <5>2 DEF JbrdFeed
        <5>3. CASE behind = 0
          BY <1>2, <1>4, <3>2, <5>3 DEF JbrdFeed
        <5>4. CASE behind > 0 /\ BrotliRefuses(NoBrotli, pending_header, behind)
          BY <1>2, <1>4, <3>0, <3>2, <5>4 DEF JbrdFeed
        <5>5. CASE behind > 0 /\ ~BrotliRefuses(NoBrotli, pending_header, behind)
          BY <1>2, <1>4, <3>2, <5>5 DEF JbrdFeed
        <5>. QED BY <5>1, <5>2, <5>3, <5>4, <5>5
      <4>2. [jbrd EXCEPT !.staged = jbrd.staged + n] =
              [phase |-> jbrd.phase, staged |-> jbrd.staged + n, brotli |-> jbrd.brotli]
        BY <1>4
      <4>. HIDE DEF behind
      <4>. QED BY <1>4, <3>0, <3>2, <4>1, <4>2
    <3>. QED BY <1>4, <1>7, <3>1, <3>2
  <2>2. ASSUME ~split' 
        PROVE  /\ jbrd = NoJbrd /\ jbrd.phase = "absent" /\ jbrd.staged + n = n
               /\ failed' = "OK" =>
                    IF n < JbrHeaderLen THEN jbrd' = JbrdStaged(n)
                    ELSE jbrd'.phase = "parsed" /\ Done(jbrd'.brotli, p, n - JbrHeaderLen)
    <3>1. jbrd = NoJbrd /\ n = PayloadLen(p)
      BY <1>5, <1>7, <2>2
    <3>2. jbrd.phase = "absent" /\ jbrd.staged = 0 /\ jbrd.brotli = NoBrotli /\ jbrd.staged + n = n
      BY <1>4, <3>1 DEF NoJbrd
    <3>3. CASE n < JbrHeaderLen
      <4>1. jbrd' = [jbrd EXCEPT !.staged = n]
        BY <1>2, <1>4, <3>2, <3>3 DEF JbrdFeed
      <4>2. [jbrd EXCEPT !.staged = n] = [phase |-> "absent", staged |-> n, brotli |-> NoBrotli]
        BY <3>1 DEF NoJbrd
      <4>. QED BY <3>1, <3>2, <3>3, <4>1, <4>2 DEF JbrdStaged
    <3>4. CASE ~(n < JbrHeaderLen)
      <4>1. failed' = "OK" =>
              jbrd' = [phase |-> "parsed", staged |-> 0,
                     brotli |-> IF n = JbrHeaderLen THEN NoBrotli
                                ELSE BrotliFeed(NoBrotli, p, n - JbrHeaderLen)]
        <5>1. n = JbrHeaderLen \/ n > JbrHeaderLen
          BY <1>4, <3>4
        <5>2. CASE n = JbrHeaderLen
          BY <1>2, <1>4, <3>2, <5>2 DEF JbrdFeed, p
        <5>3. CASE n > JbrHeaderLen
          <6>1. n - JbrHeaderLen > 0 /\ n # JbrHeaderLen
            BY <1>4, <5>3
          <6>. QED BY <1>2, <1>4, <3>2, <6>1 DEF JbrdFeed, p
        <5>. QED BY <5>1, <5>2, <5>3
      <4>. DEFINE k == n - JbrHeaderLen
      <4>2. k \in Nat /\ (n = JbrHeaderLen => k = 0)
        BY <1>4, <3>4
      <4>. HIDE DEF k
      <4>3. Done(BrotliFeed(NoBrotli, p, k), p, k) /\ Done(NoBrotli, p, 0)
        BY <1>1, <4>2, OpenTyped, BrotliWhole DEF p
      <4>4. failed' = "OK" => Done(jbrd'.brotli, p, k)
        BY <4>1, <4>2, <4>3 DEF k
      <4>. QED BY <3>1, <3>2, <3>4, <4>1, <4>4 DEF k
    <3>. QED BY <3>3, <3>4
  <2>3. AcceptedInv'
    <3>1. ASSUME AuxSound, ~split' PROVE failed' = failed
      <4>1. jbrd.phase = "absent"
        BY <2>2, <3>1
      <4>2. ~BrotliRefuses(NoBrotli, p, behind)
        <5>1. behind \in Int
          BY <1>4
        <5>. HIDE DEF behind
        <5>2. p \in DOMAIN file.box /\ file.box[p].ty = "jbrd" /\ TypeOK
          BY <1>1 DEF DataFacts, OpenBox, Pending, p
        <5>. QED BY <3>1, <5>1, <5>2, SoundNotRefused
      <4>. QED BY <2>1, <4>1, <4>2
    <3>2. AuxSound' = AuxSound /\ failed = "OK"
      BY <1>1, FileKept DEF DataFacts
    <3>. QED BY <3>1, <3>2 DEF AcceptedInv
  <2>4. JbrdInv'
    <3>1. ASSUME ~split', failed' = "OK" PROVE JbrdFed(pending_header)'
      <4>1. IF n < JbrHeaderLen THEN jbrd' = JbrdStaged(n)
            ELSE jbrd'.phase = "parsed" /\ Done(jbrd'.brotli, p, n - JbrHeaderLen)
        BY <2>2, <3>1
      <4>2. PICK m, q : m = n /\ q = p
        OBVIOUS
      <4>3. PayloadLen(pending_header)' = m /\ pending_header' = q
        BY <1>1, <1>5, <3>1, <4>2 DEF DataFacts, PayloadLen, p
      <4>4. Done(jbrd'.brotli, q, m - JbrHeaderLen) => Done(jbrd.brotli, q, m - JbrHeaderLen)'
        BY <1>1 DEF Done, Fits, Stream, Symbols, Inflated, DataFacts
      <4>5. Done(jbrd.brotli, q, m - JbrHeaderLen)' =>
              Done(jbrd.brotli, pending_header, PayloadLen(pending_header) - JbrHeaderLen)'
        BY <4>3 DEF Done, Fits, Stream, Symbols, Inflated
      <4>6. JbrdStaged(PayloadLen(pending_header))' = JbrdStaged(m)
        BY <4>3 DEF JbrdStaged, NoBrotli
      <4>. QED BY <4>1, <4>2, <4>3, <4>4, <4>5, <4>6 DEF JbrdFed
    <3>2. JbrdOpen'
      BY <1>1 DEF DataFacts, JbrdOpen
    <3>3. ~split' /\ Alive' =>
             cursor' = PayloadEnd(pending_header)' /\ JbrdFed(pending_header)'
      BY <1>1, <1>5, <2>2, <3>1 DEF DataFacts, p, Alive
    <3>. QED BY <2>1, <3>2, <3>3 DEF JbrdInv
  <2>5. OpenInv'
    BY <1>1, <1>4 DEF OpenInv, DataFacts
  <2>6. WholeInv'
    BY <1>1, <1>4 DEF WholeInv
  <2>7. ShapeInv'
    <3>1. NoBrotli' = NoBrotli /\ Starts' = Starts
      BY <1>1 DEF NoBrotli, Starts, DataFacts
    <3>. QED BY <1>1, <1>3, <1>4, <2>1, <3>1 DEF ShapeInv, ReaderTypeOK, DataFacts, OpenBox
  <2>. QED BY <1>1, <1>3, <2>3, <2>4, <2>5, <2>6, <2>7 DEF ReaderInv, DataFacts
<1>. QED BY <1>6, <1>7

(* The end of the open box. *)
EndFacts ==
  /\ Emit /\ file' = file /\ Inv /\ TypeOK /\ Inv' /\ SoundInv' /\ Alive /\ failed = "OK"
  /\ ShapeInv /\ OpenInv /\ WholeInv /\ JbrdInv /\ LastInv /\ ListInv /\ AcceptedInv
  /\ ExactInv
  /\ Opened /\ ~Opened' /\ OpenBox /\ Pending.sized /\ state' = "WAITING_BOX_HEADER"
  /\ cursor \in Nat /\ cursor' = cursor
  /\ PayloadStart(pending_header) \in Nat /\ PayloadEnd(pending_header) \in Nat
  /\ pending_header \in Nat /\ pending_header < cursor
  /\ cursor = PayloadEnd(pending_header) /\ PayloadStart(pending_header) <= cursor
  /\ last_box = FALSE /\ current_box_ty = CurrentType
  /\ codestream' = codestream /\ last_box' = last_box /\ split' = split

LEMMA EndBoxReader ==
  ASSUME ReaderInv, ReaderEmit, ClosesBox
  PROVE  /\ EndFacts
         /\ IF CurrentType = "jbrd" THEN FinalizeJbrd ELSE FinalizeBox
         /\ event'.ty = CurrentType
<1>1. /\ Emit /\ file' = file /\ Inv /\ TypeOK /\ Inv' /\ SoundInv' /\ Alive /\ failed = "OK"
      /\ ShapeInv /\ OpenInv /\ WholeInv /\ JbrdInv /\ LastInv /\ ListInv /\ AcceptedInv
      /\ ExactInv /\ cursor \in Nat /\ status = "OK"
  BY EmitReader DEF ReaderInv
<1>2. /\ event' = EndEvent(CurrentType)
      /\ Opened /\ Pending.sized /\ state' = "WAITING_BOX_HEADER"
      /\ cursor = PayloadEnd(pending_header) /\ PayloadStart(pending_header) <= cursor
      /\ cursor' = cursor /\ status' = "OK"
  BY DEF ClosesBox
<1>3. OpenBox
  BY <1>1, <1>2, OpenBoxHere
<1>4. event'.type = "aux_end" /\ event'.ty = CurrentType
  BY <1>2 DEF EndEvent
<1>5. BoxEnd
  BY <1>4, EmitReader DEF Callback
<1>6. /\ PayloadStart(pending_header) \in Nat /\ PayloadEnd(pending_header) \in Nat
      /\ pending_header < PayloadStart(pending_header) /\ pending_header \in Nat
  BY <1>1, <1>3, PayloadTyped, BoxTyped DEF OpenBox
<1>7. last_box = FALSE /\ current_box_ty = CurrentType
  BY <1>1, <1>2, <1>3 DEF LastInv, OpenBox, ShapeInv, ReaderTypeOK, OpenInv
<1>8. codestream' = codestream /\ last_box' = last_box /\ split' = split
  BY <1>5 DEF BoxEnd
<1>9. pending_header < cursor
  BY <1>1, <1>2, <1>6
<1>10. EndFacts
  BY <1>1, <1>2, <1>3, <1>6, <1>7, <1>8, <1>9 DEF EndFacts, Opened
<1>. QED BY <1>4, <1>5, <1>10, Zenon DEF BoxEnd

LEMMA EndKept ==
  ASSUME ReaderInv, EndFacts
  PROVE  StreamInv' /\ WholeInv' /\ LastInv' /\ ~JbrdOpen'
<1>1. StreamInv'
  BY StreamKept DEF EndFacts
<1>. QED BY <1>1 DEF EndFacts, WholeInv, LastInv, JbrdOpen, Opened

LEMMA JbrdEndReader ==
  ASSUME ReaderInv, ReaderEmit, ClosesBox, CurrentType = "jbrd"
  PROVE  ReaderInv'
<1>. DEFINE p == pending_header
            n == PayloadLen(p)
<1>1. EndFacts /\ FinalizeJbrd /\ event'.ty = CurrentType
  BY EndBoxReader
<1>2. StreamInv' /\ WholeInv' /\ LastInv' /\ ~JbrdOpen'
  BY <1>1, EndKept
<1>3. /\ boxes' = boxes /\ reader_kind' = reader_kind /\ raw' = raw /\ brotli' = brotli
      /\ reader_kind = "INIT"
  BY <1>1 DEF FinalizeJbrd, EndFacts, OpenInv
<1>4. /\ p \in DOMAIN file.box /\ file.box[p].ty = "jbrd" /\ p \in Starts
      /\ pending_header \notin AuxStarts
      /\ Stream(p) \in Nat /\ file.box[p].sized /\ file.box[p].size \in Nat /\ p \in Nat
      /\ file.box[p].hdr \in Nat
  <2>1. p \in DOMAIN file.box /\ file.box[p].ty = "jbrd" /\ pending_header \notin AuxStarts
        /\ file.box[p].sized
    BY <1>1 DEF EndFacts, OpenBox, Pending
  <2>2. file \in Files
    BY <1>1 DEF EndFacts, TypeOK
  <2>3. file.box[p] \in Box
    BY <2>1, <2>2, FilesAssumption DEF File
  <2>. QED BY <1>1, <2>1, <2>3 DEF Box, Stream, Starts, EndFacts
<1>5. n \in Nat /\ n = file.box[p].size
  <2>1. n = p + file.box[p].hdr + file.box[p].size - (p + file.box[p].hdr + 0)
    BY <1>4 DEF PayloadLen, PayloadStart, PayloadEnd
  <2>. QED BY <1>4, <2>1
<1>6. JbrHeaderLen \in Nat
  BY JbrAssumption
<1>7. ASSUME ~split, jbrd.phase # "finalized"
      PROVE  \/ n = 0 /\ jbrd = NoJbrd
             \/ JbrdFed(p)
  BY <1>1, <1>7 DEF EndFacts, JbrdInv, JbrdOpen, PayloadLen
<1>8. StreamInv' /\ ListInv' /\ ExactInv'
  BY <1>1, <1>2, <1>3, <1>4, ListKept, ExactKept DEF EndFacts
<1>9. CASE JbrdComplete
  <2>. DEFINE done == BrotliFinish(jbrd.brotli, p)
  <2>1. /\ jbrd' = [jbrd EXCEPT !.phase = "finalized", !.brotli = done]
        /\ current_box_ty' = "none" /\ failed' = failed
    BY <1>1, <1>9 DEF FinalizeJbrd, JbrdFinished
  <2>2. jbrd.phase = "parsed" /\ Len(done.out) = 2 * Stream(p)
    BY <1>9 DEF JbrdComplete, JbrdFinished, Inflated
  <2>. HIDE DEF done
  <2>3. jbrd' = [phase |-> "finalized", staged |-> jbrd.staged, brotli |-> done]
        /\ jbrd.staged \in Nat
    <3>1. jbrd = [phase |-> jbrd.phase, staged |-> jbrd.staged, brotli |-> jbrd.brotli]
          /\ jbrd.staged \in Nat
      BY <1>1 DEF EndFacts, ShapeInv
    <3>. QED BY <2>1, <3>1
  <2>4. ASSUME ~split, Fits(p) PROVE done.out = Symbols(p, Stream(p))
    <3>. DEFINE k == n - JbrHeaderLen
    <3>1. ~(n < JbrHeaderLen) /\ Done(jbrd.brotli, p, k)
      <4>1. JbrdStaged(n).phase = "absent" /\ NoJbrd.phase = "absent"
        BY DEF JbrdStaged, NoJbrd
      <4>. QED BY <1>7, <2>2, <2>4, <4>1 DEF JbrdFed
    <3>2. k \in Nat
      BY <1>5, <1>6, <3>1
    <3>. HIDE DEF k
    <3>3. done.out = Symbols(p, Least(Stream(p), k))
      BY <2>4, <3>1, BrotliIdle DEF done, Done
    <3>4. Least(Stream(p), k) \in Nat
      BY <1>4, <3>2 DEF Least
    <3>5. Least(Stream(p), k) = Stream(p)
      BY <1>4, <2>2, <3>3, <3>4, SymbolsLen
    <3>. QED BY <3>3, <3>5
  <2>5. JbrdInv'
    <3>1. PICK q \in Starts : q = p
      BY <1>4
    <3>2. Starts' = Starts /\ Stream(q)' = Stream(q) /\ Fits(q)' = Fits(q) /\ file' = file
      BY <1>1, FileKept DEF EndFacts
    <3>3. /\ q \in Starts' /\ file'.box[q].ty = "jbrd" /\ q < cursor'
          /\ Alive' => ~(state' = "IN_AUX_BOX" /\ q = pending_header')
          /\ ~split' /\ Fits(q)' => jbrd'.brotli.out = Symbols(q, Stream(q)')
      BY <1>1, <1>4, <2>3, <2>4, <3>1, <3>2 DEF EndFacts
    <3>4. jbrd'.phase = "finalized"
      BY <2>3
    <3>. QED BY <3>3, <3>4 DEF JbrdInv, Symbols
  <2>6. OpenInv'
    BY <1>1, <1>3, <2>1 DEF EndFacts, OpenInv
  <2>7. AcceptedInv'
    BY <2>1, AcceptedKept
  <2>8. ShapeInv'
    <3>1. NoBrotli' = NoBrotli /\ Starts' = Starts
      BY <1>1 DEF NoBrotli, Starts, EndFacts
    <3>. QED BY <1>1, <1>3, <2>1, <2>3, <3>1 DEF ShapeInv, ReaderTypeOK, EndFacts
  <2>. QED BY <1>1, <1>2, <1>8, <2>5, <2>6, <2>7, <2>8 DEF ReaderInv, EndFacts
<1>10. CASE ~JbrdComplete
  <2>1. jbrd' = jbrd /\ current_box_ty' = CurrentType /\ failed' = "VALIDATION_FAILED"
    BY <1>1, <1>10 DEF FinalizeJbrd
  <2>2. ~Alive'
    BY <2>1 DEF Alive
  <2>3. JbrdInv'
    <3>1. jbrd.phase = "finalized" =>
            \E q \in Starts' :
             /\ file'.box[q].ty = "jbrd" /\ q < cursor'
             /\ Alive' => ~(state' = "IN_AUX_BOX" /\ q = pending_header')
             /\ ~split' /\ Fits(q)' => jbrd'.brotli.out = Symbols(q, Stream(q)')
      BY <1>1, <2>1, FinalizedKept DEF EndFacts
    <3>. QED BY <2>1, <2>2, <3>1 DEF JbrdInv, Symbols
  <2>4. OpenInv'
    BY <2>2 DEF OpenInv
  <2>5. ShapeInv'
    <3>1. NoBrotli' = NoBrotli /\ Starts' = Starts
      BY <1>1 DEF NoBrotli, Starts, EndFacts
    <3>. QED BY <1>1, <1>3, <2>1, <3>1 DEF ShapeInv, ReaderTypeOK, EndFacts, OpenBox
  <2>6. ASSUME Sound(file), AuxSound, JbrdFits, ~split PROVE FALSE
    <3>1. Stream(p) = n - JbrHeaderLen /\ Stream(p) > 0
      BY <1>4, <1>5, <2>6 DEF AuxSound
    <3>2. jbrd.phase # "finalized"
      BY <1>1, <2>6, TwoJbrdBoxes DEF EndFacts
    <3>3. n > JbrHeaderLen
      BY <1>4, <1>5, <1>6, <3>1
    <3>. DEFINE k == n - JbrHeaderLen
    <3>4. /\ jbrd.phase = "parsed" /\ Done(jbrd.brotli, p, k)
      <4>1. n # 0 /\ ~(n < JbrHeaderLen)
        BY <1>5, <1>6, <3>3
      <4>. QED BY <1>7, <2>6, <3>2, <4>1 DEF JbrdFed
    <3>5. k \in Nat /\ k = Stream(p)
      BY <1>5, <1>6, <3>1, <3>3
    <3>. HIDE DEF k
    <3>6. Fits(p)
      BY <1>4, <2>6 DEF JbrdFits
    <3>7. Least(Stream(p), k) = Stream(p)
      BY <3>5 DEF Least
    <3>8. BrotliFinish(jbrd.brotli, p).out = Symbols(p, Stream(p))
      BY <3>4, <3>6, <3>7, BrotliIdle DEF Done
    <3>9. Len(Symbols(p, Stream(p))) = 2 * Stream(p)
      BY <1>4, SymbolsSeq
    <3>. QED BY <1>10, <3>4, <3>8, <3>9 DEF JbrdComplete, JbrdFinished, Inflated
  <2>7. AcceptedInv'
    <3>1. AuxSound' = AuxSound /\ JbrdFits' = JbrdFits /\ file' = file /\ split' = split
      BY <1>1, FileKept DEF EndFacts
    <3>. QED BY <2>6, <3>1 DEF AcceptedInv
  <2>. QED BY <1>1, <1>2, <1>8, <2>3, <2>4, <2>5, <2>7 DEF ReaderInv, EndFacts
<1>. QED BY <1>9, <1>10

LEMMA PlainEndReader ==
  ASSUME ReaderInv, ReaderEmit, ClosesBox, CurrentType # "jbrd"
  PROVE  ReaderInv'
<1>. DEFINE d == IF reader_kind = "BROTLI" THEN BrotliFinish(brotli, pending_header).out ELSE raw
            e == [ty |-> CurrentType, at |-> pending_header, data |-> d]
            m == Len(boxes)
<1>1. EndFacts /\ FinalizeBox /\ event'.ty = CurrentType
  BY EndBoxReader
<1>2. StreamInv' /\ WholeInv' /\ LastInv' /\ ~JbrdOpen'
  BY <1>1, EndKept
<1>3. /\ boxes' = Append(boxes, e)
      /\ current_box_ty' = "none" /\ reader_kind' = "INIT" /\ raw' = <<>> /\ brotli' = NoBrotli
      /\ jbrd' = jbrd /\ failed' = failed
  <2>1. event'.ty = CurrentType
    BY <1>1
  <2>2. Entry = e
    BY <2>1 DEF Entry
  <2>. QED BY <1>1, <2>2 DEF FinalizeBox
<1>4. /\ pending_header \in AuxStarts /\ pending_header \in DOMAIN file.box
      /\ CurrentType = InnerType(pending_header) /\ CurrentType \in AuxTypes
  BY <1>1 DEF EndFacts, OpenBox
<1>5. IsSeq(boxes) /\ m \in Nat
  BY <1>1 DEF EndFacts, ShapeInv, IsSeq
<1>6. e.ty = CurrentType /\ e.at = pending_header /\ e.data = d
  OBVIOUS
<1>. HIDE DEF d, e
<1>7. /\ IsSeq(boxes') /\ Len(boxes') = m + 1
      /\ \A i \in 1 .. m : boxes'[i] = boxes[i]
      /\ boxes'[m + 1] = e
  BY <1>3, <1>5, AppendAny
<1>. HIDE DEF m
<1>8. ASSUME NEW i \in 1 .. Len(boxes')
      PROVE  (i \in 1 .. m /\ boxes'[i] = boxes[i]) \/ (i = m + 1 /\ boxes'[i] = e)
  <2>1. i \in 1 .. m + 1
    BY <1>7
  <2>2. i \in 1 .. m \/ i = m + 1
    BY <1>5, <2>1
  <2>. QED BY <1>7, <2>2
<1>9. /\ Starts' = Starts /\ AuxStarts' = AuxStarts
      /\ \A p : InnerType(p)' = InnerType(p) /\ Content(p)' = Content(p) /\ Fits(p)' = Fits(p)
      /\ file' = file /\ NoBrotli' = NoBrotli
  BY <1>1, FileKept DEF EndFacts, NoBrotli
<1>10. \A i \in 1 .. m : /\ boxes[i].at \in AuxStarts /\ boxes[i].at < cursor
                         /\ boxes[i].ty = InnerType(boxes[i].at)
                         /\ boxes[i].at < pending_header
                         /\ boxes[i].ty \in AuxTypes /\ boxes[i].at \in Starts
  <2>1. DOMAIN boxes = 1 .. m
    BY <1>5 DEF IsSeq, m
  <2>. QED BY <1>1, <2>1 DEF EndFacts, ListInv, OpenBox, ShapeInv, ReaderTypeOK, m
<1>11. ShapeInv'
  <2>1. DOMAIN boxes' = 1 .. Len(boxes')
    BY <1>7 DEF IsSeq
  <2>2. \A i \in DOMAIN boxes' : boxes'[i].ty \in AuxTypes /\ boxes'[i].at \in Starts
    BY <1>4, <1>6, <1>8, <1>10, <2>1 DEF Starts
  <2>. QED BY <1>1, <1>3, <1>7, <1>9, <2>2 DEF ShapeInv, ReaderTypeOK, EndFacts
<1>12. ListInv'
  <2>1. ASSUME NEW i \in 1 .. Len(boxes'), NEW j \in 1 .. Len(boxes'), i < j
        PROVE  boxes'[i].at < boxes'[j].at
    <3>1. i \in 1 .. m /\ boxes'[i] = boxes[i]
      BY <1>5, <1>7, <1>8, <2>1
    <3>2. CASE j \in 1 .. m /\ boxes'[j] = boxes[j]
      BY <1>1, <2>1, <3>1, <3>2 DEF EndFacts, ListInv, m
    <3>3. CASE boxes'[j] = e
      BY <1>6, <1>10, <3>1, <3>3
    <3>. QED BY <1>8, <3>2, <3>3
  <2>2. ASSUME NEW i \in 1 .. Len(boxes')
        PROVE  /\ boxes'[i].at \in AuxStarts /\ boxes'[i].at < cursor'
               /\ boxes'[i].ty = InnerType(boxes'[i].at)
    BY <1>1, <1>4, <1>6, <1>8, <1>10 DEF EndFacts
  <2>3. ASSUME NEW p \in AuxStarts, p < cursor'
        PROVE  \E i \in 1 .. Len(boxes') : boxes'[i].at = p
    <3>1. CASE p = pending_header
      BY <1>5, <1>6, <1>7, <3>1
    <3>2. CASE p # pending_header
      <4>1. PICK i \in 1 .. m : boxes[i].at = p
        BY <1>1, <2>3, <3>2 DEF EndFacts, ListInv, m
      <4>. QED BY <1>5, <1>7, <4>1
    <3>. QED BY <3>1, <3>2
  <2>4. state' # "IN_AUX_BOX"
    BY <1>1 DEF EndFacts
  <2>5. \A i \in 1 .. Len(boxes') : boxes'[i].ty = InnerType(boxes[i].at)'
    <3>1. ASSUME NEW i \in 1 .. Len(boxes') PROVE boxes'[i].ty = InnerType(boxes[i].at)'
      <4>1. PICK q : q = boxes'[i].at
        OBVIOUS
      <4>2. InnerType(q)' = InnerType(q)
        BY <1>9
      <4>. QED BY <2>2, <4>1, <4>2 DEF InnerType
    <3>. QED BY <3>1
  <2>. QED BY <1>9, <2>1, <2>2, <2>3, <2>4, <2>5 DEF ListInv
<1>13. OpenInv'
  BY <1>1, <1>3 DEF EndFacts, OpenInv
<1>14. JbrdInv'
  <2>1. jbrd.phase # "parsed" /\ (jbrd.phase = "absent" => jbrd = NoJbrd)
    BY <1>1 DEF JbrdInv, JbrdOpen, EndFacts
  <2>2. jbrd.phase = "finalized" =>
          \E q \in Starts' :
             /\ file'.box[q].ty = "jbrd" /\ q < cursor'
             /\ Alive' => ~(state' = "IN_AUX_BOX" /\ q = pending_header')
             /\ ~split' /\ Fits(q)' => jbrd'.brotli.out = Symbols(q, Stream(q)')
    BY <1>1, <1>3, FinalizedKept DEF EndFacts
  <2>. QED BY <1>2, <1>3, <2>1, <2>2 DEF JbrdInv, NoJbrd, NoBrotli, Symbols, Fits, Stream
<1>15. ASSUME Pending.ty # "brob" \/ (~split /\ Fits(pending_header))
       PROVE  d = Content(pending_header)
  <2>1. /\ reader_kind = IF Pending.ty = "brob" THEN "BROTLI" ELSE "RAW"
        /\ reader_kind = "RAW" => raw = Span(PayloadStart(pending_header), cursor)
    BY <1>1 DEF EndFacts, OpenInv
  <2>2. CASE Pending.ty # "brob"
    BY <1>1, <2>1, <2>2 DEF d, Content, Pending, EndFacts
  <2>3. CASE Pending.ty = "brob"
    <3>. DEFINE n == PayloadLen(pending_header)
                p == pending_header
    <3>1. /\ reader_kind = "BROTLI" /\ d = BrotliFinish(brotli, p).out
          /\ ~split /\ Fits(p)
      BY <1>15, <2>1, <2>3 DEF d
    <3>2. Stream(p) \in Nat /\ n \in Nat
      <4>1. file \in Files
        BY <1>1 DEF EndFacts, TypeOK
      <4>2. file.box[p] \in Box
        BY <1>4, <4>1, FilesAssumption DEF File
      <4>. QED BY <1>1, <4>2 DEF Box, Stream, EndFacts, PayloadLen
    <3>3. Content(p) = Symbols(p, Least(Stream(p), n))
      BY <2>3 DEF Content, Pending, PayloadLen
    <3>4. CASE cursor = PayloadStart(p) /\ brotli = NoBrotli
      <4>1. n = 0
        BY <1>1, <3>4 DEF EndFacts, PayloadLen
      <4>2. Least(Stream(p), n) = 0
        BY <3>2, <4>1 DEF Least
      <4>3. /\ NoBrotli.total = Inflated(NoBrotli.k) /\ NoBrotli.out = <<>>
            /\ Symbols(p, 0) = <<>>
        BY DEF NoBrotli, Inflated, Symbols
      <4>4. BrotliFinish(NoBrotli, p) = NoBrotli
        BY <4>3, BrotliIdle
      <4>. QED BY <3>1, <3>3, <3>4, <4>2, <4>3, <4>4
    <3>5. CASE Done(brotli, p, n)
      <4>1. brotli.out = Symbols(p, Least(Stream(p), n)) /\ brotli.total = Inflated(brotli.k)
        BY <3>1, <3>5 DEF Done
      <4>2. BrotliFinish(brotli, p) = brotli
        BY <4>1, BrotliIdle
      <4>. QED BY <3>1, <3>3, <4>1, <4>2
    <3>. QED BY <1>1, <3>1, <3>4, <3>5 DEF EndFacts, WholeInv
  <2>. QED BY <2>2, <2>3
<1>16. ExactInv'
  <2>1. ASSUME NEW i \in 1 .. Len(boxes'),
               file.box[boxes'[i].at].ty # "brob" \/ (~split /\ Fits(boxes'[i].at))
        PROVE  boxes'[i].data = Content(boxes'[i].at)
    <3>1. CASE i \in 1 .. m /\ boxes'[i] = boxes[i]
      BY <1>1, <2>1, <3>1 DEF EndFacts, ExactInv, m
    <3>2. CASE boxes'[i] = e
      BY <1>6, <1>15, <2>1, <3>2 DEF Pending
    <3>. QED BY <1>8, <3>1, <3>2
  <2>2. ASSUME NEW i \in 1 .. Len(boxes'),
               file'.box[boxes'[i].at].ty # "brob" \/ (~split' /\ Fits(boxes[i].at)')
        PROVE  boxes'[i].data = Content(boxes[i].at)'
    <3>1. PICK q : q = boxes'[i].at
      OBVIOUS
    <3>2. Content(q)' = Content(q) /\ Fits(q)' = Fits(q)
      BY <1>9
    <3>3. boxes'[i].data = Content(q)
      <4>1. Fits(boxes[i].at)' = Fits(q)'
        BY <3>1 DEF Fits, Stream
      <4>. QED BY <1>1, <1>9, <2>1, <2>2, <3>1, <3>2, <4>1 DEF EndFacts
    <3>4. Content(boxes[i].at)' = Content(q)'
      BY <3>1 DEF Content, PayloadStart, PayloadEnd, Stream, Symbols
    <3>. QED BY <3>2, <3>3, <3>4
  <2>. QED BY <2>2 DEF ExactInv
<1>17. AcceptedInv'
  BY <1>3, AcceptedKept
<1>. QED BY <1>1, <1>2, <1>11, <1>12, <1>13, <1>14, <1>16, <1>17 DEF ReaderInv, EndFacts

-----------------------------------------------------------------------------
(* The reader's invariant *)

LEMMA ReaderEmitStep == ReaderInv /\ ReaderEmit => ReaderInv'
<1> SUFFICES ASSUME ReaderInv, ReaderEmit PROVE ReaderInv'
  OBVIOUS
<1>1. Silent \/ HandsCodestream \/ AnnouncesEnd \/ OpensBox \/ HandsData \/ ClosesBox
  BY EmitReader, EmitTells
<1>. QED BY <1>1, SilentReader, CodestreamReader, EndReader, OpensReader, PlainDataReader,
            JbrdDataReader, PlainEndReader, JbrdEndReader

LEMMA ReaderIdleStep ==
  ASSUME ReaderInv,
         \/ \E n \in 1 .. file.len : ReaderFeed(n)
         \/ ReaderReturn \/ UNCHANGED allvars
  PROVE  ReaderInv'
<1>1. /\ (\E n \in 1 .. file.len : Feed(n)) \/ Return \/ UNCHANGED vars
      /\ UNCHANGED readervars
  BY DEF ReaderFeed, ReaderReturn, allvars
<1>2. Inv' /\ SoundInv'
  BY <1>1, InvStep, SoundInvStep DEF ReaderInv, Next
<1>3. /\ file' = file /\ cursor' = cursor /\ status' = status /\ state' = state
      /\ pending_header' = pending_header /\ has_brotli_inner_type' = has_brotli_inner_type
      /\ codestream_kind' = codestream_kind /\ no_more' = no_more
  BY <1>1 DEF Feed, Return, vars, boxvars, hist
<1>4. /\ codestream' = codestream /\ boxes' = boxes /\ current_box_ty' = current_box_ty
      /\ reader_kind' = reader_kind /\ raw' = raw /\ brotli' = brotli
      /\ last_box' = last_box /\ jbrd' = jbrd /\ failed' = failed /\ split' = split
  BY <1>1 DEF readervars
<1>5. /\ Starts' = Starts /\ AuxStarts' = AuxStarts
      /\ CodestreamPositions' = CodestreamPositions /\ AuxSound' = AuxSound
      /\ JbrdFits' = JbrdFits
      /\ \A p : /\ PayloadStart(p)' = PayloadStart(p) /\ PayloadEnd(p)' = PayloadEnd(p)
                /\ InnerType(p)' = InnerType(p) /\ Stream(p)' = Stream(p)
                /\ Content(p)' = Content(p) /\ Fits(p)' = Fits(p)
  BY <1>3, FileKept
<1>6. Alive' = Alive /\ Opened' = Opened /\ Pending' = Pending /\ CurrentType' = CurrentType
  BY <1>3, <1>4 DEF Alive, Opened, AwaitsInnerType, Pending, CurrentType
<1>7. ShapeInv'
  BY <1>3, <1>4 DEF ReaderInv, ShapeInv, ReaderTypeOK, Starts, NoBrotli
<1>8. StreamInv'
  BY <1>3, <1>4, <1>5 DEF ReaderInv, StreamInv
<1>9. ListInv'
  BY <1>3, <1>4, <1>5, <1>6 DEF ReaderInv, ListInv
<1>10. OpenInv'
  BY <1>3, <1>4, <1>5, <1>6 DEF ReaderInv, OpenInv, PayloadStart
<1>11. WholeInv'
  BY <1>3, <1>4, <1>6 DEF ReaderInv, WholeInv, PayloadStart, PayloadEnd, PayloadLen, Done, Fits,
                          NoBrotli, Symbols, Stream, Pending
<1>12. JbrdInv'
  BY <1>3, <1>4, <1>6 DEF ReaderInv, JbrdInv, JbrdOpen, JbrdFed, JbrdStaged, Starts, Done, Fits,
         PayloadStart, PayloadEnd, PayloadLen, NoBrotli, NoJbrd, Symbols, Stream
<1>13. ExactInv'
  BY <1>3, <1>4, <1>5 DEF ReaderInv, ExactInv
<1>14. AcceptedInv'
  BY <1>3, <1>4, <1>5 DEF ReaderInv, AcceptedInv
<1>15. LastInv'
  BY <1>3, <1>4, <1>6 DEF ReaderInv, LastInv
<1>. QED BY <1>2, <1>7, <1>8, <1>9, <1>10, <1>11, <1>12, <1>13, <1>14, <1>15 DEF ReaderInv

LEMMA ReaderInvStep == ReaderInv /\ [ReaderNext]_allvars => ReaderInv'
BY ReaderEmitStep, ReaderIdleStep DEF ReaderNext

LEMMA ReaderInvInit == ReaderInit => ReaderInv
<1> SUFFICES ASSUME ReaderInit PROVE ReaderInv
  OBVIOUS
<1>1. Inv /\ SoundInv /\ Init
  BY InvInit, SoundInvInit DEF ReaderInit
<1>2. /\ codestream = <<>> /\ boxes = <<>> /\ current_box_ty = "none"
      /\ reader_kind = "INIT" /\ raw = <<>> /\ brotli = NoBrotli
      /\ last_box = FALSE /\ jbrd = NoJbrd /\ failed = "OK" /\ split = FALSE
      /\ Len(codestream) = 0 /\ Len(boxes) = 0
  BY DEF ReaderInit
<1>3. cursor = 0 /\ ~Opened /\ state = "WAITING_SIGNATURE" /\ TypeOK
  BY <1>1 DEF Init, Opened, Inv
<1>4. \A x \in CodestreamPositions \cup AuxStarts : ~(x < cursor)
  BY <1>3, BoxStartsNat
<1>5. ShapeInv
  <2>1. IsSeq(boxes)
    BY <1>2 DEF IsSeq
  <2>2. jbrd = [phase |-> jbrd.phase, staged |-> jbrd.staged, brotli |-> jbrd.brotli]
        /\ jbrd.staged \in Nat /\ jbrd.phase = "absent"
    BY <1>2 DEF NoJbrd
  <2>3. codestream \in Seq(0 .. file.len) /\ DOMAIN boxes = {}
    BY <1>2, <2>1, EmptySeq DEF IsSeq
  <2>4. ReaderTypeOK
    BY <1>2, <2>2, <2>3 DEF ReaderTypeOK
  <2>. QED BY <2>1, <2>2, <2>4 DEF ShapeInv
<1>6. StreamInv
  BY <1>2, <1>4 DEF StreamInv
<1>7. ListInv
  BY <1>2, <1>3, <1>4 DEF ListInv
<1>8. OpenInv /\ WholeInv /\ ExactInv /\ AcceptedInv /\ LastInv
  BY <1>2, <1>3 DEF OpenInv, WholeInv, ExactInv, AcceptedInv, LastInv
<1>9. JbrdInv
  BY <1>2, <1>3 DEF JbrdInv, NoJbrd, JbrdOpen
<1>. QED BY <1>1, <1>5, <1>6, <1>7, <1>8, <1>9 DEF ReaderInv

LEMMA AlwaysReaderInv == ReaderSpec => []ReaderInv
BY ReaderInvInit, ReaderInvStep, PTL DEF ReaderSpec

-----------------------------------------------------------------------------
(* The properties of ContainerReader *)

\* The reader keeps its types, and the buffers of a raw and of a compressed box
\* (AUX_RAW, AUX_BROTLI of aux_box.c) are filled only while such a box is read.
THEOREM ReaderTypeCorrect == ReaderSpec => []ReaderTypeOK
<1>1. ReaderInv => ReaderTypeOK
  BY DEF ReaderInv, ShapeInv
<1>. QED BY <1>1, AlwaysReaderInv, PTL

\* However the file is cut, jxl_aux_box_list lists of a raw box exactly its
\* payload, and of a compressed one, or of jbrd data, exactly what its stream
\* inflates to when jxl_brotli_decoder_feed got the payload in one piece and the
\* result fits into the first buffer grow_out allots.
THEOREM BoxesAlwaysExact == ReaderSpec => []HandledBoxesExact
<1>1. ReaderInv => HandledBoxesExact
  <2> SUFFICES ASSUME ReaderInv PROVE HandledBoxesExact
    OBVIOUS
  <2>. DEFINE P == {p \in Starts : file.box[p].ty \in {"brob", "jbrd"} => ~split /\ Fits(p)}
  <2>1. ExactInv /\ JbrdInv /\ DOMAIN boxes = 1 .. Len(boxes)
    BY DEF ReaderInv, ShapeInv, IsSeq
  <2>2. \A i \in DOMAIN boxes : boxes[i].at \in P => boxes[i].data = Content(boxes[i].at)
    BY <2>1 DEF ExactInv
  <2>3. jbrd.phase = "finalized" =>
          \E p \in Starts : /\ file.box[p].ty = "jbrd" /\ p < cursor
                            /\ p \in P => jbrd.brotli.out = Symbols(p, Stream(p))
    BY <2>1 DEF JbrdInv
  <2>. QED BY <2>2, <2>3 DEF HandledBoxesExact, ExactFor
<1>. QED BY <1>1, AlwaysReaderInv, PTL

\* The reader refuses nothing of a sound file: neither jxl_container_parser_emit
\* nor the callback (a second jbrd box, a wrong inflated length, bytes behind the
\* end of a stream) fails, unless a compressed payload came in pieces or the
\* jbrd data is longer than the first buffer grow_out allots.
THEOREM SoundAlwaysAccepted == ReaderSpec => []SoundAccepted
<1>1. ReaderInv => SoundAccepted
  BY DEF ReaderInv, SoundInv, AcceptedInv, SoundAccepted
<1>. QED BY <1>1, AlwaysReaderInv, PTL

(* As many elements of T lie below b as an increasing sequence names. *)
LEMMA CountBelow ==
  ASSUME NEW T \in SUBSET Nat, NEW n \in Nat, NEW f \in [1 .. n -> T], NEW b \in Nat,
         \A i, j \in 1 .. n : i < j => f[i] < f[j],
         \A i \in 1 .. n : f[i] < b,
         \A x \in T : x < b => \E i \in 1 .. n : f[i] = x
  PROVE  Cardinality({x \in T : x < b}) = n
<1>. DEFINE B == {x \in T : x < b}
            g == [i \in 1 .. n |-> f[i]]
<1>1. g \in [1 .. n -> B]
  OBVIOUS
<1>2. ASSUME NEW i \in 1 .. n, NEW j \in 1 .. n, g[i] = g[j]
      PROVE  i = j
  <2>1. f[i] = f[j] /\ f[i] \in Nat /\ i \in Nat /\ j \in Nat
    <3>1. f[i] \in T /\ T \subseteq Nat
      OBVIOUS
    <3>2. g[i] = f[i] /\ g[j] = f[j]
      OBVIOUS
    <3>3. i \in Nat /\ j \in Nat
      OBVIOUS
    <3>. HIDE DEF g
    <3>. QED BY <1>2, <3>1, <3>2, <3>3
  <2>2. ~(i < j) /\ ~(j < i)
    BY <2>1
  <2>. QED BY <2>1, <2>2
<1>3. \A x \in B : \E i \in 1 .. n : g[i] = x
  OBVIOUS
<1>4. g \in Bijection(1 .. n, B)
  BY <1>1, <1>2, <1>3 DEF Bijection, Injection, Surjection, IsInjective
<1>5. ExistsBijection(1 .. n, B)
  BY <1>4 DEF ExistsBijection
<1>. QED BY <1>5, FS_CountingElements

(* The n-th of an increasing sequence of all elements below c. *)
LEMMA RankOf ==
  ASSUME NEW T \in SUBSET Nat, NEW s \in Seq(T), NEW c \in Nat,
         \A j, k \in 1 .. Len(s) : j < k => s[j] < s[k],
         \A j \in 1 .. Len(s) : s[j] < c,
         \A x \in T : x < c => \E j \in 1 .. Len(s) : s[j] = x,
         NEW i \in 1 .. Len(s)
  PROVE  Cardinality({x \in T : x < s[i]}) = i - 1
<1>1. Len(s) \in Nat /\ \A j \in 1 .. Len(s) : s[j] \in T /\ s[j] \in Nat
  BY LenProperties, ElementOfSeq
<1>. DEFINE n == i - 1  b == s[i]
<1>2. n \in Nat /\ i \in Nat /\ b \in Nat /\ \A j \in 1 .. n : j \in 1 .. Len(s) /\ j < i
  BY <1>1
<1>3. ASSUME NEW x \in T, x < b
      PROVE  \E j \in 1 .. n : s[j] = x
  <2>1. x \in Nat /\ b < c
    BY <1>1
  <2>2. x < c
    BY <1>2, <1>3, <2>1
  <2>3. PICK j \in 1 .. Len(s) : s[j] = x
    BY <2>2
  <2>4. j < i
    <3>1. ~(i < j) /\ i # j
      BY <1>2, <1>3, <2>1, <2>3
    <3>. QED BY <1>1, <1>2, <3>1
  <2>5. j \in 1 .. n
    BY <1>1, <1>2, <2>4
  <2>. QED BY <2>3, <2>5
<1>4. PICK f : f = [j \in 1 .. n |-> s[j]]
  OBVIOUS
<1>5. f \in [1 .. n -> T] /\ \A j \in 1 .. n : f[j] = s[j]
  BY <1>1, <1>2, <1>4
<1>6. \A j, k \in 1 .. n : j < k => f[j] < f[k]
  BY <1>2, <1>5
<1>7. \A j \in 1 .. n : f[j] < b
  BY <1>2, <1>5
<1>8. \A x \in T : x < b => \E j \in 1 .. n : f[j] = x
  BY <1>3, <1>5
<1>. HIDE DEF n, b
<1>9. Cardinality({x \in T : x < b}) = n
  BY <1>2, <1>5, <1>6, <1>7, <1>8, CountBelow
<1>. QED BY <1>9 DEF n, b

(* The n-th codestream byte to come out is the n-th of the file. *)
LEMMA StreamInOrder ==
  ASSUME ReaderInv, NEW i \in 1 .. Len(codestream)
  PROVE  /\ codestream[i] \in CodestreamPositions
         /\ Cardinality({x \in CodestreamPositions : x < codestream[i]}) = i - 1
<1>1. /\ StreamInv /\ CodestreamPositions \in SUBSET Nat /\ cursor \in Nat
      /\ codestream \in Seq(0 .. file.len)
  BY BoxStartsNat DEF ReaderInv, Inv, TypeOK, ShapeInv, ReaderTypeOK
<1>2. PICK T, s, c : T = CodestreamPositions /\ s = codestream /\ c = cursor
  OBVIOUS
<1>3. s \in Seq(T)
  <2>1. s \in [1 .. Len(s) -> 0 .. file.len] /\ Len(s) \in Nat
    BY <1>1, <1>2, LenProperties
  <2>2. \A j \in 1 .. Len(s) : s[j] \in T
    BY <1>1, <1>2 DEF StreamInv
  <2>. QED BY <2>1, <2>2, InSeq DEF IsSeq
<1>4. /\ \A j, k \in 1 .. Len(s) : j < k => s[j] < s[k]
      /\ \A j \in 1 .. Len(s) : s[j] < c
      /\ \A x \in T : x < c => \E j \in 1 .. Len(s) : s[j] = x
  BY <1>1, <1>2 DEF StreamInv
<1>5. Cardinality({x \in T : x < s[i]}) = i - 1
  <2>1. T \in SUBSET Nat /\ c \in Nat /\ i \in 1 .. Len(s)
    BY <1>1, <1>2
  <2>. QED BY <1>3, <1>4, <2>1, RankOf
<1>. QED BY <1>1, <1>2, <1>5 DEF StreamInv

LEMMA StreamInOrderNext ==
  ASSUME ReaderInv, ReaderInv', file' = file, NEW i \in 1 .. Len(codestream')
  PROVE  /\ codestream'[i] \in CodestreamPositions
         /\ Cardinality({x \in CodestreamPositions : x < codestream'[i]}) = i - 1
<1>1. /\ StreamInv' /\ CodestreamPositions \in SUBSET Nat /\ cursor' \in Nat
      /\ codestream' \in Seq(0 .. file'.len) /\ CodestreamPositions' = CodestreamPositions
  BY BoxStartsNat, FileKept DEF ReaderInv, Inv, TypeOK, ShapeInv, ReaderTypeOK
<1>2. PICK T, s, c : T = CodestreamPositions /\ s = codestream' /\ c = cursor'
  OBVIOUS
<1>3. s \in Seq(T)
  <2>1. s \in [1 .. Len(s) -> 0 .. file'.len] /\ Len(s) \in Nat
    BY <1>1, <1>2, LenProperties
  <2>2. \A j \in 1 .. Len(s) : s[j] \in T
    BY <1>1, <1>2 DEF StreamInv
  <2>. QED BY <2>1, <2>2, InSeq DEF IsSeq
<1>4. /\ \A j, k \in 1 .. Len(s) : j < k => s[j] < s[k]
      /\ \A j \in 1 .. Len(s) : s[j] < c
      /\ \A x \in T : x < c => \E j \in 1 .. Len(s) : s[j] = x
  BY <1>1, <1>2 DEF StreamInv
<1>5. Cardinality({x \in T : x < s[i]}) = i - 1
  <2>1. T \in SUBSET Nat /\ c \in Nat /\ i \in 1 .. Len(s)
    BY <1>1, <1>2
  <2>. QED BY <1>3, <1>4, <2>1, RankOf
<1>. QED BY <1>1, <1>2, <1>5 DEF StreamInv

(* What the promise calls listed, and what a box that ends adds to it. *)
Listed == [i \in DOMAIN boxes |-> [at |-> boxes[i].at, ty |-> boxes[i].ty]]

LEMMA SameCardinality == \A S : Promise!Cardinality(S) = Cardinality(S)
  BY DEF Promise!Cardinality, Cardinality

LEMMA ListedSeq ==
  ASSUME ReaderInv
  PROVE  Listed \in Seq([at : AuxStarts, ty : AuxTypes]) /\ Len(Listed) = Len(boxes)
         /\ DOMAIN boxes = 1 .. Len(boxes) /\ Len(boxes) \in Nat
<1>1. DOMAIN boxes = 1 .. Len(boxes) /\ Len(boxes) \in Nat
  BY DEF ReaderInv, ShapeInv, IsSeq
<1>2. \A i \in 1 .. Len(boxes) :
        [at |-> boxes[i].at, ty |-> boxes[i].ty] \in [at : AuxStarts, ty : AuxTypes]
  BY <1>1 DEF ReaderInv, ListInv, ShapeInv, ReaderTypeOK
<1>3. Listed = [i \in 1 .. Len(boxes) |-> [at |-> boxes[i].at, ty |-> boxes[i].ty]]
  BY <1>1 DEF Listed
<1>. QED BY <1>1, <1>2, <1>3, IsASeq

LEMMA EndPromised ==
  ASSUME ReaderInv, ReaderInv', ReaderEmit, ClosesBox, CurrentType # "jbrd"
  PROVE  /\ codestream' = codestream /\ file' = file
         /\ pending_header \in AuxStarts
         /\ Cardinality({q \in AuxStarts : q < pending_header}) = Len(Listed)
         /\ Listed' = Append(Listed, [at |-> pending_header, ty |-> InnerType(pending_header)])
<1>1. EndFacts /\ FinalizeBox /\ event'.ty = CurrentType
  BY EndBoxReader
<1>2. /\ codestream' = codestream /\ file' = file /\ pending_header \in AuxStarts
      /\ InnerType(pending_header) = CurrentType /\ ListInv /\ Alive /\ OpenBox /\ TypeOK
      /\ pending_header \in Nat /\ pending_header < cursor /\ cursor \in Nat
  BY <1>1 DEF EndFacts, OpenBox
<1>. DEFINE n == Len(boxes)
            S == [at : AuxStarts, ty : AuxTypes]
            r == [at |-> pending_header, ty |-> CurrentType]
            b == pending_header
<1>3. Listed \in Seq(S) /\ Len(Listed) = n /\ DOMAIN boxes = 1 .. n /\ n \in Nat
  BY ListedSeq
<1>4. Cardinality({q \in AuxStarts : q < b}) = n
  <2>1. PICK f : f = [j \in 1 .. n |-> boxes[j].at]
    OBVIOUS
  <2>2. f \in [1 .. n -> AuxStarts] /\ \A j \in 1 .. n : f[j] = boxes[j].at
    BY <1>2, <2>1 DEF ListInv
  <2>3. AuxStarts \in SUBSET Nat /\ b \in Nat
    BY <1>2, BoxStartsNat
  <2>4. \A j, k \in 1 .. n : j < k => f[j] < f[k]
    BY <1>2, <2>2 DEF ListInv
  <2>5. \A j \in 1 .. n : f[j] < b
    BY <1>2, <2>2 DEF ListInv, OpenBox
  <2>6. \A x \in AuxStarts : x < b => \E j \in 1 .. n : f[j] = x
    <3>1. ASSUME NEW x \in AuxStarts, x < b PROVE \E j \in 1 .. n : f[j] = x
      <4>1. x < cursor /\ x # b
        BY <1>2, <2>3, <3>1
      <4>. QED BY <1>2, <2>2, <4>1 DEF ListInv
    <3>. QED BY <3>1
  <2>. HIDE DEF n, b
  <2>. QED BY <1>3, <2>2, <2>3, <2>4, <2>5, <2>6, CountBelow
<1>5. Listed' = Append(Listed, r)
  <2>1. /\ IsSeq(boxes') /\ Len(boxes') = n + 1
        /\ \A i \in 1 .. n : boxes'[i] = boxes[i]
        /\ boxes'[n + 1].at = pending_header /\ boxes'[n + 1].ty = CurrentType
    <3>1. boxes' = Append(boxes, Entry) /\ IsSeq(boxes)
      BY <1>1 DEF FinalizeBox, EndFacts, ShapeInv
    <3>2. Entry.at = pending_header /\ Entry.ty = CurrentType
      BY <1>1 DEF Entry
    <3>. HIDE DEF n
    <3>3. PICK e : e = Entry
      OBVIOUS
    <3>4. /\ IsSeq(boxes') /\ Len(boxes') = n + 1
          /\ \A i \in 1 .. n : boxes'[i] = boxes[i] /\ boxes'[n + 1] = e
      BY <3>1, <3>3, AppendAny DEF n
    <3>5. boxes'[n + 1] = e
      BY <3>1, <3>3, AppendAny DEF n
    <3>. QED BY <3>2, <3>3, <3>4, <3>5
  <2>2. r \in S
    BY <1>2 DEF OpenBox
  <2>. HIDE DEF S, r, n
  <2>3. /\ Append(Listed, r) \in Seq(S) /\ Len(Append(Listed, r)) = n + 1
        /\ \A i \in 1 .. n : Append(Listed, r)[i] = Listed[i]
        /\ Append(Listed, r)[n + 1] = r
    BY <1>3, <2>2
  <2>4. Append(Listed, r) = [i \in 1 .. n + 1 |-> Append(Listed, r)[i]]
    <3>1. PICK s \in Seq(S) : s = Append(Listed, r)
      BY <2>3
    <3>2. s \in [1 .. Len(s) -> S]
      BY LenProperties
    <3>. QED BY <2>3, <3>1, <3>2
  <2>5. Listed' = [i \in 1 .. n + 1 |-> [at |-> boxes'[i].at, ty |-> boxes'[i].ty]]
    BY <2>1 DEF Listed, IsSeq
  <2>6. ASSUME NEW i \in 1 .. n + 1
        PROVE  [at |-> boxes'[i].at, ty |-> boxes'[i].ty] = Append(Listed, r)[i]
    <3>1. CASE i \in 1 .. n
      <4>1. Listed[i] = [at |-> boxes[i].at, ty |-> boxes[i].ty]
        BY <1>3, <3>1 DEF Listed, n
      <4>. QED BY <2>1, <2>3, <3>1, <4>1
    <3>2. CASE i = n + 1
      BY <2>1, <2>3, <3>2 DEF r
    <3>. QED BY <1>3, <3>1, <3>2
  <2>. QED BY <2>4, <2>5, <2>6
<1>. QED BY <1>2, <1>3, <1>4, <1>5

LEMMA CodestreamPromised ==
  ASSUME ReaderInv, ReaderInv', ReaderEmit, HandsCodestream
  PROVE  /\ boxes' = boxes /\ file' = file
         /\ \/ codestream' = codestream
            \/ /\ Len(codestream') > Len(codestream)
               /\ SubSeq(codestream', 1, Len(codestream)) = codestream
<1>1. /\ file' = file /\ cursor \in Nat /\ cursor' \in Nat /\ cursor <= cursor'
      /\ codestream \in Seq(0 .. file.len) /\ file.len \in Nat
  BY EmitReader DEF ReaderInv, ShapeInv, ReaderTypeOK
<1>2. codestream' = codestream \o Span(cursor, cursor') /\ boxes' = boxes
  <2>1. event'.type = "codestream" /\ event'.from = cursor /\ event'.to = cursor' /\ Callback
    BY EmitReader DEF HandsCodestream, CodestreamEvent
  <2>. QED BY <2>1 DEF Callback, auxvars
<1>3. PICK a \in Nat, b \in Nat, c \in Seq(0 .. file.len) :
        a = cursor /\ b = cursor' /\ c = codestream
  BY <1>1
<1>4. a <= b
  <2>1. cursor <= cursor'
    BY <1>1
  <2>. QED BY <1>3, <2>1
<1>5. Span(a, b) \in Seq(Nat) /\ Len(Span(a, b)) = b - a
  BY <1>4, SpanSeq
<1>6. c \in Seq(Nat) /\ Len(c) \in Nat
  <2>1. 0 .. file.len \subseteq Nat
    BY <1>1
  <2>2. c \in Seq(Nat)
    BY <1>1, <1>3, <2>1, SeqMonotonic
  <2>. QED BY <2>2, LenProperties
<1>7. CASE a = b
  <2>1. Span(a, b) = <<>>
    BY <1>7 DEF Span
  <2>2. c \o <<>> = c
    BY <1>6, ConcatEmptySeq
  <2>. QED BY <1>1, <1>2, <1>3, <2>1, <2>2
<1>8. CASE a # b
  <2>. DEFINE t == c \o Span(a, b)
  <2>1. /\ t \in Seq(Nat) /\ Len(t) = Len(c) + (b - a)
        /\ \A i \in 1 .. Len(c) + Len(Span(a, b)) :
              t[i] = IF i <= Len(c) THEN c[i] ELSE Span(a, b)[i - Len(c)]
    BY <1>5, <1>6, ConcatProperties
  <2>. HIDE DEF t
  <2>2. Len(t) > Len(c) /\ \A i \in 1 .. Len(c) : i \in 1 .. Len(t) /\ t[i] = c[i]
    <3>1. PICK n \in Nat, d \in Nat : n = Len(c) /\ d = b - a /\ d > 0
      BY <1>4, <1>6, <1>8
    <3>2. Len(t) = n + d /\ Len(Span(a, b)) = d
      BY <1>5, <2>1, <3>1
    <3>3. ASSUME NEW i \in 1 .. n PROVE i \in 1 .. n + d /\ t[i] = c[i]
      <4>1. i \in 1 .. n + d /\ i <= n
        OBVIOUS
      <4>. QED BY <2>1, <3>1, <3>2, <4>1
    <3>. QED BY <3>1, <3>2, <3>3
  <2>3. \A i \in 1 .. Len(c) : t[i] \in Nat
    BY <2>1, <2>2, ElementOfSeq
  <2>4. SubSeq(t, 1, Len(c)) = c
    <3>1. /\ SubSeq(t, 1, Len(c)) \in Seq(Nat)
          /\ Len(SubSeq(t, 1, Len(c))) = IF 1 <= Len(c) THEN Len(c) - 1 + 1 ELSE 0
          /\ \A i \in 1 .. Len(c) - 1 + 1 : SubSeq(t, 1, Len(c))[i] = t[1 + i - 1]
      BY <1>6, <2>3, SubSeqProperties
    <3>2. Len(SubSeq(t, 1, Len(c))) = Len(c)
      BY <1>6, <3>1
    <3>3. ASSUME NEW i \in 1 .. Len(c)
          PROVE  SubSeq(t, 1, Len(c))[i] = c[i]
      <4>1. 1 + i - 1 = i /\ i \in 1 .. Len(c) - 1 + 1
        BY <1>6
      <4>. QED BY <2>2, <3>1, <4>1
    <3>. QED BY <1>6, <3>1, <3>2, <3>3, SeqEqual
  <2>5. codestream' = t
    BY <1>2, <1>3 DEF t
  <2>. QED BY <1>1, <1>2, <1>3, <2>2, <2>4, <2>5
<1>. QED BY <1>7, <1>8

LEMMA OthersPromised ==
  ASSUME ReaderInv, ReaderEmit,
         Silent \/ AnnouncesEnd \/ OpensBox \/ HandsData \/ (ClosesBox /\ CurrentType = "jbrd")
  PROVE  codestream' = codestream /\ boxes' = boxes /\ file' = file
<1>1. Callback /\ file' = file
  BY EmitReader
<1>2. CASE Silent
  BY <1>1, <1>2 DEF Silent, Callback, readervars
<1>3. CASE AnnouncesEnd
  BY <1>1, <1>3 DEF AnnouncesEnd, NoMoreEvent, Callback, NoMoreBoxes
<1>4. CASE OpensBox
  <2>1. event'.type = "aux_start"
    BY <1>4, Zenon DEF OpensBox, StartEvent
  <2>. QED BY <1>1, <2>1 DEF Callback, BoxStart
<1>5. CASE HandsData
  BY <1>1, <1>5, DataReader DEF DataFacts
<1>6. CASE ClosesBox /\ CurrentType = "jbrd"
  BY <1>1, <1>6, EndBoxReader DEF EndFacts, FinalizeJbrd
<1>. QED BY <1>2, <1>3, <1>4, <1>5, <1>6

\* jxl_container_reader_feed implements what reading a container promises: each
\* step of it hands out the next codestream bytes of the file, or lists the
\* file's next auxiliary box, or does neither.
THEOREM ReaderImplementsStream == ReaderSpec => ImplementsContainerStream
<1>1. ReaderInit => Promise!Init
  <2> SUFFICES ASSUME ReaderInit PROVE Promise!Init
    OBVIOUS
  <2>1. ReaderInv /\ TypeOK /\ codestream = <<>> /\ boxes = <<>>
    BY ReaderInvInit DEF ReaderInit, ReaderInv, Inv
  <2>2. CodestreamPositions \in SUBSET Nat /\ AuxStarts \in SUBSET Nat
    BY <2>1, BoxStartsNat
  <2>3. [i \in DOMAIN boxes |-> [at |-> boxes[i].at, ty |-> boxes[i].ty]] = <<>>
    <3>1. Listed \in Seq([at : AuxStarts, ty : AuxTypes]) /\ Len(Listed) = 0
      BY <2>1, ListedSeq
    <3>2. Listed = <<>>
      BY <3>1
    <3>. QED BY <3>2 DEF Listed
  <2>. QED BY <2>1, <2>2, <2>3 DEF Promise!Init
<1>2. ReaderInv /\ ReaderInv' /\ [ReaderNext]_allvars => [Promise!Next]_(Promise!vars)
  <2> SUFFICES ASSUME ReaderInv, ReaderInv', [ReaderNext]_allvars
               PROVE  [Promise!Next]_(Promise!vars)
    OBVIOUS
  <2>1. /\ file' = file => [p \in AuxStarts |-> InnerType(p)]' = [p \in AuxStarts |-> InnerType(p)]
        /\ file' = file => CodestreamPositions' = CodestreamPositions
    <3>1. ASSUME file' = file
          PROVE  /\ [p \in AuxStarts |-> InnerType(p)]' = [p \in AuxStarts |-> InnerType(p)]
                 /\ CodestreamPositions' = CodestreamPositions
      <4>1. AuxStarts' = AuxStarts /\ CodestreamPositions' = CodestreamPositions
        BY <3>1, FileKept
      <4>. QED BY <3>1, <4>1 DEF InnerType
    <3>. QED BY <3>1
  <2>2. file' = file /\ codestream' = codestream /\ boxes' = boxes => UNCHANGED Promise!vars
    BY <2>1 DEF Promise!vars
  <2>3. CASE (\E n \in 1 .. file.len : ReaderFeed(n)) \/ ReaderReturn \/ UNCHANGED allvars
    <3>1. file' = file /\ codestream' = codestream /\ boxes' = boxes
      BY <2>3 DEF ReaderFeed, ReaderReturn, Feed, Return, allvars, vars, readervars
    <3>. QED BY <2>2, <3>1
  <2>4. CASE ReaderEmit
    <3>1. Silent \/ HandsCodestream \/ AnnouncesEnd \/ OpensBox \/ HandsData \/ ClosesBox
      BY <2>4, EmitReader, EmitTells
    <3>2. CASE Silent \/ AnnouncesEnd \/ OpensBox \/ HandsData
               \/ (ClosesBox /\ CurrentType = "jbrd")
      BY <2>2, <2>4, <3>2, OthersPromised
    <3>3. CASE HandsCodestream
      <4>1. /\ boxes' = boxes /\ file' = file
            /\ \/ codestream' = codestream
               \/ /\ Len(codestream') > Len(codestream)
                  /\ SubSeq(codestream', 1, Len(codestream)) = codestream
        BY <2>4, <3>3, CodestreamPromised
      <4>2. ASSUME NEW i \in 1 .. Len(codestream')
            PROVE  /\ codestream'[i] \in CodestreamPositions
                   /\ Cardinality({x \in CodestreamPositions : x < codestream'[i]}) = i - 1
        BY <4>1, StreamInOrderNext
      <4>3. Promise!InOrder(codestream')
        BY <4>2, SameCardinality DEF Promise!InOrder
      <4>. QED BY <2>1, <2>2, <4>1, <4>3 DEF Promise!Next, Promise!Deliver
    <3>4. CASE ClosesBox /\ CurrentType # "jbrd"
      <4>. DEFINE shelf == [p \in AuxStarts |-> InnerType(p)]
      <4>1. /\ codestream' = codestream /\ file' = file
            /\ pending_header \in AuxStarts
            /\ Cardinality({q \in AuxStarts : q < pending_header}) = Len(Listed)
            /\ Listed' = Append(Listed, [at |-> pending_header, ty |-> InnerType(pending_header)])
        BY <2>4, <3>4, EndPromised
      <4>2. DOMAIN shelf = AuxStarts /\ shelf[pending_header] = InnerType(pending_header)
        BY <4>1
      <4>3. \E p \in DOMAIN shelf :
              /\ Cardinality({q \in DOMAIN shelf : q < p}) = Len(Listed)
              /\ Listed' = Append(Listed, [at |-> p, ty |-> shelf[p]])
        BY <4>1, <4>2
      <4>4. Promise!Cardinality({q \in DOMAIN shelf : q < pending_header}) = Len(Listed)
        BY <4>1, <4>2, SameCardinality
      <4>. QED BY <2>1, <4>1, <4>2, <4>4 DEF Promise!Next, Promise!List, Listed
    <3>. QED BY <3>1, <3>2, <3>3, <3>4
  <2>. QED BY <2>3, <2>4 DEF ReaderNext
<1>. QED BY <1>1, <1>2, AlwaysReaderInv, PTL DEF ReaderSpec, ImplementsContainerStream, Promise!Spec

-----------------------------------------------------------------------------
(* The decoder in front of the reader *)

(* What jxl_decoder_try_init has accepted, and what chunks that end between *)
(* headers leave behind.                                                    *)
InitializedInv ==
  initialized =>
    Len(codestream) >= ImageHeaderLen /\ codestream_kind \in {"bare", "container"}
CleanInv == clean => \A u \in Units : ~(u[1] < fed /\ fed < u[2])
PartialInv == Sound(file) /\ AuxSound /\ clean /\ ~split => ~partial

SessionInv == InitializedInv /\ CleanInv /\ PartialInv

LEMMA SessionIsReader == [SessionNext]_sessionvars => [ReaderNext]_allvars
BY DEF SessionNext, DecoderFeed, DecoderEmit, DecoderReturn, TryInit, ReaderNext, sessionvars

LEMMA SessionReads == SessionSpec => ReaderSpec
BY SessionIsReader, PTL DEF SessionSpec, SessionInit, ReaderSpec

LEMMA ReaderStepKeeps ==
  ASSUME ReaderInv, [ReaderNext]_allvars
  PROVE  /\ file' = file /\ (split => split')
         /\ Len(codestream) \in Nat /\ Len(codestream') >= Len(codestream)
         /\ codestream # <<>> /\ codestream_kind \in {"bare", "container"} =>
              codestream_kind' \in {"bare", "container"}
<1>1. codestream \in Seq(0 .. file.len) /\ Len(codestream) \in Nat
  <2>1. codestream \in Seq(0 .. file.len)
    BY DEF ReaderInv, ShapeInv, ReaderTypeOK
  <2>. QED BY <2>1, LenProperties
<1>2. CASE (\E n \in 1 .. file.len : ReaderFeed(n)) \/ ReaderReturn \/ UNCHANGED allvars
  <2>1. /\ file' = file /\ codestream_kind' = codestream_kind
        /\ codestream' = codestream /\ split' = split
    BY <1>2 DEF ReaderFeed, ReaderReturn, Feed, Return, allvars, vars, readervars
  <2>. QED BY <1>1, <2>1
<1>3. CASE ReaderEmit
  <2>1. /\ Emit /\ Inv /\ Callback /\ file' = file
    BY <1>3, EmitReader
  <2>2. split => split'
    BY <2>1 DEF Callback, readervars, auxvars, NoMoreBoxes, BoxStart, BoxData, BoxEnd
  <2>3. codestream' = codestream \/ Len(codestream') > Len(codestream)
    <3>1. CASE HandsCodestream
      BY <1>3, <3>1, ReaderInvStep, CodestreamPromised DEF ReaderNext
    <3>2. CASE ~HandsCodestream
      <4>1. Silent \/ AnnouncesEnd \/ OpensBox \/ HandsData \/ ClosesBox
        BY <2>1, <3>2, EmitTells
      <4>2. CASE ClosesBox /\ CurrentType # "jbrd"
        BY <1>3, <4>2, EndBoxReader DEF EndFacts
      <4>. QED BY <1>3, <4>1, <4>2, OthersPromised
    <3>. QED BY <3>1, <3>2
  <2>4. Len(codestream') \in Nat /\ Len(codestream') >= Len(codestream)
    <3>1. ReaderInv'
      BY <1>3, ReaderInvStep DEF ReaderNext
    <3>2. codestream' \in Seq(0 .. file'.len)
      BY <3>1 DEF ReaderInv, ShapeInv, ReaderTypeOK
    <3>3. Len(codestream') \in Nat
      BY <3>2, LenProperties
    <3>. QED BY <1>1, <2>3, <3>3
  <2>5. codestream # <<>> /\ codestream_kind \in {"bare", "container"} =>
              codestream_kind' \in {"bare", "container"}
    <3>1. state = "WAITING_SIGNATURE" => codestream = <<>>
      <4>1. SUFFICES ASSUME state = "WAITING_SIGNATURE", codestream # <<>> PROVE FALSE
        OBVIOUS
      <4>2. cursor = 0 /\ StreamInv
        BY <2>1, <4>1, EmitFrame DEF PlaceInv, SignatureInv, ReaderInv
      <4>3. 1 \in 1 .. Len(codestream)
        <5>1. Len(codestream) # 0
          BY <1>1, <4>1, EmptySeq
        <5>. QED BY <1>1, <5>1
      <4>4. codestream[1] \in Nat /\ codestream[1] < cursor
        BY <2>1, <4>2, <4>3, BoxStartsNat DEF StreamInv, Inv
      <4>. QED BY <4>2, <4>4
    <3>. QED BY <2>1, <3>1, KindKept
  <2>. QED BY <1>1, <2>1, <2>2, <2>4, <2>5
<1>. QED BY <1>2, <1>3 DEF ReaderNext

LEMMA UnitsKept == file' = file => Units' = Units
BY DEF Units, Starts, PayloadStart

(* emit has taken all of the bytes when it stops in a sound file and no chunk *)
(* has ended inside what it takes as a whole.                                 *)
LEMMA CleanReturn ==
  ASSUME ReaderInv, CleanInv, clean, Sound(file), Return
  PROVE  ~LeftOver
<1>1. Starved /\ TypeOK /\ status = "OK" /\ PlaceInv
  BY DEF Return, ReaderInv, Inv, CallInv
<1>2. cursor \in Nat /\ fed \in Nat /\ cursor <= fed
  BY <1>1, FileTyped DEF TypeOK
<1>3. \A u \in Units : ~(u[1] < fed /\ fed < u[2])
  BY DEF CleanInv
<1>4. ASSUME state = "WAITING_SIGNATURE",
             ~StartsWith("bare", CodestreamSigLen), ~StartsWith("container", ContainerSigLen)
      PROVE  cursor = fed
  <2>1. cursor = 0 /\ file.sig \in {"bare", "container"}
    BY <1>1, <1>4 DEF PlaceInv, SignatureInv, Sound
  <2>2. CASE file.sig = "bare"
    <3>1. <<0, CodestreamSigLen>> \in Units
      BY <2>2 DEF Units
    <3>2. ~(0 < fed /\ fed < CodestreamSigLen)
      BY <1>3, <3>1
    <3>. QED BY <1>2, <1>4, <2>1, <2>2, <3>2 DEF StartsWith, Remaining, CodestreamSigLen
  <2>3. CASE file.sig = "container"
    <3>1. <<0, ContainerSigLen>> \in Units
      BY <2>3 DEF Units
    <3>2. ~(0 < fed /\ fed < ContainerSigLen)
      BY <1>3, <3>1
    <3>. QED BY <1>2, <1>4, <2>1, <2>3, <3>2 DEF StartsWith, Remaining, ContainerSigLen
  <2>. QED BY <2>1, <2>2, <2>3
<1>5. ASSUME state = "WAITING_BOX_HEADER", cursor \in DOMAIN file.box,
             HeaderSize(file.box[cursor]) = 0
      PROVE  cursor = fed
  <2>1. <<cursor, cursor + file.box[cursor].hdr>> \in Units
    BY <1>5 DEF Units, Starts
  <2>2. ~(cursor < fed /\ fed < cursor + file.box[cursor].hdr)
    BY <1>3, <2>1
  <2>3. ~file.box[cursor].bad
    BY <1>5 DEF Sound
  <2>4. file.box[cursor].hdr \in {8, 16}
    BY <1>1, <1>5, BoxTyped
  <2>. QED BY <1>2, <1>5, <2>2, <2>3, <2>4 DEF HeaderSize, Remaining
<1>6. ASSUME pending_header \in DOMAIN file.box, Pending.ty \in {"jxlp", "brob"},
             cursor = pending_header + Pending.hdr, Remaining < 4
      PROVE  cursor = fed
  <2>1. <<pending_header + Pending.hdr, PayloadStart(pending_header)>> \in Units
    BY <1>6 DEF Units, Starts, Pending
  <2>2. ~(cursor < fed /\ fed < PayloadStart(pending_header))
    BY <1>3, <1>6, <2>1
  <2>3. PayloadStart(pending_header) = cursor + 4
    BY <1>6 DEF PayloadStart, Pending
  <2>. QED BY <1>2, <1>6, <2>2, <2>3 DEF Remaining
<1>7. state = "WAITING_JXLP_INDEX" /\ Remaining < 4 => cursor = fed
  BY <1>1, <1>6 DEF PlaceInv, JxlpInv
<1>8. state = "IN_AUX_BOX" /\ AwaitsInnerType /\ Remaining < 4 => cursor = fed
  BY <1>1, <1>6 DEF PlaceInv, AuxInv, AwaitsInnerType
<1>. QED BY <1>1, <1>4, <1>5, <1>7, <1>8 DEF Starved, LeftOver

LEMMA SessionInvInit == SessionInit => SessionInv
<1> SUFFICES ASSUME SessionInit PROVE SessionInv
  OBVIOUS
<1>1. TypeOK /\ fed = 0 /\ initialized = FALSE /\ partial = FALSE
  BY ReaderInvInit DEF SessionInit, ReaderInit, Init, ReaderInv, Inv
<1>2. ASSUME NEW u \in Units PROVE ~(u[1] < 0)
  <2>1. u[1] = 0 \/ \E p \in DOMAIN file.box : u[1] = p \/ u[1] = p + file.box[p].hdr
    BY <1>2 DEF Units, Starts
  <2>2. \A p \in DOMAIN file.box : p \in Nat /\ file.box[p].hdr \in {8, 16}
    BY <1>1, BoxTyped
  <2>. QED BY <2>1, <2>2
<1>. QED BY <1>1, <1>2 DEF SessionInv, InitializedInv, CleanInv, PartialInv

LEMMA SessionInvStep ==
  ASSUME ReaderInv, SessionInv, [SessionNext]_sessionvars
  PROVE  SessionInv'
<1>1. /\ file' = file /\ (split => split') /\ AuxSound' = AuxSound /\ Units' = Units
      /\ Len(codestream) \in Nat /\ Len(codestream') >= Len(codestream)
      /\ codestream # <<>> /\ codestream_kind \in {"bare", "container"} =>
           codestream_kind' \in {"bare", "container"}
  BY SessionIsReader, ReaderStepKeeps, FileKept, UnitsKept
<1>2. Len(codestream') \in Nat
  <2>1. ReaderInv'
    BY SessionIsReader, ReaderInvStep
  <2>2. codestream' \in Seq(0 .. file'.len)
    BY <2>1 DEF ReaderInv, ShapeInv, ReaderTypeOK
  <2>. QED BY <2>2, LenProperties
<1>3. InitializedInv /\ CleanInv /\ PartialInv
  BY DEF SessionInv
<1>4. initialized => codestream # <<>>
  <2>1. SUFFICES ASSUME initialized, codestream = <<>> PROVE FALSE
    OBVIOUS
  <2>2. Len(codestream) = 0 /\ Len(codestream) >= ImageHeaderLen
    BY <1>3, <2>1 DEF InitializedInv
  <2>. QED BY <2>2, HeaderAssumption
<1>5. initialized' = initialized => InitializedInv'
  <2>1. SUFFICES ASSUME initialized' = initialized, initialized
                 PROVE  /\ Len(codestream') >= ImageHeaderLen
                        /\ codestream_kind' \in {"bare", "container"}
    BY DEF InitializedInv
  <2>2. Len(codestream) >= ImageHeaderLen /\ codestream_kind \in {"bare", "container"}
    BY <1>3, <2>1 DEF InitializedInv
  <2>. QED BY <1>1, <1>2, <1>4, <2>1, <2>2, HeaderAssumption
<1>6. CASE \E n \in 1 .. file.len : DecoderFeed(n)
  <2>1. PICK n \in 1 .. file.len : DecoderFeed(n)
    BY <1>6
  <2>2. /\ clean' = (clean /\ \A u \in Units : ~(u[1] < fed + n /\ fed + n < u[2]))
        /\ fed' = fed + n /\ partial' = partial /\ initialized' = initialized
    BY <2>1 DEF DecoderFeed, ReaderFeed, Feed
  <2>3. (clean' => clean) /\ CleanInv'
    BY <1>1, <2>2 DEF CleanInv
  <2>4. PartialInv'
    BY <1>1, <1>3, <2>2, <2>3 DEF PartialInv
  <2>. QED BY <1>5, <2>2, <2>3, <2>4 DEF SessionInv
<1>7. CASE DecoderEmit
  <2>1. /\ clean' = clean /\ fed' = fed /\ partial' = partial /\ initialized' = initialized
    BY <1>7, EmitReader, EmitFrame DEF DecoderEmit, decvars
  <2>2. CleanInv' /\ PartialInv'
    BY <1>1, <1>3, <2>1 DEF CleanInv, PartialInv
  <2>. QED BY <1>5, <2>1, <2>2 DEF SessionInv
<1>8. CASE DecoderReturn
  <2>1. /\ clean' = clean /\ fed' = fed /\ partial' = LeftOver /\ initialized' = initialized
        /\ Return /\ split' = split
    BY <1>8 DEF DecoderReturn, ReaderReturn, Return, readervars
  <2>2. CleanInv'
    BY <1>1, <1>3, <2>1 DEF CleanInv
  <2>3. PartialInv'
    BY <1>1, <1>3, <2>1, CleanReturn DEF PartialInv
  <2>. QED BY <1>5, <2>1, <2>2, <2>3 DEF SessionInv
<1>9. CASE TryInit
  <2>1. /\ clean' = clean /\ fed' = fed /\ partial' = partial /\ split' = split
        /\ codestream' = codestream /\ codestream_kind' = codestream_kind
        /\ initialized' = (InitOutcome = "OK")
    BY <1>9 DEF TryInit, allvars, vars, readervars
  <2>2. CleanInv' /\ PartialInv'
    BY <1>1, <1>3, <2>1 DEF CleanInv, PartialInv
  <2>3. InitializedInv'
    <3>1. SUFFICES ASSUME initialized'
                   PROVE  Len(codestream) >= ImageHeaderLen /\ codestream_kind \in {"bare", "container"}
      BY <2>1 DEF InitializedInv
    <3>2. HeaderComplete /\ codestream_kind # "invalid" /\ ~(Len(codestream) < 3)
      BY <2>1, <3>1 DEF InitOutcome
    <3>3. codestream # <<>>
      BY <1>1, <3>2
    <3>4. codestream_kind # "unknown" /\ codestream_kind \in {"unknown", "bare", "invalid", "container"}
      BY <3>3 DEF ReaderInv, StreamInv, Inv, TypeOK
    <3>. QED BY <3>2, <3>4 DEF HeaderComplete
  <2>. QED BY <2>2, <2>3 DEF SessionInv
<1>10. CASE UNCHANGED sessionvars
  <2>1. /\ clean' = clean /\ fed' = fed /\ partial' = partial /\ split' = split
        /\ initialized' = initialized
    BY <1>10 DEF sessionvars, decvars, allvars, vars, readervars
  <2>2. CleanInv' /\ PartialInv'
    BY <1>1, <1>3, <2>1 DEF CleanInv, PartialInv
  <2>. QED BY <1>5, <2>1, <2>2 DEF SessionInv
<1>. QED BY <1>6, <1>7, <1>8, <1>9, <1>10 DEF SessionNext

LEMMA AlwaysSessionInv == SessionSpec => [](ReaderInv /\ SessionInv)
<1>1. SessionSpec => []ReaderInv
  BY SessionReads, AlwaysReaderInv, PTL
<1>2. ReaderInv /\ SessionInv /\ [SessionNext]_sessionvars => SessionInv'
  BY SessionInvStep
<1>. QED BY <1>1, <1>2, SessionInvInit, PTL DEF SessionSpec

\* When jxl_decoder_try_init has accepted a header, its bytes are the first ones
\* of the file's own codestream, in order, and the file has a signature.
THEOREM AlwaysInitializedFromCodestream == SessionSpec => []InitializedFromCodestream
<1>1. ReaderInv /\ SessionInv => InitializedFromCodestream
  <2> SUFFICES ASSUME ReaderInv, SessionInv, initialized
               PROVE  /\ codestream_kind \in {"bare", "container"}
                      /\ \A i \in 1 .. ImageHeaderLen :
                           /\ codestream[i] \in CodestreamPositions
                           /\ Cardinality({q \in CodestreamPositions : q < codestream[i]}) = i - 1
    BY DEF InitializedFromCodestream
  <2>1. Len(codestream) >= ImageHeaderLen /\ codestream_kind \in {"bare", "container"}
    BY DEF SessionInv, InitializedInv
  <2>2. codestream \in Seq(0 .. file.len) /\ Len(codestream) \in Nat
    BY LenProperties DEF ReaderInv, ShapeInv, ReaderTypeOK
  <2>3. \A i \in 1 .. ImageHeaderLen : i \in 1 .. Len(codestream)
    BY <2>1, <2>2, HeaderAssumption
  <2>. QED BY <2>1, <2>3, StreamInOrder
<1>. QED BY <1>1, AlwaysSessionInv, PTL

\* jxl_decoder_feed refuses nothing of a sound file that is cut between headers:
\* no call fails, and none leaves bytes behind for "unexpected partial container
\* feed", as long as compressed payloads come in one piece and the jbrd data is
\* not longer than the first buffer grow_out allots.
THEOREM CleanChunksAlwaysAccepted == SessionSpec => []CleanChunksAccepted
<1>1. ReaderInv /\ SessionInv => CleanChunksAccepted
  BY DEF ReaderInv, SoundInv, AcceptedInv, SessionInv, PartialInv, CleanChunksAccepted, Broken
<1>. QED BY <1>1, AlwaysSessionInv, PTL

-----------------------------------------------------------------------------
(* The answers to metadata queries *)

(* A nonempty set of numbers has a least element. *)
LEMMA LeastOf ==
  ASSUME NEW T \in SUBSET Nat, T # {}
  PROVE  \E x \in T : \A y \in T : x <= y
<1>. DEFINE R == OpToRel(<, Nat)
<1>1. IsWellFoundedOn(R, Nat)
  BY NatLessThanWellFounded
<1>2. \A x, y \in Nat : x < y => <<x, y>> \in R
  BY DEF OpToRel
<1>. HIDE DEF R
<1>3. PICK x \in T : \A y \in T : ~(<<y, x>> \in R)
  BY <1>1, WFMin
<1>4. \A y \in T : x <= y
  <2>1. ASSUME NEW y \in T PROVE x <= y
    <3>1. x \in Nat /\ y \in Nat /\ ~(y < x)
      BY <1>2, <1>3
    <3>. QED BY <3>1
  <2>. QED BY <2>1
<1>. QED BY <1>4

(* The first box of a type stays the first when a box is added behind it. *)
Lists(ty) == {i \in DOMAIN boxes : boxes[i].ty = ty}
Grows ==
  /\ IsSeq(boxes') /\ Len(boxes') >= Len(boxes)
  /\ \A i \in 1 .. Len(boxes) : boxes'[i] = boxes[i]

LEMMA FirstStays ==
  ASSUME IsSeq(boxes), Grows, NEW ty, Lists(ty) # {}
  PROVE  Lists(ty)' # {} /\ FirstOf(ty)' = FirstOf(ty)
<1>. DEFINE is == Lists(ty)
            is2 == {i \in DOMAIN boxes' : boxes'[i].ty = ty}
<1>1. DOMAIN boxes = 1 .. Len(boxes) /\ Len(boxes) \in Nat
  BY DEF IsSeq
<1>2. DOMAIN boxes' = 1 .. Len(boxes') /\ Len(boxes') \in Nat
  BY DEF IsSeq, Grows
<1>3. is \subseteq Nat /\ is \subseteq 1 .. Len(boxes)
  BY <1>1 DEF Lists
<1>4. is2 \subseteq Nat /\ is2 = Lists(ty)'
  BY <1>2 DEF Lists
<1>5. \A i \in 1 .. Len(boxes) : i \in 1 .. Len(boxes') /\ boxes'[i] = boxes[i]
  BY <1>1, <1>2 DEF Grows
<1>6. is \subseteq is2
  BY <1>1, <1>2, <1>5 DEF Lists
<1>7. \A i \in is2 : i <= Len(boxes) => i \in is
  <2>1. ASSUME NEW i \in is2, i <= Len(boxes) PROVE i \in is
    <3>1. i \in 1 .. Len(boxes)
      BY <1>1, <1>2, <2>1
    <3>. QED BY <1>1, <1>5, <2>1, <3>1 DEF Lists
  <2>. QED BY <2>1
<1>. HIDE DEF is, is2
<1>8. PICK m \in is : \A j \in is : m <= j
  <2>1. is # {}
    BY DEF is
  <2>. QED BY <1>3, <2>1, LeastOf
<1>9. ASSUME NEW j \in is2 PROVE m <= j
  <2>1. CASE j <= Len(boxes)
    BY <1>7, <1>8, <2>1
  <2>2. CASE ~(j <= Len(boxes))
    BY <1>1, <1>3, <1>4, <1>8, <2>2
  <2>. QED BY <2>1, <2>2
<1>10. (CHOOSE i \in is : \A j \in is : i <= j) = m
  <2>1. \A i \in is : (\A j \in is : i <= j) => i = m
    BY <1>3, <1>8
  <2>. QED BY <1>8, <2>1
<1>11. (CHOOSE i \in is2 : \A j \in is2 : i <= j) = m
  <2>1. m \in is2
    BY <1>6, <1>8
  <2>2. \A i \in is2 : (\A j \in is2 : i <= j) => i = m
    BY <1>4, <1>9, <2>1
  <2>. QED BY <1>9, <2>1, <2>2
<1>12. FirstOf(ty) = boxes[m]
  BY <1>10 DEF FirstOf, is, Lists
<1>13. FirstOf(ty)' = boxes'[m]
  BY <1>11 DEF FirstOf, is2
<1>14. boxes'[m] = boxes[m]
  BY <1>3, <1>5, <1>8
<1>. QED BY <1>4, <1>6, <1>8, <1>12, <1>13, <1>14

(* A step of emit adds to the list, if anything; and once the last box is   *)
(* known, it neither opens nor closes one.                                  *)
LEMMA ListGrows ==
  ASSUME ReaderInv, ReaderEmit
  PROVE  /\ Grows /\ (jbrd.phase # "absent" => jbrd'.phase # "absent")
         /\ last_box =>
              /\ boxes' = boxes /\ last_box'
              /\ current_box_ty' \in {current_box_ty, "none"}
              /\ current_box_ty # "jbrd" => jbrd' = jbrd
<1>0. /\ IsSeq(boxes) /\ ReaderInv' /\ Callback /\ Alive /\ OpenInv /\ LastInv
      /\ jbrd.phase \in {"absent", "parsed", "finalized"} /\ last_box \in BOOLEAN
      /\ jbrd = [phase |-> jbrd.phase, staged |-> jbrd.staged, brotli |-> jbrd.brotli]
  BY EmitReader, ReaderInvStep DEF ReaderInv, ShapeInv, ReaderTypeOK, ReaderNext
<1>1. boxes' = boxes => Grows
  BY <1>0 DEF Grows, IsSeq
<1>2. CASE Silent
  <2>1. UNCHANGED readervars
    BY <1>0, <1>2 DEF Silent, Callback
  <2>. QED BY <1>1, <2>1 DEF readervars
<1>3. CASE HandsCodestream
  <2>1. event'.type = "codestream"
    BY <1>3 DEF HandsCodestream, CodestreamEvent
  <2>2. UNCHANGED auxvars
    BY <1>0, <2>1 DEF Callback
  <2>. QED BY <1>1, <2>2 DEF auxvars
<1>4. CASE AnnouncesEnd
  BY <1>0, <1>1, <1>4 DEF AnnouncesEnd, NoMoreEvent, Callback, NoMoreBoxes
<1>5. CASE OpensBox
  <2>1. event'.type = "aux_start"
    BY <1>5, Zenon DEF OpensBox, StartEvent
  <2>2. BoxStart
    BY <1>0, <2>1 DEF Callback
  <2>3. boxes' = boxes /\ jbrd' = jbrd
    BY <2>2 DEF BoxStart
  <2>4. ~last_box
    BY <1>0, <1>5 DEF OpensBox, LastInv
  <2>. QED BY <1>1, <2>3, <2>4
<1>6. CASE HandsData
  <2>1. /\ boxes' = boxes /\ last_box' = last_box /\ current_box_ty' = CurrentType
        /\ Opened
    BY <1>6, DataReader DEF DataFacts
  <2>2. current_box_ty = CurrentType
    BY <1>0, <2>1 DEF OpenInv
  <2>3. CurrentType # "jbrd" => jbrd' = jbrd
    BY <1>6, DataReader
  <2>4. CurrentType = "jbrd" => JbrdFeed(cursor' - cursor)
    BY <1>6, DataReader
  <2>5. jbrd.phase # "absent" => jbrd'.phase # "absent"
    <3>1. CASE CurrentType # "jbrd"
      BY <2>3, <3>1
    <3>2. CASE CurrentType = "jbrd"
      <4>1. CASE jbrd.phase = "finalized"
        BY <2>4, <3>2, <4>1 DEF JbrdFeed
      <4>2. CASE jbrd.phase = "parsed"
        <5>1. \/ jbrd' = jbrd
              \/ jbrd' = [jbrd EXCEPT !.brotli = BrotliFeed(@, pending_header, cursor' - cursor)]
          BY <2>4, <3>2, <4>2 DEF JbrdFeed
        <5>2. PICK b : jbrd' = jbrd \/ jbrd' = [jbrd EXCEPT !.brotli = b]
          BY <5>1
        <5>3. PICK f, s, c : jbrd = [phase |-> f, staged |-> s, brotli |-> c]
          BY <1>0
        <5>4. jbrd'.phase = jbrd.phase
          BY <5>2, <5>3
        <5>. QED BY <4>2, <5>4
      <4>. QED BY <1>0, <4>1, <4>2
    <3>. QED BY <3>1, <3>2
  <2>. QED BY <1>0, <1>1, <2>1, <2>2, <2>3, <2>5
<1>7. CASE ClosesBox
  <2>1. /\ IF CurrentType = "jbrd" THEN FinalizeJbrd ELSE FinalizeBox
        /\ Pending.sized
    BY <1>7, EndBoxReader DEF ClosesBox
  <2>2. ~last_box
    BY <1>0, <1>7 DEF ClosesBox, LastInv, Opened
  <2>3. CASE CurrentType = "jbrd"
    <3>1. boxes' = boxes
      BY <2>1, <2>3 DEF FinalizeJbrd
    <3>2. jbrd' = jbrd \/ jbrd'.phase = "finalized"
      BY <1>0, <2>1, <2>3 DEF FinalizeJbrd
    <3>. QED BY <1>1, <2>2, <3>1, <3>2
  <2>4. CASE CurrentType # "jbrd"
    <3>1. boxes' = Append(boxes, Entry) /\ jbrd' = jbrd
      BY <2>1, <2>4 DEF FinalizeBox
    <3>2. PICK e : e = Entry
      OBVIOUS
    <3>3. /\ IsSeq(boxes') /\ Len(boxes') = Len(boxes) + 1
          /\ \A i \in 1 .. Len(boxes) : boxes'[i] = boxes[i]
      BY <1>0, <3>1, <3>2, AppendAny
    <3>4. Len(boxes) \in Nat
      BY <1>0 DEF IsSeq
    <3>5. Grows
      BY <3>3, <3>4 DEF Grows
    <3>. QED BY <2>2, <3>1, <3>5
  <2>. QED BY <2>3, <2>4
<1>8. Silent \/ HandsCodestream \/ AnnouncesEnd \/ OpensBox \/ HandsData \/ ClosesBox
  BY EmitReader, EmitTells
<1>. QED BY <1>2, <1>3, <1>4, <1>5, <1>6, <1>7, <1>8

LEMMA FoundStays ==
  ASSUME ReaderInv, ReaderEmit, NEW ty, ty # "none", FirstOfType(ty).tag # "DECODING"
  PROVE  FirstOfType(ty)' = FirstOfType(ty)
<1>1. /\ Grows /\ IsSeq(boxes)
      /\ last_box => /\ boxes' = boxes /\ last_box'
                     /\ current_box_ty' \in {current_box_ty, "none"}
  BY ListGrows DEF ReaderInv, ShapeInv
<1>2. CASE Lists(ty) # {}
  <2>1. Lists(ty)' # {} /\ FirstOf(ty)' = FirstOf(ty)
    BY <1>1, <1>2, FirstStays
  <2>2. /\ \E i \in DOMAIN boxes : boxes[i].ty = ty
        /\ \E i \in DOMAIN boxes' : boxes'[i].ty = ty
    BY <1>2, <2>1 DEF Lists
  <2>3. FirstOfType(ty) = [tag |-> "HAS_DATA", data |-> FirstOf(ty).data]
    BY <2>2 DEF FirstOfType
  <2>4. FirstOfType(ty)' = [tag |-> "HAS_DATA", data |-> FirstOf(ty)'.data]
    BY <2>2 DEF FirstOfType
  <2>. QED BY <2>1, <2>3, <2>4
<1>3. CASE Lists(ty) = {}
  <2>1. ~\E i \in DOMAIN boxes : boxes[i].ty = ty
    BY <1>3 DEF Lists
  <2>2. FirstOfType(ty) =
          [tag |-> IF last_box /\ current_box_ty # ty THEN "NOT_FOUND" ELSE "DECODING"]
    BY <2>1 DEF FirstOfType
  <2>3. last_box /\ current_box_ty # ty
    BY <2>2
  <2>4. boxes' = boxes /\ last_box' /\ current_box_ty' # ty
    BY <1>1, <2>3
  <2>5. FirstOfType(ty)' = [tag |-> "NOT_FOUND"]
    BY <2>1, <2>4 DEF FirstOfType
  <2>. QED BY <2>2, <2>3, <2>5
<1>. QED BY <1>2, <1>3

\* An answer to a metadata query (jxl_decoder_first_exif and the jbrd status,
\* jxl_aux_box_list_jbrd) is final: once it is not "decoding", no further input
\* changes it.
THEOREM AnswersAlwaysFinal == SessionSpec => AnswersFinal
<1>1. ASSUME ReaderInv, [SessionNext]_sessionvars
      PROVE  [/\ Exif.tag # "DECODING" => Exif' = Exif
              /\ JbrdTag # "DECODING" => JbrdTag' = JbrdTag]_sessionvars
  <2>1. CASE ReaderEmit
    <3>1. Exif.tag # "DECODING" => Exif' = Exif
      <4>1. SUFFICES ASSUME Exif.tag # "DECODING" PROVE Exif' = Exif
        OBVIOUS
      <4>2. FirstOfType("Exif").tag # "DECODING"
        BY <4>1 DEF Exif
      <4>3. FirstOfType("Exif")' = FirstOfType("Exif")
        BY <1>1, <2>1, <4>2, FoundStays
      <4>. QED BY <4>3 DEF Exif
    <3>2. JbrdTag # "DECODING" => JbrdTag' = JbrdTag
      BY <1>1, <2>1, ListGrows DEF JbrdTag
    <3>. QED BY <3>1, <3>2
  <2>2. CASE UNCHANGED readervars
    BY <2>2 DEF readervars, Exif, FirstOfType, FirstOf, JbrdTag
  <2>3. ReaderEmit \/ UNCHANGED readervars
    BY <1>1 DEF SessionNext, DecoderFeed, DecoderEmit, DecoderReturn, TryInit, ReaderFeed,
                ReaderReturn, sessionvars, allvars
  <2>. QED BY <2>1, <2>2, <2>3
<1>2. SessionSpec => []ReaderInv
  BY SessionReads, AlwaysReaderInv, PTL
<1>. QED BY <1>1, <1>2, PTL DEF SessionSpec, AnswersFinal

=============================================================================
