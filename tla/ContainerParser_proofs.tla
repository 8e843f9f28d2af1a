----------------------- MODULE ContainerParser_proofs -----------------------
(***************************************************************************)
(* What the parser guarantees for every file and every way of cutting it   *)
(* into chunks.  The invariant says, for each parser state, where in the   *)
(* file the parser stands; the safety properties of ContainerParser follow *)
(* from it.                                                                *)
(***************************************************************************)
EXTENDS ContainerParser, TLAPS

Current == accepted[Len(accepted)]

CallInv == call # "idle" => status = "OK"

(* Nothing has happened before the signature. *)
SignatureInv ==
  state = "WAITING_SIGNATURE" =>
    cursor = 0 /\ accepted = <<>> /\ ~no_more /\ jxlp_index_state = "INITIAL"

(* Only a container has boxes to walk, and the walk stops at box starts. *)
HeaderInv ==
  /\ state \in {"WAITING_BOX_HEADER", "WAITING_JXLP_INDEX", "IN_AUX_BOX"} =>
       file.sig = "container" /\ ~no_more
  /\ state = "WAITING_BOX_HEADER" /\ cursor < file.len => cursor \in DOMAIN file.box

(* The header of a jxlp box has been read, its index has not. *)
JxlpInv ==
  state = "WAITING_JXLP_INDEX" =>
    /\ pending_header \in DOMAIN file.box
    /\ Pending.ty = "jxlp"
    /\ Pending.sized => Pending.size >= 4
    /\ cursor = pending_header + Pending.hdr
    /\ jxlp_index_state = "INDEXED"

(* Codestream bytes: all of a bare file, or the payload of the current box. *)
BareInv ==
  state = "IN_CODESTREAM" /\ file.sig # "container" =>
    ~has_bytes_left /\ accepted = <<>> /\ codestream_kind \in {"bare", "invalid"}
BoxedInv ==
  state = "IN_CODESTREAM" /\ file.sig = "container" =>
    /\ accepted # <<>>
    /\ file.box[Current].ty \in {"jxlc", "jxlp"}
    /\ has_bytes_left = file.box[Current].sized
    /\ PayloadStart(Current) <= cursor
    /\ has_bytes_left => cursor + bytes_left = PayloadEnd(Current)
    /\ codestream_kind = "container"
    /\ pending_no_more_aux_box \/ no_more => ~file.box[Current].sized

(* The payload of an auxiliary box, in front of the wrapped type or after it. *)
AuxInv ==
  state = "IN_AUX_BOX" =>
    /\ pending_header \in DOMAIN file.box
    /\ Pending.ty \in AuxTypes \cup {"brob"}
    /\ has_brotli_inner_type => Pending.ty = "brob" /\ Pending.inner \in AuxTypes \ ReservedInner
    /\ has_bytes_left = Pending.sized
    /\ has_bytes_left => cursor + bytes_left = PayloadEnd(pending_header)
    /\ IF AwaitsInnerType
       THEN /\ cursor = pending_header + Pending.hdr
            /\ has_bytes_left => bytes_left >= 4
       ELSE PayloadStart(pending_header) <= cursor

(* The codestream boxes entered so far, and what may come next. *)
NextIndex == IF state = "WAITING_JXLP_INDEX" THEN jxlp_expected_index
             ELSE jxlp_expected_index + 1
OrderInv ==
  /\ jxlp_index_state = "INITIAL" => accepted = <<>>
  /\ jxlp_index_state = "SINGLE_JXLC" =>
       Len(accepted) = 1 /\ file.box[accepted[1]].ty = "jxlc"
  /\ jxlp_index_state \in {"INDEXED", "FINISHED"} =>
       \A i \in 1 .. Len(accepted) :
          file.box[accepted[i]].ty = "jxlp" /\ file.box[accepted[i]].idx = i - 1
  /\ jxlp_index_state = "INDEXED" =>
       /\ Len(accepted) = NextIndex
       /\ \A i \in 1 .. Len(accepted) : ~file.box[accepted[i]].last
  /\ jxlp_index_state = "FINISHED" =>
       \A i \in 1 .. Len(accepted) : file.box[accepted[i]].last => i = Len(accepted)

NoMoreInv == no_more => state = "IN_CODESTREAM" /\ \A p \in DOMAIN file.box : p < cursor

PlaceInv == /\ SignatureInv /\ HeaderInv /\ JxlpInv /\ BareInv /\ BoxedInv /\ AuxInv

Inv == /\ TypeOK /\ CallInv
       /\ (status = "OK" => PlaceInv)
       /\ OrderInv /\ NoMoreInv /\ DataFaithful

-----------------------------------------------------------------------------
(* Facts about the file *)

LEMMA BoxTyped ==
  ASSUME TypeOK, NEW p \in DOMAIN file.box
  PROVE  /\ p \in Nat /\ file.len \in Nat
         /\ file.box[p].ty \in BoxTypes
         /\ file.box[p].hdr \in {8, 16}
         /\ file.box[p].sized \in BOOLEAN
         /\ file.box[p].size \in Nat
         /\ file.box[p].idx \in Nat
         /\ file.box[p].last \in BOOLEAN
         /\ file.box[p].inner \in InnerTypes
BY FilesAssumption DEF TypeOK, File, Box

LEMMA FileTyped == TypeOK => file.len \in Nat /\ DOMAIN file.box \subseteq Nat
BY FilesAssumption DEF TypeOK, File

LEMMA NextBox ==
  ASSUME TypeOK, NEW p \in DOMAIN file.box, file.box[p].sized,
         PayloadEnd(p) < file.len
  PROVE  PayloadEnd(p) \in DOMAIN file.box
BY FilesAssumption DEF TypeOK, File, PayloadEnd

LEMMA UnsizedIsLast ==
  ASSUME TypeOK, NEW p \in DOMAIN file.box, ~file.box[p].sized,
         NEW q \in DOMAIN file.box
  PROVE  q <= p
BY FilesAssumption, BoxTyped DEF TypeOK, File

-----------------------------------------------------------------------------
(* The steps *)

LEMMA DetectStep == Inv /\ (DetectBareOrInvalid \/ DetectContainer) => Inv'
<1> SUFFICES ASSUME Inv, DetectBareOrInvalid \/ DetectContainer PROVE Inv'
  OBVIOUS
<1> USE FileTyped
<1>1. CASE DetectBareOrInvalid
  <2> USE <1>1 DEF Inv, DetectBareOrInvalid, Emitting, input, boxvars, jxlpvars, hist
  <2>1. TypeOK'
    BY DEF TypeOK, Events, KindEvent
  <2>2. CallInv' /\ OrderInv'
    BY DEF CallInv, OrderInv, NextIndex
  <2>3. status' = "OK" => PlaceInv'
    BY DEF PlaceInv, SignatureInv, HeaderInv, JxlpInv, BareInv, BoxedInv, AuxInv,
           StartsWith, CannotMatch, CallInv
  <2>4. NoMoreInv'
    BY DEF NoMoreInv, PlaceInv, SignatureInv, CallInv
  <2>5. DataFaithful'
    BY DEF DataFaithful, KindEvent
  <2> QED BY <2>1, <2>2, <2>3, <2>4, <2>5
<1>2. CASE DetectContainer
  <2> USE <1>2 DEF Inv, DetectContainer, Emitting, input, boxvars, jxlpvars, leftvars, hist
  <2>1. TypeOK'
    BY DEF TypeOK, Events, KindEvent, StartsWith, Remaining, ContainerSigLen
  <2>2. CallInv' /\ OrderInv'
    BY DEF CallInv, OrderInv, NextIndex
  <2>3. status' = "OK" => PlaceInv'
    BY FilesAssumption
       DEF PlaceInv, SignatureInv, HeaderInv, JxlpInv, BareInv, BoxedInv, AuxInv,
           StartsWith, CallInv, TypeOK, File, ContainerSigLen
  <2>4. NoMoreInv'
    BY DEF NoMoreInv, PlaceInv, SignatureInv, CallInv
  <2>5. DataFaithful'
    BY DEF DataFaithful, KindEvent
  <2> QED BY <2>1, <2>2, <2>3, <2>4, <2>5
<1> QED BY <1>1, <1>2

(* What every step that reads a box header starts from. *)
LEMMA HeaderFacts ==
  ASSUME Inv, NEW box, HeaderOf(box)
  PROVE  /\ cursor \in DOMAIN file.box /\ box = file.box[cursor]
         /\ cursor' = cursor + box.hdr /\ cursor' <= fed
         /\ state = "WAITING_BOX_HEADER" /\ file.sig = "container" /\ ~no_more
         /\ call = "feeding" /\ status = "OK"
         /\ box.ty \in BoxTypes /\ box.hdr \in {8, 16}
         /\ box.sized \in BOOLEAN /\ box.size \in Nat
<1>1. /\ cursor \in DOMAIN file.box /\ box = file.box[cursor]
      /\ state = "WAITING_BOX_HEADER" /\ call = "feeding" /\ status = "OK"
  BY DEF Inv, HeaderOf, Emitting, CallInv
<1>2. file.sig = "container" /\ ~no_more
  BY <1>1 DEF Inv, PlaceInv, HeaderInv
<1>3. /\ box.ty \in BoxTypes /\ box.hdr \in {8, 16}
      /\ box.sized \in BOOLEAN /\ box.size \in Nat
  BY <1>1, BoxTyped DEF Inv
<1>4. cursor' = cursor + box.hdr /\ cursor' <= fed
  BY <1>3, FileTyped DEF Inv, TypeOK, HeaderOf, HeaderSize, Remaining
<1> QED BY <1>1, <1>2, <1>3, <1>4

LEMMA JxlcStep ==
  ASSUME Inv, NEW box, HeaderJxlc(box)
  PROVE  Inv'
<1> USE FileTyped DEF Inv, HeaderJxlc, input, boxvars
<1>0. /\ cursor \in DOMAIN file.box /\ box = file.box[cursor]
      /\ cursor' = cursor + box.hdr /\ cursor' <= fed
      /\ state = "WAITING_BOX_HEADER" /\ file.sig = "container" /\ ~no_more
      /\ call = "feeding" /\ status = "OK"
      /\ box.ty \in BoxTypes /\ box.hdr \in {8, 16}
      /\ box.sized \in BOOLEAN /\ box.size \in Nat
  BY HeaderFacts
<1>2. accepted = <<>> /\ accepted' = <<cursor>>
  BY DEF OrderInv
<1>3. TypeOK'
  BY <1>0 DEF TypeOK, Events, NoEvent, TakeSize, EnterCodestream, Remaining
<1>4. CallInv' /\ NoMoreInv'
  BY <1>0 DEF CallInv, NoMoreInv
<1>5. OrderInv'
  BY <1>0, <1>2 DEF OrderInv, NextIndex
<1>6. PlaceInv'
  BY <1>0, <1>2
     DEF PlaceInv, SignatureInv, HeaderInv, JxlpInv, BareInv, BoxedInv, AuxInv, Current,
         TakeSize, EnterCodestream, PayloadStart, PayloadEnd, TypeOK
<1>7. DataFaithful'
  BY DEF DataFaithful, NoEvent
<1> QED BY <1>3, <1>4, <1>5, <1>6, <1>7

LEMMA JxlpStep ==
  ASSUME Inv, NEW box, HeaderJxlp(box)
  PROVE  Inv'
<1> USE FileTyped DEF Inv, HeaderJxlp, input, leftvars, hist
<1>0. /\ cursor \in DOMAIN file.box /\ box = file.box[cursor]
      /\ cursor' = cursor + box.hdr /\ cursor' <= fed
      /\ state = "WAITING_BOX_HEADER" /\ file.sig = "container" /\ ~no_more
      /\ call = "feeding" /\ status = "OK"
      /\ box.ty \in BoxTypes /\ box.hdr \in {8, 16}
      /\ box.sized \in BOOLEAN /\ box.size \in Nat
  BY HeaderFacts
<1>3. TypeOK'
  BY <1>0 DEF TypeOK, Events, NoEvent, Remaining
<1>4. CallInv' /\ NoMoreInv'
  BY <1>0 DEF CallInv, NoMoreInv
<1>5. OrderInv'
  BY <1>0 DEF OrderInv, NextIndex, TypeOK
<1>6. PlaceInv'
  BY <1>0
     DEF PlaceInv, SignatureInv, HeaderInv, JxlpInv, BareInv, BoxedInv, AuxInv, Pending, TypeOK
<1>7. DataFaithful'
  BY DEF DataFaithful, NoEvent
<1> QED BY <1>3, <1>4, <1>5, <1>6, <1>7

LEMMA AuxHeaderStep ==
  ASSUME Inv, NEW box, HeaderAux(box) \/ HeaderBrob(box)
  PROVE  Inv'
<1> USE FileTyped DEF Inv
<1>0. /\ cursor \in DOMAIN file.box /\ box = file.box[cursor]
      /\ cursor' = cursor + box.hdr /\ cursor' <= fed
      /\ state = "WAITING_BOX_HEADER" /\ file.sig = "container" /\ ~no_more
      /\ call = "feeding" /\ status = "OK"
      /\ box.ty \in BoxTypes /\ box.hdr \in {8, 16}
      /\ box.sized \in BOOLEAN /\ box.size \in Nat
  BY HeaderFacts DEF HeaderAux, HeaderBrob
<1>1. /\ pending_header' = cursor
      /\ has_brotli_inner_type' = FALSE
      /\ TakeSize(box)
      /\ state' = "IN_AUX_BOX"
      /\ file' = file /\ fed' = fed /\ call' = call /\ status' = status
      /\ jxlp_index_state' = jxlp_index_state /\ jxlp_expected_index' = jxlp_expected_index
      /\ codestream_kind' = codestream_kind
      /\ pending_no_more_aux_box' = pending_no_more_aux_box
      /\ accepted' = accepted /\ no_more' = no_more
  BY DEF HeaderAux, HeaderBrob, input, jxlpvars, hist
<1>2. \/ box.ty \in AuxTypes
      \/ box.ty = "brob" /\ ~(box.sized /\ box.size <= 3)
  BY DEF HeaderAux, HeaderBrob
<1>8. \/ event' = NoEvent
      \/ box.ty \in AuxTypes /\ event' = StartEvent(box.ty, FALSE, ~box.sized)
  BY Zenon DEF HeaderAux, HeaderBrob
<1>3. TypeOK'
  <2>1. bytes_left' \in Nat /\ has_bytes_left' \in BOOLEAN
    BY <1>0, <1>1 DEF TypeOK, TakeSize
  <2>2. event' \in Events
    <3>1. CASE event' = NoEvent
      BY <3>1 DEF Events
    <3>2. CASE box.ty \in AuxTypes /\ event' = StartEvent(box.ty, FALSE, ~box.sized)
      <4>1. \E b \in BOOLEAN : event' = StartEvent(box.ty, FALSE, b)
        BY <3>2, Zenon
      <4> QED BY <3>2, <4>1 DEF Events, StartEvent
    <3> QED BY <1>8, <3>1, <3>2
  <2>3. cursor' \in 0 .. fed' /\ fed' \in 0 .. file'.len
    BY <1>0, <1>1 DEF TypeOK
  <2>4. pending_header' \in {0} \cup DOMAIN file'.box
    BY <1>0, <1>1
  <2>5. accepted' \in Seq(DOMAIN file'.box)
    BY <1>1 DEF TypeOK
  <2>6. file' \in Files /\ call' \in {"idle", "feeding", "wrapped"} /\ has_brotli_inner_type' \in BOOLEAN
    BY <1>1 DEF TypeOK
  <2> QED BY SMTT(30), <1>0, <1>1, <2>1, <2>2, <2>3, <2>4, <2>5, <2>6 DEF TypeOK
<1>4. CallInv' /\ NoMoreInv'
  BY <1>0, <1>1 DEF CallInv, NoMoreInv
<1>5. OrderInv'
  BY <1>0, <1>1 DEF OrderInv, NextIndex, TypeOK
<1>6. PlaceInv'
  <2>1. SignatureInv' /\ HeaderInv' /\ JxlpInv' /\ BareInv' /\ BoxedInv'
    BY <1>0, <1>1 DEF SignatureInv, HeaderInv, JxlpInv, BareInv, BoxedInv
  <2>2. AuxInv'
    <3>1. pending_header' \in DOMAIN file'.box /\ Pending' = box
      BY <1>0, <1>1 DEF Pending
    <3>2. Pending'.ty \in AuxTypes \cup {"brob"} /\ ~has_brotli_inner_type'
      BY <1>1, <1>2, <3>1
    <3>3. has_bytes_left' = Pending'.sized
      BY <1>1, <3>1 DEF TakeSize
    <3>4. (has_bytes_left => cursor + bytes_left = PayloadEnd(pending_header))'
      BY <1>0, <1>1 DEF TakeSize, PayloadEnd, TypeOK
    <3>5. CASE box.ty = "brob"
      <4>1. has_bytes_left' => bytes_left' >= 4
        BY <1>0, <1>1, <1>2, <3>5, AuxAssumption DEF TakeSize
      <4>2. AwaitsInnerType' /\ cursor' = pending_header' + Pending'.hdr
        BY <1>0, <1>1, <3>1, <3>5 DEF AwaitsInnerType
      <4> QED BY <3>1, <3>2, <3>3, <3>4, <4>1, <4>2 DEF AuxInv
    <3>6. CASE box.ty # "brob"
      <4>1. ~AwaitsInnerType'
        BY <3>1, <3>6 DEF AwaitsInnerType
      <4>2. (PayloadStart(pending_header) <= cursor)'
        BY <1>0, <1>1, <1>2, <3>1, <3>6, AuxAssumption DEF PayloadStart, TypeOK
      <4> QED BY <3>1, <3>2, <3>3, <3>4, <4>1, <4>2 DEF AuxInv
    <3> QED BY <3>5, <3>6
  <2> QED BY <2>1, <2>2 DEF PlaceInv
<1>7. DataFaithful'
  BY <1>8 DEF DataFaithful, NoEvent, StartEvent
<1> QED BY <1>3, <1>4, <1>5, <1>6, <1>7

LEMMA HeaderRejectedStep ==
  ASSUME Inv, NEW box, HeaderCodestreamRejected(box) \/ HeaderBrobRejected(box)
  PROVE  Inv'
<1> USE FileTyped DEF Inv, Reject
<1>0. /\ cursor \in DOMAIN file.box /\ box = file.box[cursor]
      /\ cursor' = cursor + box.hdr /\ cursor' <= fed
      /\ state = "WAITING_BOX_HEADER" /\ file.sig = "container" /\ ~no_more
      /\ call = "feeding" /\ status = "OK"
      /\ box.ty \in BoxTypes /\ box.hdr \in {8, 16}
      /\ box.sized \in BOOLEAN /\ box.size \in Nat
  BY HeaderFacts DEF HeaderCodestreamRejected, HeaderBrobRejected
<1>1. /\ call' = "idle" /\ status' = "INVALID_BOX" /\ event' = NoEvent
      /\ file' = file /\ fed' = fed /\ state' = state
      /\ jxlp_index_state' = jxlp_index_state /\ jxlp_expected_index' = jxlp_expected_index
      /\ codestream_kind' = codestream_kind
      /\ pending_no_more_aux_box' = pending_no_more_aux_box
      /\ accepted' = accepted /\ no_more' = no_more
  BY DEF HeaderCodestreamRejected, HeaderBrobRejected, boxvars, jxlpvars, leftvars, hist
<1>2. \/ UNCHANGED <<pending_header, has_brotli_inner_type, bytes_left, has_bytes_left>>
      \/ pending_header' = cursor /\ has_brotli_inner_type' = FALSE /\ TakeSize(box)
  BY DEF HeaderCodestreamRejected, HeaderBrobRejected, boxvars, leftvars
<1>3. TypeOK'
  <2>1. bytes_left' \in Nat /\ has_bytes_left' \in BOOLEAN
    BY <1>0, <1>2 DEF TypeOK, TakeSize
  <2>2. has_brotli_inner_type' \in BOOLEAN /\ pending_header' \in {0} \cup DOMAIN file'.box
    BY <1>0, <1>1, <1>2 DEF TypeOK
  <2>3. event' \in Events
    BY <1>1 DEF Events
  <2> QED BY <1>0, <1>1, <2>1, <2>2, <2>3 DEF TypeOK
<1>4. CallInv' /\ NoMoreInv' /\ status' # "OK"
  BY <1>0, <1>1 DEF CallInv, NoMoreInv
<1>5. OrderInv'
  BY <1>1 DEF OrderInv, NextIndex
<1>6. DataFaithful'
  BY <1>1 DEF DataFaithful, NoEvent
<1> QED BY <1>3, <1>4, <1>5, <1>6

LEMMA JxlpIndexStep ==
  ASSUME Inv, NEW box, JxlpIndex(box)
  PROVE  Inv'
<1> USE FileTyped DEF Inv
<1>0. /\ pending_header \in DOMAIN file.box /\ box = file.box[pending_header]
      /\ cursor = pending_header + box.hdr /\ cursor' = cursor + 4 /\ cursor' <= fed
      /\ state = "WAITING_JXLP_INDEX" /\ file.sig = "container" /\ ~no_more
      /\ call = "feeding" /\ status = "OK"
      /\ box.ty = "jxlp" /\ (box.sized => box.size >= 4)
  BY DEF JxlpIndex, JxlpIndexOf, Emitting, CallInv, PlaceInv, HeaderInv, JxlpInv, Pending,
         Remaining, TypeOK
<1>1. /\ box.hdr \in {8, 16} /\ box.sized \in BOOLEAN /\ box.size \in Nat
      /\ box.idx \in Nat /\ box.last \in BOOLEAN /\ pending_header \in Nat
  BY <1>0, BoxTyped
<1>2. /\ jxlp_index_state = "INDEXED" /\ jxlp_expected_index = box.idx
      /\ jxlp_index_state' = AfterBox(box)
      /\ state' = "IN_CODESTREAM" /\ codestream_kind' = "container"
      /\ pending_no_more_aux_box' = ~box.sized
      /\ event' = NoEvent
      /\ accepted' = Append(accepted, pending_header)
      /\ file' = file /\ fed' = fed /\ call' = call /\ status' = status
      /\ pending_header' = pending_header /\ has_brotli_inner_type' = has_brotli_inner_type
      /\ jxlp_expected_index' = jxlp_expected_index /\ no_more' = no_more
  BY DEF JxlpIndex, EnterCodestream, input, boxvars
<1>9. /\ has_bytes_left' = box.sized
      /\ bytes_left' = IF box.sized THEN box.size - 4 ELSE bytes_left
  BY DEF JxlpIndex, JxlpPayload
<1>3. /\ Len(accepted') = Len(accepted) + 1 /\ accepted' \in Seq(DOMAIN file.box)
      /\ accepted'[Len(accepted')] = pending_header
      /\ \A i \in 1 .. Len(accepted) : accepted'[i] = accepted[i]
      /\ Len(accepted) \in Nat
  BY <1>0, <1>2 DEF TypeOK
<1>4. TypeOK'
  <2>1. bytes_left' \in Nat /\ has_bytes_left' \in BOOLEAN /\ pending_no_more_aux_box' \in BOOLEAN
    <3>1. bytes_left \in Nat
      BY DEF TypeOK
    <3>2. (box.sized => box.size >= 4) /\ box.size \in Nat /\ box.sized \in BOOLEAN
      BY <1>0, <1>1
    <3> HIDE FileTyped DEF Inv
    <3> QED
      BY <1>2, <1>9, <3>1, <3>2
  <2>2. cursor' \in 0 .. fed' /\ fed' \in 0 .. file'.len
    <3>1. cursor \in Nat /\ fed \in Nat /\ fed \in 0 .. file.len
      BY <1>0 DEF TypeOK
    <3>2. fed' = fed /\ file' = file /\ cursor' = cursor + 4 /\ cursor' <= fed
      BY <1>0, <1>2
    <3> HIDE FileTyped DEF Inv
    <3> QED
      BY <3>1, <3>2
  <2>3. event' \in Events
    BY <1>2 DEF Events
  <2>4. jxlp_index_state' \in {"INITIAL", "SINGLE_JXLC", "INDEXED", "FINISHED"}
    BY <1>2 DEF AfterBox
  <2> QED BY <1>0, <1>2, <1>3, <2>1, <2>2, <2>3, <2>4 DEF TypeOK
<1>5. CallInv' /\ NoMoreInv'
  BY <1>0, <1>2 DEF CallInv, NoMoreInv
<1>6. OrderInv'
  <2>1. Len(accepted) = box.idx
    BY <1>0, <1>2 DEF OrderInv, NextIndex
  <2>2. \A i \in 1 .. Len(accepted') :
           /\ file.box[accepted'[i]].ty = "jxlp" /\ file.box[accepted'[i]].idx = i - 1
           /\ i # Len(accepted') => ~file.box[accepted'[i]].last
    <3>1. /\ \A i \in 1 .. Len(accepted) :
               file.box[accepted[i]].ty = "jxlp" /\ file.box[accepted[i]].idx = i - 1
          /\ \A i \in 1 .. Len(accepted) : ~file.box[accepted[i]].last
      BY <1>0, <1>2, <1>3 DEF OrderInv
    <3>2. /\ file.box[pending_header].ty = "jxlp"
          /\ file.box[pending_header].idx = Len(accepted)
      BY <1>0, <2>1
    <3> HIDE FileTyped DEF Inv
    <3> TAKE i \in 1 .. Len(accepted')
    <3>3. CASE i \in 1 .. Len(accepted)
      BY <1>3, <3>1, <3>3
    <3>4. CASE i \notin 1 .. Len(accepted)
      <4>1. i = Len(accepted') /\ i - 1 = Len(accepted)
        BY <1>3, <3>4
      <4> QED
        BY <1>3, <3>2, <4>1
    <3> QED
      BY <3>3, <3>4
  <2>3. CASE box.last
    BY <1>2, <2>2, <2>3 DEF OrderInv, AfterBox
  <2>4. CASE ~box.last
    BY <1>0, <1>2, <1>3, <2>1, <2>2, <2>4 DEF OrderInv, AfterBox, NextIndex
  <2> QED BY <2>3, <2>4
<1>7. PlaceInv'
  <2>1. BoxedInv'
    <3>1. accepted' # <<>> /\ Current' = pending_header
      BY <1>3 DEF Current
    <3>2. has_bytes_left' = file'.box[Current'].sized
      BY <1>0, <1>2, <1>9, <3>1
    <3>3. PayloadStart(Current)' <= cursor'
      BY <1>0, <1>1, <1>2, <3>1 DEF PayloadStart
    <3>4. has_bytes_left' => cursor' + bytes_left' = PayloadEnd(Current)'
      <4>1. file'.box[Current'] = box
        BY <1>0, <1>2, <3>1
      <4>2. ASSUME box.sized
            PROVE  cursor' + bytes_left' = Current' + box.hdr + box.size
        <5>1. /\ cursor' = pending_header + box.hdr + 4 /\ bytes_left' = box.size - 4
              /\ Current' = pending_header
          BY <1>0, <1>1, <1>9, <3>1, <4>2
        <5>2. pending_header \in Nat /\ box.hdr \in Nat /\ box.size \in Nat
          BY <1>1
        <5> HIDE FileTyped DEF Inv
        <5> QED
          BY <5>1, <5>2
      <4> QED BY <1>9, <4>1, <4>2 DEF PayloadEnd
    <3>5. pending_no_more_aux_box' \/ no_more' => ~file'.box[Current'].sized
      BY <1>0, <1>2, <3>1
    <3> QED BY <1>0, <1>2, <3>1, <3>2, <3>3, <3>4, <3>5 DEF BoxedInv
  <2> QED BY <1>0, <1>2, <2>1
          DEF PlaceInv, SignatureInv, HeaderInv, JxlpInv, BareInv, AuxInv
<1>8. DataFaithful'
  BY <1>2 DEF DataFaithful, NoEvent
<1> QED BY <1>4, <1>5, <1>6, <1>7, <1>8

LEMMA JxlpIndexRejectedStep ==
  ASSUME Inv, NEW box, JxlpIndexRejected(box)
  PROVE  Inv'
<1> USE FileTyped
        DEF Inv, JxlpIndexRejected, JxlpIndexOf, Emitting, Reject, boxvars, jxlpvars, leftvars, hist
<1>1. TypeOK'
  BY DEF TypeOK, Events, NoEvent, Remaining
<1>2. CallInv' /\ status' # "OK"
  BY DEF CallInv
<1>3. OrderInv'
  BY DEF OrderInv, NextIndex
<1>4. NoMoreInv' /\ DataFaithful'
  BY DEF NoMoreInv, DataFaithful, NoEvent
<1> QED BY <1>1, <1>2, <1>3, <1>4

LEMMA NoMoreAuxBoxStep == Inv /\ NoMoreAuxBox => Inv'
<1> SUFFICES ASSUME Inv, NoMoreAuxBox PROVE Inv'
  OBVIOUS
<1> USE FileTyped DEF Inv, NoMoreAuxBox, Emitting, input, boxvars, jxlpvars, leftvars
<1>1. TypeOK'
  BY DEF TypeOK, Events
<1>2. CallInv' /\ OrderInv' /\ status = "OK"
  BY DEF CallInv, OrderInv, NextIndex
<1>3. PlaceInv'
  BY <1>2 DEF PlaceInv, SignatureInv, HeaderInv, JxlpInv, BareInv, BoxedInv, AuxInv,
              Current, PayloadStart, PayloadEnd
<1>4. \A p \in DOMAIN file.box : p < cursor
  <2>1. CASE file.sig # "container"
    BY <2>1, FilesAssumption DEF TypeOK, File
  <2>2. CASE file.sig = "container"
    <3>1. /\ accepted # <<>> /\ ~file.box[Current].sized
          /\ PayloadStart(Current) <= cursor
      BY <1>2, <2>2 DEF PlaceInv, BoxedInv
    <3>2. Current \in DOMAIN file.box
      BY <3>1 DEF TypeOK, Current
    <3>3. \A q \in DOMAIN file.box : q <= Current /\ q \in Nat
      BY <3>1, <3>2, UnsizedIsLast DEF TypeOK
    <3>4. file.box[Current].hdr \in {8, 16} /\ Current \in Nat
      BY <3>2, BoxTyped
    <3>5. cursor \in Nat
      <4>1. file.len \in Nat /\ fed \in 0 .. file.len /\ cursor \in 0 .. fed
        BY DEF TypeOK
      <4> HIDE DEF Inv, NoMoreAuxBox
      <4> QED BY <4>1
    <3>6. Current < PayloadStart(Current) /\ PayloadStart(Current) \in Nat
      <4> HIDE FileTyped DEF Inv, NoMoreAuxBox
      <4> QED BY <3>4 DEF PayloadStart
    <3> HIDE FileTyped DEF Inv, NoMoreAuxBox
    <3> QED BY <3>1, <3>3, <3>4, <3>5, <3>6
  <2> QED BY <2>1, <2>2
<1>5. NoMoreInv'
  BY <1>4 DEF NoMoreInv
<1>6. DataFaithful'
  BY DEF DataFaithful, NoMoreEvent
<1> QED BY <1>1, <1>2, <1>3, <1>5, <1>6

LEMMA CodestreamStep == Inv /\ Codestream => Inv'
<1> SUFFICES ASSUME Inv, Codestream PROVE Inv'
  OBVIOUS
<1> DEFINE n == IF has_bytes_left THEN Least(bytes_left, Remaining) ELSE Remaining
           ends == has_bytes_left /\ Remaining >= bytes_left
<1> USE FileTyped DEF Inv
<1>0. /\ call = "feeding" /\ status = "OK" /\ state = "IN_CODESTREAM" /\ cursor < fed
      /\ file' = file /\ fed' = fed /\ call' = call /\ status' = status
      /\ pending_header' = pending_header /\ has_brotli_inner_type' = has_brotli_inner_type
      /\ jxlp_index_state' = jxlp_index_state /\ jxlp_expected_index' = jxlp_expected_index
      /\ has_bytes_left' = has_bytes_left /\ codestream_kind' = codestream_kind
      /\ pending_no_more_aux_box' = pending_no_more_aux_box
      /\ accepted' = accepted /\ no_more' = no_more
  BY DEF Codestream, Emitting, CallInv, input, boxvars, jxlpvars, hist
<1>1. cursor' = cursor + n /\ event' = CodestreamEvent(cursor, cursor + n)
  BY DEF Codestream
<1>2. IF ends THEN state' = "WAITING_BOX_HEADER" /\ bytes_left' = bytes_left
      ELSE /\ state' = "IN_CODESTREAM"
           /\ bytes_left' = IF has_bytes_left THEN bytes_left - n ELSE bytes_left
  BY <1>0 DEF Codestream
<1>3. /\ n \in Nat /\ cursor + n <= fed /\ cursor \in Nat /\ fed \in Nat /\ fed <= file.len
      /\ bytes_left \in Nat
      /\ has_bytes_left => n <= bytes_left
      /\ ends => n = bytes_left
  BY DEF TypeOK, Least, Remaining
<1> HIDE DEF n, ends
<1>4. ends => has_bytes_left
  BY DEF ends
<1>5. TypeOK'
  <2>1. bytes_left' \in Nat
    BY <1>2, <1>3
  <2>2. cursor' \in 0 .. fed' /\ fed' \in 0 .. file'.len
    BY <1>0, <1>1, <1>3, FileTyped DEF TypeOK
  <2>3. event' \in Events
    <3>1. cursor \in Nat /\ cursor + n \in Nat
      BY <1>3
    <3> QED BY <1>1, <3>1 DEF Events, CodestreamEvent
  <2>4. state' \in {"WAITING_BOX_HEADER", "IN_CODESTREAM"}
    BY <1>2
  <2> QED BY <1>0, <2>1, <2>2, <2>3, <2>4 DEF TypeOK
<1>6. CallInv' /\ OrderInv'
  BY <1>0, <1>2 DEF CallInv, OrderInv, NextIndex
<1>7. CASE file.sig # "container"
  <2>1. ~has_bytes_left /\ ~ends
    BY <1>0, <1>4, <1>7 DEF PlaceInv, BareInv
  <2>2. PlaceInv'
    BY <1>0, <1>2, <1>7, <2>1
       DEF PlaceInv, SignatureInv, HeaderInv, JxlpInv, BareInv, BoxedInv, AuxInv
  <2>3. NoMoreInv'
    <3>1. DOMAIN file.box = {}
      BY <1>7, FilesAssumption DEF TypeOK, File
    <3> QED BY <1>0, <1>2, <2>1, <3>1 DEF NoMoreInv
  <2>4. DataFaithful'
    BY <1>0, <1>1, <1>7 DEF DataFaithful, CodestreamEvent
  <2> QED BY <1>5, <1>6, <2>2, <2>3, <2>4
<1>8. CASE file.sig = "container"
  <2>1. /\ accepted # <<>>
        /\ file.box[Current].ty \in {"jxlc", "jxlp"}
        /\ has_bytes_left = file.box[Current].sized
        /\ PayloadStart(Current) <= cursor
        /\ has_bytes_left => cursor + bytes_left = PayloadEnd(Current)
        /\ codestream_kind = "container"
        /\ pending_no_more_aux_box \/ no_more => ~file.box[Current].sized
    BY <1>0, <1>8 DEF PlaceInv, BoxedInv
  <2>2. Current \in DOMAIN file.box /\ Current' = Current
    BY <1>0, <2>1 DEF TypeOK, Current
  <2>3. /\ Current \in Nat /\ file.box[Current].hdr \in {8, 16}
        /\ file.box[Current].size \in Nat /\ file.len \in Nat
    BY <2>2, BoxTyped
  <2>4. PayloadStart(Current)' = PayloadStart(Current) /\ PayloadEnd(Current)' = PayloadEnd(Current)
    BY <1>0, <2>2 DEF PayloadStart, PayloadEnd
  <2>5. PayloadStart(Current) \in Nat /\ PayloadEnd(Current) \in Nat
    BY <2>3 DEF PayloadStart, PayloadEnd
  <2>6. cursor + n <= PayloadEnd(Current)
    <3>1. CASE has_bytes_left
      BY <1>3, <2>1, <2>5, <3>1
    <3>2. CASE ~has_bytes_left
      BY <1>3, <2>1, <2>5, <3>2 DEF PayloadEnd
    <3> QED BY <3>1, <3>2
  <2>7. DataFaithful'
    BY <1>0, <1>1, <2>1, <2>2, <2>4, <2>6 DEF DataFaithful, CodestreamEvent, Current
  <2>8. no_more => ~ends
    BY <1>4, <2>1
  <2>9. NoMoreInv'
    <3> SUFFICES ASSUME no_more PROVE NoMoreInv'
      BY <1>0 DEF NoMoreInv
    <3>1. \A p \in DOMAIN file.box : p < cursor'
      BY <1>1, <1>3 DEF NoMoreInv
    <3> QED BY <1>0, <1>2, <2>8, <3>1 DEF NoMoreInv
  <2>10. PlaceInv'
    <3>1. CASE ends
      <4>1. cursor' < file.len => cursor' \in DOMAIN file.box
        BY <1>1, <1>3, <1>4, <2>1, <2>2, <3>1, NextBox
      <4> QED BY <1>0, <1>2, <1>8, <2>8, <3>1, <4>1
              DEF PlaceInv, SignatureInv, HeaderInv, JxlpInv, BareInv, BoxedInv, AuxInv
    <3>2. CASE ~ends
      <4>1. PayloadStart(Current)' <= cursor'
        BY <1>1, <1>3, <2>1, <2>4, <2>5
      <4>2. has_bytes_left' => cursor' + bytes_left' = PayloadEnd(Current)'
        <5> SUFFICES ASSUME has_bytes_left
                     PROVE  cursor' + bytes_left' = PayloadEnd(Current)'
          BY <1>0
        <5>1. bytes_left' = bytes_left - n
          BY <1>2, <3>2
        <5>2. cursor + bytes_left = PayloadEnd(Current)
          BY <2>1
        <5> QED BY <1>1, <1>3, <2>4, <2>5, <5>1, <5>2
      <4>3. state' = "IN_CODESTREAM"
        BY <1>2, <3>2
      <4>4. BoxedInv'
        BY <1>0, <2>1, <2>2, <4>1, <4>2 DEF BoxedInv
      <4> QED BY <1>0, <1>8, <4>3, <4>4
              DEF PlaceInv, SignatureInv, HeaderInv, JxlpInv, BareInv, AuxInv
    <3> QED BY <3>1, <3>2
  <2> QED BY <1>5, <1>6, <2>7, <2>9, <2>10
<1> QED BY <1>7, <1>8

LEMMA InnerTypeStep == Inv /\ (BrobInnerType \/ BrobInnerRejected) => Inv'
<1> SUFFICES ASSUME Inv, BrobInnerType \/ BrobInnerRejected PROVE Inv'
  OBVIOUS
<1> USE FileTyped DEF Inv
<1>0. /\ call = "feeding" /\ status = "OK" /\ state = "IN_AUX_BOX" /\ ~no_more
      /\ AwaitsInnerType /\ Remaining >= 4 /\ file.sig = "container"
  BY DEF BrobInnerType, BrobInnerRejected, InnerTypeRead, Emitting, CallInv, PlaceInv, HeaderInv
<1>1. /\ pending_header \in DOMAIN file.box /\ Pending.ty = "brob"
      /\ has_bytes_left = Pending.sized
      /\ has_bytes_left => cursor + bytes_left = PayloadEnd(pending_header)
      /\ cursor = pending_header + Pending.hdr
      /\ has_bytes_left => bytes_left >= 4
  BY <1>0 DEF PlaceInv, AuxInv, AwaitsInnerType
<1>2. /\ pending_header \in Nat /\ Pending.hdr \in {8, 16} /\ Pending.size \in Nat
      /\ Pending.inner \in InnerTypes
  BY <1>1, BoxTyped DEF Pending
<1>3. /\ cursor' = cursor + 4
      /\ bytes_left' = IF has_bytes_left THEN bytes_left - 4 ELSE bytes_left
  BY DEF BrobInnerType, BrobInnerRejected, InnerTypeRead
<1>4. /\ file' = file /\ fed' = fed /\ state' = state
      /\ pending_header' = pending_header /\ has_bytes_left' = has_bytes_left
      /\ jxlp_index_state' = jxlp_index_state /\ jxlp_expected_index' = jxlp_expected_index
      /\ codestream_kind' = codestream_kind
      /\ pending_no_more_aux_box' = pending_no_more_aux_box
      /\ accepted' = accepted /\ no_more' = no_more
  BY DEF BrobInnerType, BrobInnerRejected, InnerTypeRead, Reject, input, jxlpvars, hist
<1>5. bytes_left' \in Nat /\ cursor' \in 0 .. fed' /\ fed' \in 0 .. file'.len
  <2>1. /\ cursor \in Nat /\ fed \in Nat /\ fed - cursor >= 4
        /\ bytes_left \in Nat /\ has_bytes_left \in BOOLEAN
    BY <1>0 DEF TypeOK, Remaining
  <2>2. fed' \in 0 .. file'.len
    BY <1>4 DEF TypeOK
  <2>3. cursor' \in 0 .. fed'
    BY <1>3, <1>4, <2>1
  <2>4. bytes_left' \in Nat
    BY <1>1, <1>3, <2>1
  <2> QED BY <2>2, <2>3, <2>4
<1>6. OrderInv' /\ NoMoreInv'
  BY <1>0, <1>4 DEF OrderInv, NoMoreInv, NextIndex
<1>7. CASE BrobInnerType
  <2>1. /\ call' = call /\ status' = status /\ has_brotli_inner_type' = TRUE
        /\ Pending.inner \in AuxTypes \ ReservedInner
        /\ event' = StartEvent(Pending.inner, TRUE, ~Pending.sized)
    BY <1>2, <1>7 DEF BrobInnerType, InnerTypes, input
  <2>2. event' \in Events
    <3>1. \E b \in BOOLEAN : event' = StartEvent(Pending.inner, TRUE, b)
      BY <2>1, Zenon
    <3> QED BY <2>1, <3>1 DEF Events, StartEvent
  <2>3. TypeOK'
    <3>1. pending_header' \in {0} \cup DOMAIN file'.box /\ file' \in Files
      BY <1>1, <1>4 DEF TypeOK
    <3>2. accepted' \in Seq(DOMAIN file'.box) /\ state' = "IN_AUX_BOX"
      BY <1>0, <1>4 DEF TypeOK
    <3>3. /\ call' = "feeding" /\ status' = "OK" /\ has_brotli_inner_type' \in BOOLEAN
          /\ has_bytes_left' \in BOOLEAN /\ no_more' \in BOOLEAN
          /\ pending_no_more_aux_box' \in BOOLEAN
      BY <1>0, <1>4, <2>1 DEF TypeOK
    <3> QED BY <1>4, <1>5, <2>2, <3>1, <3>2, <3>3 DEF TypeOK
  <2>4. AuxInv'
    <3>1. Pending' = Pending /\ PayloadEnd(pending_header)' = PayloadEnd(pending_header)
      BY <1>4 DEF Pending, PayloadEnd
    <3>2. (PayloadStart(pending_header) <= cursor)' /\ ~AwaitsInnerType'
      BY <1>1, <1>2, <1>3, <1>4, <2>1, <3>1 DEF PayloadStart, AwaitsInnerType, Pending
    <3>3. has_bytes_left' => cursor' + bytes_left' = PayloadEnd(pending_header)'
      <4> SUFFICES ASSUME has_bytes_left
                   PROVE  cursor' + bytes_left' = PayloadEnd(pending_header)'
        BY <1>4
      <4>1. bytes_left' = bytes_left - 4 /\ cursor + bytes_left = PayloadEnd(pending_header)
        BY <1>1, <1>3
      <4>2. cursor \in Nat /\ bytes_left \in Nat
        BY DEF TypeOK
      <4> QED BY <1>3, <3>1, <4>1, <4>2
    <3> QED BY <1>1, <1>4, <2>1, <3>1, <3>2, <3>3 DEF AuxInv
  <2>5. PlaceInv'
    BY <1>0, <1>4, <2>4 DEF PlaceInv, SignatureInv, HeaderInv, JxlpInv, BareInv, BoxedInv
  <2>6. CallInv' /\ DataFaithful'
    BY <1>0, <2>1 DEF CallInv, DataFaithful, StartEvent
  <2> QED BY <1>6, <2>3, <2>5, <2>6
<1>8. CASE BrobInnerRejected
  <2>1. /\ call' = "idle" /\ status' = "VALIDATION_FAILED" /\ event' = NoEvent
        /\ has_brotli_inner_type' = has_brotli_inner_type
    BY <1>8 DEF BrobInnerRejected, Reject
  <2>2. TypeOK'
    BY <1>4, <1>5, <2>1 DEF TypeOK, Events
  <2>3. CallInv' /\ DataFaithful'
    BY <2>1 DEF CallInv, DataFaithful, NoEvent
  <2> QED BY <1>6, <2>1, <2>2, <2>3
<1> QED BY <1>7, <1>8

(* What every step that hands out or ends a box starts from. *)
LEMMA AuxFacts ==
  ASSUME Inv, Emitting("IN_AUX_BOX"), ~AwaitsInnerType
  PROVE  /\ call = "feeding" /\ status = "OK" /\ state = "IN_AUX_BOX" /\ ~no_more
         /\ file.sig = "container" /\ cursor < fed
         /\ pending_header \in DOMAIN file.box
         /\ has_bytes_left = Pending.sized
         /\ has_bytes_left => cursor + bytes_left = PayloadEnd(pending_header)
         /\ PayloadStart(pending_header) <= cursor
         /\ CurrentType \in AuxTypes
         /\ CurrentType = IF Pending.ty = "brob" THEN Pending.inner ELSE Pending.ty
         /\ PayloadStart(pending_header) \in Nat /\ PayloadEnd(pending_header) \in Nat
<1>1. /\ call = "feeding" /\ status = "OK" /\ state = "IN_AUX_BOX" /\ cursor < fed
  BY DEF Inv, Emitting, CallInv
<1>2. ~no_more /\ file.sig = "container"
  BY <1>1 DEF Inv, PlaceInv, HeaderInv
<1>3. /\ pending_header \in DOMAIN file.box
      /\ Pending.ty \in AuxTypes \cup {"brob"}
      /\ has_brotli_inner_type => Pending.ty = "brob" /\ Pending.inner \in AuxTypes \ ReservedInner
      /\ has_bytes_left = Pending.sized
      /\ has_bytes_left => cursor + bytes_left = PayloadEnd(pending_header)
      /\ PayloadStart(pending_header) <= cursor
  BY <1>1 DEF Inv, PlaceInv, AuxInv
<1>4. /\ CurrentType \in AuxTypes
      /\ CurrentType = IF Pending.ty = "brob" THEN Pending.inner ELSE Pending.ty
  BY <1>3, AuxAssumption DEF CurrentType, AwaitsInnerType
<1>5. PayloadStart(pending_header) \in Nat /\ PayloadEnd(pending_header) \in Nat
  BY <1>3, BoxTyped DEF Inv, PayloadStart, PayloadEnd
<1> QED BY <1>1, <1>2, <1>3, <1>4, <1>5

LEMMA AuxEndStep == Inv /\ AuxEnd => Inv'
<1> SUFFICES ASSUME Inv, AuxEnd PROVE Inv'
  OBVIOUS
<1> USE FileTyped DEF Inv
<1>0. /\ call = "feeding" /\ status = "OK" /\ state = "IN_AUX_BOX" /\ ~no_more
      /\ file.sig = "container" /\ pending_header \in DOMAIN file.box
      /\ has_bytes_left = Pending.sized
      /\ has_bytes_left => cursor + bytes_left = PayloadEnd(pending_header)
      /\ CurrentType \in AuxTypes
  BY AuxFacts DEF AuxEnd
<1>1. /\ has_bytes_left /\ bytes_left = 0
      /\ state' = "WAITING_BOX_HEADER" /\ has_brotli_inner_type' = FALSE
      /\ event' = EndEvent(CurrentType)
      /\ file' = file /\ fed' = fed /\ call' = call /\ cursor' = cursor /\ status' = status
      /\ pending_header' = pending_header /\ bytes_left' = bytes_left
      /\ has_bytes_left' = has_bytes_left
      /\ jxlp_index_state' = jxlp_index_state /\ jxlp_expected_index' = jxlp_expected_index
      /\ codestream_kind' = codestream_kind
      /\ pending_no_more_aux_box' = pending_no_more_aux_box
      /\ accepted' = accepted /\ no_more' = no_more
  BY DEF AuxEnd, input, jxlpvars, leftvars, hist
<1>2. TypeOK'
  <2>1. event' \in Events
    BY <1>0, <1>1 DEF Events, EndEvent
  <2> QED BY <1>0, <1>1, <2>1 DEF TypeOK
<1>3. CallInv' /\ OrderInv' /\ NoMoreInv' /\ DataFaithful'
  BY <1>0, <1>1 DEF CallInv, OrderInv, NextIndex, NoMoreInv, DataFaithful, EndEvent
<1>4. cursor < file.len => cursor \in DOMAIN file.box
  <2>1. cursor = PayloadEnd(pending_header) /\ file.box[pending_header].sized
    BY <1>0, <1>1 DEF TypeOK, Pending
  <2> QED BY <1>0, <2>1, NextBox
<1>5. PlaceInv'
  BY <1>0, <1>1, <1>4
     DEF PlaceInv, SignatureInv, HeaderInv, JxlpInv, BareInv, BoxedInv, AuxInv
<1> QED BY <1>2, <1>3, <1>5

LEMMA AuxDataStep == Inv /\ (AuxDataSized \/ AuxDataUnsized) => Inv'
<1> SUFFICES ASSUME Inv, AuxDataSized \/ AuxDataUnsized PROVE Inv'
  OBVIOUS
<1> USE FileTyped DEF Inv
<1>0. /\ call = "feeding" /\ status = "OK" /\ state = "IN_AUX_BOX" /\ ~no_more
      /\ file.sig = "container" /\ cursor < fed /\ pending_header \in DOMAIN file.box
      /\ has_bytes_left = Pending.sized
      /\ has_bytes_left => cursor + bytes_left = PayloadEnd(pending_header)
      /\ PayloadStart(pending_header) <= cursor
      /\ CurrentType \in AuxTypes
      /\ CurrentType = IF Pending.ty = "brob" THEN Pending.inner ELSE Pending.ty
      /\ PayloadStart(pending_header) \in Nat /\ PayloadEnd(pending_header) \in Nat
      /\ ~AwaitsInnerType
  BY AuxFacts DEF AuxDataSized, AuxDataUnsized
<1>1. /\ file' = file /\ fed' = fed /\ status' = status /\ state' = state
      /\ call' \in {call, "wrapped"}
      /\ pending_header' = pending_header /\ has_brotli_inner_type' = has_brotli_inner_type
      /\ has_bytes_left' = has_bytes_left
      /\ jxlp_index_state' = jxlp_index_state /\ jxlp_expected_index' = jxlp_expected_index
      /\ codestream_kind' = codestream_kind
      /\ pending_no_more_aux_box' = pending_no_more_aux_box
      /\ accepted' = accepted /\ no_more' = no_more
  BY DEF AuxDataSized, AuxDataUnsized, input, boxvars, jxlpvars, leftvars, hist
<1>2. /\ cursor \in Nat /\ fed \in Nat /\ bytes_left \in Nat /\ fed <= file.len
  BY DEF TypeOK
<1>3. PICK n \in Nat :
        /\ cursor' = cursor + n /\ cursor + n <= fed
        /\ event' = DataEvent(CurrentType, cursor, cursor + n)
        /\ IF has_bytes_left THEN n <= bytes_left /\ bytes_left' = bytes_left - n
           ELSE bytes_left' = bytes_left
  <2>1. CASE AuxDataSized
    <3> Least(bytes_left, Remaining) \in Nat
      BY <1>2, <1>0 DEF Least, Remaining
    <3> WITNESS Least(bytes_left, Remaining) \in Nat
    <3> QED BY <1>0, <1>2, <2>1 DEF AuxDataSized, Least, Remaining
  <2>2. CASE AuxDataUnsized
    <3> fed - cursor \in Nat
      BY <1>2, <1>0
    <3> WITNESS fed - cursor \in Nat
    <3> QED BY <1>0, <1>2, <2>2 DEF AuxDataUnsized, leftvars
  <2> QED BY <2>1, <2>2
<1>4. /\ Pending' = Pending /\ CurrentType' = CurrentType
      /\ AwaitsInnerType' = AwaitsInnerType
      /\ PayloadStart(pending_header)' = PayloadStart(pending_header)
      /\ PayloadEnd(pending_header)' = PayloadEnd(pending_header)
  BY <1>1 DEF Pending, CurrentType, AwaitsInnerType, PayloadStart, PayloadEnd
<1>5. cursor + n <= PayloadEnd(pending_header)
  <2>1. CASE has_bytes_left
    BY <1>0, <1>2, <1>3, <2>1
  <2>2. CASE ~has_bytes_left
    BY <1>0, <1>2, <1>3, <2>2 DEF Pending, PayloadEnd
  <2> QED BY <2>1, <2>2
<1>6. TypeOK'
  <2>1. bytes_left' \in Nat /\ cursor' \in 0 .. fed' /\ fed' \in 0 .. file'.len
    BY <1>1, <1>2, <1>3 DEF TypeOK
  <2>2. event' \in Events
    <3>1. cursor \in Nat /\ cursor + n \in Nat
      BY <1>2
    <3> QED BY <1>0, <1>3, <3>1 DEF Events, DataEvent
  <2>3. call' \in {"idle", "feeding", "wrapped"}
    BY <1>0, <1>1
  <2> QED BY <1>1, <2>1, <2>2, <2>3 DEF TypeOK
<1>7. CallInv' /\ OrderInv' /\ NoMoreInv'
  BY <1>0, <1>1 DEF CallInv, OrderInv, NextIndex, NoMoreInv
<1>8. DataFaithful'
  BY <1>0, <1>1, <1>3, <1>4, <1>5 DEF DataFaithful, DataEvent
<1>9. PlaceInv'
  <2>1. has_bytes_left' => cursor' + bytes_left' = PayloadEnd(pending_header)'
    <3> SUFFICES ASSUME has_bytes_left
                 PROVE  cursor' + bytes_left' = PayloadEnd(pending_header)'
      BY <1>1
    <3>1. bytes_left' = bytes_left - n /\ cursor + bytes_left = PayloadEnd(pending_header)
      BY <1>0, <1>3
    <3> QED BY <1>2, <1>3, <1>4, <3>1
  <2>2. PayloadStart(pending_header)' <= cursor'
    BY <1>0, <1>2, <1>3, <1>4
  <2>3. AuxInv
    BY <1>0 DEF PlaceInv
  <2>4. AuxInv'
    BY <1>0, <1>1, <1>4, <2>1, <2>2, <2>3 DEF AuxInv
  <2> QED BY <1>0, <1>1, <2>4 DEF PlaceInv, SignatureInv, HeaderInv, JxlpInv, BareInv, BoxedInv
<1> QED BY <1>6, <1>7, <1>8, <1>9

LEMMA CallStep == Inv /\ ((\E n \in 1 .. file.len : Feed(n)) \/ Return) => Inv'
<1> SUFFICES ASSUME Inv, (\E n \in 1 .. file.len : Feed(n)) \/ Return PROVE Inv'
  OBVIOUS
<1> USE FileTyped DEF Inv
<1>1. /\ file' = file /\ cursor' = cursor /\ status' = status /\ state' = state
      /\ fed' \in fed .. file.len
      /\ call' \in {"idle", "feeding"} /\ event' = NoEvent /\ status = "OK"
      /\ pending_header' = pending_header /\ has_brotli_inner_type' = has_brotli_inner_type
      /\ bytes_left' = bytes_left /\ has_bytes_left' = has_bytes_left
      /\ jxlp_index_state' = jxlp_index_state /\ jxlp_expected_index' = jxlp_expected_index
      /\ codestream_kind' = codestream_kind
      /\ pending_no_more_aux_box' = pending_no_more_aux_box
      /\ accepted' = accepted /\ no_more' = no_more
  BY DEF Feed, Return, TypeOK, CallInv, boxvars, jxlpvars, leftvars, hist
<1>2. TypeOK'
  <2>1. cursor' \in 0 .. fed' /\ fed' \in 0 .. file'.len
    BY <1>1 DEF TypeOK
  <2> QED BY <1>1, <2>1 DEF TypeOK, Events
<1>3. CallInv' /\ OrderInv' /\ NoMoreInv' /\ DataFaithful'
  BY <1>1 DEF CallInv, OrderInv, NextIndex, NoMoreInv, DataFaithful, NoEvent
<1>4. PlaceInv'
  BY <1>1 DEF PlaceInv, SignatureInv, HeaderInv, JxlpInv, BareInv, BoxedInv, AuxInv,
              Pending, AwaitsInnerType, Current, PayloadStart, PayloadEnd
<1> QED BY <1>2, <1>3, <1>4

LEMMA InvInit == Init => Inv
<1> SUFFICES ASSUME Init PROVE Inv
  OBVIOUS
<1> USE DEF Init
<1>1. TypeOK
  <2>1. file.len \in Nat
    BY FilesAssumption DEF File
  <2>2. event \in Events
    BY DEF Events
  <2>3. accepted \in Seq(DOMAIN file.box)
    OBVIOUS
  <2>4. fed \in 0 .. file.len /\ cursor \in 0 .. fed
    BY <2>1
  <2> HIDE DEF Init
  <2>5. /\ file \in Files /\ pending_header = 0 /\ jxlp_expected_index = 0 /\ bytes_left = 0
        /\ call = "idle" /\ status = "OK" /\ state = "WAITING_SIGNATURE"
        /\ jxlp_index_state = "INITIAL" /\ codestream_kind = "unknown"
        /\ ~has_brotli_inner_type /\ ~has_bytes_left /\ ~pending_no_more_aux_box /\ ~no_more
        /\ has_brotli_inner_type \in BOOLEAN /\ has_bytes_left \in BOOLEAN
        /\ pending_no_more_aux_box \in BOOLEAN /\ no_more \in BOOLEAN
    BY DEF Init
  <2> QED BY <2>2, <2>3, <2>4, <2>5 DEF TypeOK
<1>2. CallInv /\ OrderInv /\ NoMoreInv /\ DataFaithful
  BY DEF CallInv, OrderInv, NoMoreInv, DataFaithful, NoEvent
<1>3. PlaceInv
  BY DEF PlaceInv, SignatureInv, HeaderInv, JxlpInv, BareInv, BoxedInv, AuxInv
<1> QED BY <1>1, <1>2, <1>3 DEF Inv

LEMMA InvStep == Inv /\ [Next]_vars => Inv'
<1> SUFFICES ASSUME Inv, [Next]_vars PROVE Inv'
  OBVIOUS
<1>1. CASE UNCHANGED vars
  BY <1>1
     DEF vars, Inv, TypeOK, CallInv, PlaceInv, SignatureInv, HeaderInv, JxlpInv, BareInv,
         BoxedInv, AuxInv, OrderInv, NoMoreInv, DataFaithful, NextIndex, Current, Pending,
         AwaitsInnerType, PayloadStart, PayloadEnd
<1>2. CASE (\E n \in 1 .. file.len : Feed(n)) \/ Return
  BY <1>2, CallStep
<1>3. CASE Emit
  <2>1. CASE DetectBareOrInvalid \/ DetectContainer
    BY <2>1, DetectStep
  <2>2. CASE EmitHeader
    BY <2>2, JxlcStep, JxlpStep, AuxHeaderStep, HeaderRejectedStep DEF EmitHeader
  <2>3. CASE EmitJxlpIndex
    BY <2>3, JxlpIndexStep, JxlpIndexRejectedStep DEF EmitJxlpIndex
  <2>4. CASE NoMoreAuxBox
    BY <2>4, NoMoreAuxBoxStep
  <2>5. CASE Codestream
    BY <2>5, CodestreamStep
  <2>6. CASE BrobInnerType \/ BrobInnerRejected
    BY <2>6, InnerTypeStep
  <2>7. CASE AuxEnd
    BY <2>7, AuxEndStep
  <2>8. CASE AuxDataSized \/ AuxDataUnsized
    BY <2>8, AuxDataStep
  <2> QED BY <1>3, <2>1, <2>2, <2>3, <2>4, <2>5, <2>6, <2>7, <2>8 DEF Emit
<1> QED BY <1>1, <1>2, <1>3 DEF Next

LEMMA AlwaysInv == Spec => []Inv
BY InvInit, InvStep, PTL DEF Spec

-----------------------------------------------------------------------------
(* The properties of ContainerParser *)

\* The parser's variables keep their types: cursor never passes what was fed,
\* and bytes_left never goes below zero.
THEOREM TypeCorrect == Spec => []TypeOK
<1>1. Inv => TypeOK
  BY DEF Inv
<1> QED BY <1>1, AlwaysInv, PTL

\* Headers, jxlp indices and wrapped types are read only where the file has
\* them, however it is cut (the offsets jxl_container_parser_emit keeps).
THEOREM AlwaysAligned == Spec => []Aligned
<1>1. Inv => Aligned
  BY DEF Inv, Aligned, PlaceInv, HeaderInv, JxlpInv, AuxInv
<1> QED BY <1>1, AlwaysInv, PTL

\* The data events of jxl_container_parser_emit carry payload of the box they
\* are about, and nothing else.
THEOREM AlwaysDataFaithful == Spec => []DataFaithful
<1>1. Inv => DataFaithful
  BY DEF Inv
<1> QED BY <1>1, AlwaysInv, PTL

\* The jxlp bookkeeping (jxlp_index_state) admits one jxlc box or jxlp boxes in
\* the order of their indices, and none after the last.
THEOREM AlwaysCodestreamOrdered == Spec => []CodestreamOrdered
<1>1. Inv => CodestreamOrdered
  <2> SUFFICES ASSUME Inv PROVE CodestreamOrdered
    OBVIOUS
  <2>1. jxlp_index_state \in {"INITIAL", "SINGLE_JXLC", "INDEXED", "FINISHED"}
    BY DEF Inv, TypeOK
  <2>2. CASE jxlp_index_state = "INITIAL"
    BY <2>2 DEF Inv, OrderInv, CodestreamOrdered
  <2>3. CASE jxlp_index_state = "SINGLE_JXLC"
    <3>1. Len(accepted) = 1 /\ file.box[accepted[1]].ty = "jxlc"
      BY <2>3 DEF Inv, OrderInv
    <3>2. \A i \in 1 .. Len(accepted) : i = 1
      BY <3>1
    <3> QED BY <3>1, <3>2 DEF CodestreamOrdered
  <2>4. CASE jxlp_index_state = "INDEXED"
    BY <2>4 DEF Inv, OrderInv, CodestreamOrdered
  <2>5. CASE jxlp_index_state = "FINISHED"
    BY <2>5 DEF Inv, OrderInv, CodestreamOrdered
  <2> QED BY <2>1, <2>2, <2>3, <2>4, <2>5
<1> QED BY <1>1, AlwaysInv, PTL

\* NO_MORE_AUX_BOX is emitted only when no box follows.
THEOREM AlwaysNoMoreIsTrue == Spec => []NoMoreIsTrue
<1>1. Inv => NoMoreIsTrue
  BY DEF Inv, NoMoreInv, NoMoreIsTrue
<1> QED BY <1>1, AlwaysInv, PTL

\* What jxl_container_parser_kind answers is final once it is known.
THEOREM KindNeverChanges == Spec => KindStable
<1>1. Inv /\ [Next]_vars => (Kind # "unknown" => Kind' = Kind)
  <2> SUFFICES ASSUME Inv, [Next]_vars, Kind # "unknown" PROVE Kind' = Kind
    OBVIOUS
  <2>1. state # "WAITING_SIGNATURE"
    BY DEF Kind
  <2>2. CASE UNCHANGED vars
    BY <2>2 DEF vars, Kind
  <2>3. CASE (\E n \in 1 .. file.len : Feed(n)) \/ Return
    BY <2>3 DEF Feed, Return, Kind
  <2>4. CASE EmitHeader
    <3> SUFFICES ASSUME NEW box,
                        HeaderJxlc(box) \/ HeaderJxlp(box) \/ HeaderAux(box) \/ HeaderBrob(box)
                        \/ HeaderCodestreamRejected(box) \/ HeaderBrobRejected(box)
                 PROVE  Kind' = Kind
      BY <2>4 DEF EmitHeader
    <3>1. state = "WAITING_BOX_HEADER"
      BY DEF HeaderJxlc, HeaderJxlp, HeaderAux, HeaderBrob, HeaderCodestreamRejected,
             HeaderBrobRejected, HeaderOf, Emitting
    <3>2. \/ state' = "IN_CODESTREAM" /\ codestream_kind' = "container"
          \/ state' \in {"WAITING_JXLP_INDEX", "IN_AUX_BOX", "WAITING_BOX_HEADER"}
      BY <3>1 DEF HeaderJxlc, HeaderJxlp, HeaderAux, HeaderBrob, HeaderCodestreamRejected,
                  HeaderBrobRejected, EnterCodestream
    <3> QED BY <3>1, <3>2 DEF Kind
  <2>5. CASE EmitJxlpIndex
    <3>1. state = "WAITING_JXLP_INDEX"
      BY <2>5 DEF EmitJxlpIndex, JxlpIndex, JxlpIndexRejected, JxlpIndexOf, Emitting
    <3>2. \/ state' = "IN_CODESTREAM" /\ codestream_kind' = "container"
          \/ state' = "WAITING_JXLP_INDEX"
      BY <2>5, <3>1 DEF EmitJxlpIndex, JxlpIndex, JxlpIndexRejected, EnterCodestream
    <3> QED BY <3>1, <3>2 DEF Kind
  <2>6. CASE NoMoreAuxBox
    BY <2>6 DEF NoMoreAuxBox, Kind
  <2>7. CASE Codestream
    <3>1. state = "IN_CODESTREAM" /\ codestream_kind' = codestream_kind /\ status = "OK"
      BY <2>7 DEF Codestream, Emitting, Inv, CallInv
    <3>2. state' \in {"IN_CODESTREAM", "WAITING_BOX_HEADER"}
      BY <2>7, <3>1 DEF Codestream
    <3>3. state' = "WAITING_BOX_HEADER" => codestream_kind = "container"
      BY <2>7, <3>1 DEF Codestream, Inv, PlaceInv, BareInv, BoxedInv
    <3> QED BY <3>1, <3>2, <3>3 DEF Kind
  <2>8. CASE BrobInnerType \/ BrobInnerRejected
    BY <2>8 DEF BrobInnerType, BrobInnerRejected, InnerTypeRead, Emitting, Kind
  <2>9. CASE AuxEnd \/ AuxDataSized \/ AuxDataUnsized
    BY <2>9 DEF AuxEnd, AuxDataSized, AuxDataUnsized, Emitting, Kind
  <2>10. CASE DetectBareOrInvalid \/ DetectContainer
    BY <2>1, <2>10 DEF DetectBareOrInvalid, DetectContainer, Emitting
  <2> QED BY <2>2, <2>3, <2>4, <2>5, <2>6, <2>7, <2>8, <2>9, <2>10 DEF Next, Emit
<1>2. Inv /\ [Next]_vars => [Kind # "unknown" => Kind' = Kind]_vars
  BY <1>1
<1> QED BY <1>2, AlwaysInv, PTL DEF Spec, KindStable

-----------------------------------------------------------------------------
(* How the parser moves along the boxes *)

LEMMA BoxesApart ==
  ASSUME TypeOK, NEW p \in DOMAIN file.box, NEW q \in DOMAIN file.box, p < q
  PROVE  /\ file.box[p].sized
         /\ PayloadEnd(p) = p + file.box[p].hdr + file.box[p].size
         /\ PayloadEnd(p) <= q
<1>1. file \in Files
  BY DEF TypeOK
<1>. QED BY <1>1, FilesAssumption DEF File, PayloadEnd

LEMMA FirstBox ==
  ASSUME TypeOK, file.sig = "container", NEW p \in DOMAIN file.box
  PROVE  ContainerSigLen <= p
BY FilesAssumption DEF TypeOK, File

LEMMA NoBoxesOutside ==
  ASSUME TypeOK, file.sig # "container"
  PROVE  DOMAIN file.box = {}
BY FilesAssumption DEF TypeOK, File

(* The box whose bytes a step of emit looks at. *)
CurrentBox == CASE state = "WAITING_BOX_HEADER" -> cursor
                [] state = "IN_CODESTREAM" -> Current
                [] OTHER -> pending_header

LEMMA EmitFrame ==
  ASSUME Inv, Emit
  PROVE  /\ call = "feeding" /\ status = "OK" /\ PlaceInv /\ cursor < fed
         /\ file' = file /\ fed' = fed
         /\ cursor \in Nat /\ cursor' \in Nat /\ cursor <= cursor' /\ cursor' <= fed
         /\ fed <= file.len /\ fed \in Nat /\ file.len \in Nat
<1>1. call = "feeding" /\ file' = file /\ fed' = fed /\ cursor < fed
  <2>1. CASE EmitHeader
    BY <2>1 DEF EmitHeader, HeaderJxlc, HeaderJxlp, HeaderAux, HeaderBrob,
                HeaderCodestreamRejected, HeaderBrobRejected, HeaderOf, Emitting, Reject, input
  <2>2. CASE EmitJxlpIndex
    BY <2>2 DEF EmitJxlpIndex, JxlpIndex, JxlpIndexRejected, JxlpIndexOf, Emitting, Reject, input
  <2>3. CASE BrobInnerType \/ BrobInnerRejected
    BY <2>3 DEF BrobInnerType, BrobInnerRejected, InnerTypeRead, Emitting, Reject, input
  <2>4. CASE DetectBareOrInvalid \/ DetectContainer
    BY <2>4 DEF DetectBareOrInvalid, DetectContainer, Emitting, input
  <2>5. CASE NoMoreAuxBox \/ Codestream \/ AuxEnd \/ AuxDataSized \/ AuxDataUnsized
    BY <2>5 DEF NoMoreAuxBox, Codestream, AuxEnd, AuxDataSized, AuxDataUnsized, Emitting, input
  <2>. QED BY <2>1, <2>2, <2>3, <2>4, <2>5 DEF Emit
<1>2. status = "OK" /\ PlaceInv
  BY <1>1 DEF Inv, CallInv
<1>3. TypeOK /\ TypeOK'
  BY InvStep DEF Next, Inv
<1>4. /\ cursor \in Nat /\ fed <= file.len /\ fed \in Nat /\ file.len \in Nat
      /\ cursor' \in Nat /\ cursor' <= fed /\ bytes_left \in Nat /\ has_bytes_left \in BOOLEAN
  BY <1>1, <1>3, FileTyped DEF TypeOK
<1>5. cursor <= cursor'
  <2>1. CASE EmitHeader
    <3>1. PICK box : HeaderOf(box)
      BY <2>1 DEF EmitHeader, HeaderJxlc, HeaderJxlp, HeaderAux, HeaderBrob,
                  HeaderCodestreamRejected, HeaderBrobRejected
    <3>. QED BY <1>4, <3>1, HeaderFacts
  <2>2. CASE EmitJxlpIndex
    BY <1>4, <2>2 DEF EmitJxlpIndex, JxlpIndex, JxlpIndexRejected, JxlpIndexOf
  <2>3. CASE BrobInnerType \/ BrobInnerRejected
    <3>1. cursor' = cursor + 4
      BY <2>3 DEF BrobInnerType, BrobInnerRejected, InnerTypeRead
    <3>. QED BY <1>4, <3>1
  <2>4. CASE DetectBareOrInvalid \/ DetectContainer
    BY <1>4, <2>4 DEF DetectBareOrInvalid, DetectContainer, ContainerSigLen
  <2>5. CASE NoMoreAuxBox \/ AuxEnd
    BY <1>4, <2>5 DEF NoMoreAuxBox, AuxEnd
  <2>6. CASE Codestream
    BY <1>1, <1>4, <2>6 DEF Codestream, Least, Remaining
  <2>7. CASE AuxDataSized \/ AuxDataUnsized
    BY <1>1, <1>4, <2>7 DEF AuxDataSized, AuxDataUnsized, Least, Remaining
  <2>. QED BY <2>1, <2>2, <2>3, <2>4, <2>5, <2>6, <2>7 DEF Emit
<1>. QED BY <1>1, <1>2, <1>4, <1>5

(* A step of emit never leaves the box it is in. *)
LEMMA StaysInBox ==
  ASSUME Inv, Emit, file.sig = "container", state # "WAITING_SIGNATURE"
  PROVE  /\ CurrentBox \in DOMAIN file.box
         /\ CurrentBox <= cursor
         /\ CurrentBox = cursor => state = "WAITING_BOX_HEADER"
         /\ cursor' <= PayloadEnd(CurrentBox)
<1>. DEFINE p == CurrentBox
<1>0. TypeOK
  BY DEF Inv
<1>1. /\ status = "OK" /\ cursor \in Nat /\ cursor' \in Nat /\ cursor' <= fed
      /\ fed <= file.len /\ fed \in Nat /\ file.len \in Nat /\ cursor < fed /\ PlaceInv
  BY EmitFrame
<1>2. CASE EmitHeader
  <2>1. PICK box : HeaderOf(box)
    BY <1>2 DEF EmitHeader, HeaderJxlc, HeaderJxlp, HeaderAux, HeaderBrob,
                HeaderCodestreamRejected, HeaderBrobRejected
  <2>2. state = "WAITING_BOX_HEADER" /\ cursor \in DOMAIN file.box /\ box = file.box[cursor]
        /\ cursor' = cursor + box.hdr /\ box.size \in Nat /\ box.sized \in BOOLEAN
        /\ box.hdr \in {8, 16}
    BY <2>1, HeaderFacts
  <2>3. p = cursor
    BY <2>2 DEF CurrentBox
  <2>. QED BY <1>1, <2>2, <2>3 DEF PayloadEnd
<1>3. CASE EmitJxlpIndex
  <2>1. /\ state = "WAITING_JXLP_INDEX" /\ pending_header \in DOMAIN file.box
        /\ cursor = pending_header + Pending.hdr /\ cursor' = cursor + 4
        /\ Pending.sized => Pending.size >= 4
    BY <1>1, <1>3 DEF EmitJxlpIndex, JxlpIndex, JxlpIndexRejected, JxlpIndexOf, Emitting,
                      PlaceInv, JxlpInv
  <2>2. p = pending_header /\ Pending = file.box[p]
    BY <2>1 DEF CurrentBox, Pending
  <2>3. p \in Nat /\ Pending.hdr \in {8, 16} /\ Pending.size \in Nat
    BY <1>0, <2>1, <2>2, BoxTyped
  <2>. QED BY <1>1, <2>1, <2>2, <2>3 DEF PayloadEnd
<1>4. CASE NoMoreAuxBox \/ Codestream
  <2>1. state = "IN_CODESTREAM" /\ p = Current
    BY <1>4 DEF NoMoreAuxBox, Codestream, Emitting, CurrentBox
  <2>2. /\ accepted # <<>> /\ has_bytes_left = file.box[p].sized
        /\ PayloadStart(p) <= cursor
        /\ has_bytes_left => cursor + bytes_left = PayloadEnd(p)
        /\ pending_no_more_aux_box => ~file.box[p].sized
    BY <1>1, <2>1 DEF PlaceInv, BoxedInv
  <2>3. p \in DOMAIN file.box
    BY <1>0, <2>1, <2>2 DEF TypeOK, Current
  <2>4. p \in Nat /\ file.box[p].hdr \in {8, 16}
    BY <1>0, <2>3, BoxTyped
  <2>5. p < cursor
    BY <1>1, <2>2, <2>4 DEF PayloadStart
  <2>6. cursor' <= PayloadEnd(p)
    <3>1. CASE ~file.box[p].sized
      BY <1>1, <3>1 DEF PayloadEnd
    <3>2. CASE file.box[p].sized
      <4>1. Codestream
        BY <1>4, <2>2, <3>2 DEF NoMoreAuxBox
      <4>2. bytes_left \in Nat
        BY <1>0 DEF TypeOK
      <4>3. cursor' = cursor + Least(bytes_left, fed - cursor)
        BY <2>2, <3>2, <4>1 DEF Codestream, Remaining
      <4>. QED BY <1>1, <2>2, <3>2, <4>2, <4>3 DEF Least
    <3>. QED BY <3>1, <3>2
  <2>. QED BY <1>1, <2>3, <2>4, <2>5, <2>6
<1>5. CASE BrobInnerType \/ BrobInnerRejected \/ AuxEnd \/ AuxDataSized \/ AuxDataUnsized
  <2>1. state = "IN_AUX_BOX" /\ p = pending_header
    BY <1>5 DEF BrobInnerType, BrobInnerRejected, InnerTypeRead, AuxEnd, AuxDataSized,
                AuxDataUnsized, Emitting, CurrentBox
  <2>2. /\ p \in DOMAIN file.box /\ has_bytes_left = file.box[p].sized
        /\ has_bytes_left => cursor + bytes_left = PayloadEnd(p)
        /\ AwaitsInnerType => /\ cursor = p + file.box[p].hdr
                              /\ has_bytes_left => bytes_left >= 4
        /\ ~AwaitsInnerType => PayloadStart(p) <= cursor
    BY <1>1, <2>1 DEF PlaceInv, AuxInv, Pending
  <2>4. p \in Nat /\ file.box[p].hdr \in {8, 16} /\ bytes_left \in Nat
    BY <1>0, <2>2, BoxTyped DEF TypeOK
  <2>5. p < cursor
    <3>1. CASE AwaitsInnerType
      BY <1>1, <2>2, <2>4, <3>1
    <3>2. CASE ~AwaitsInnerType
      BY <1>1, <2>2, <2>4, <3>2 DEF PayloadStart
    <3>. QED BY <3>1, <3>2
  <2>6. cursor' <= PayloadEnd(p)
    <3>1. CASE ~file.box[p].sized
      BY <1>1, <3>1 DEF PayloadEnd
    <3>2. CASE file.box[p].sized
      <4>1. cursor' <= cursor + bytes_left
        <5>1. CASE BrobInnerType \/ BrobInnerRejected
          <6>1. cursor' = cursor + 4 /\ AwaitsInnerType
            BY <5>1 DEF BrobInnerType, BrobInnerRejected, InnerTypeRead
          <6>2. bytes_left >= 4
            BY <2>2, <3>2, <6>1
          <6>. QED BY <1>1, <2>4, <6>1, <6>2
        <5>2. CASE AuxEnd
          BY <1>1, <2>4, <5>2 DEF AuxEnd
        <5>3. CASE AuxDataSized
          BY <1>1, <2>4, <5>3 DEF AuxDataSized, Least, Remaining
        <5>4. CASE AuxDataUnsized
          BY <2>2, <3>2, <5>4 DEF AuxDataUnsized
        <5>. QED BY <1>5, <5>1, <5>2, <5>3, <5>4
      <4>. QED BY <2>2, <3>2, <4>1
    <3>. QED BY <3>1, <3>2
  <2>. QED BY <1>1, <2>2, <2>4, <2>5, <2>6
<1>6. CASE DetectBareOrInvalid \/ DetectContainer
  BY <1>6 DEF DetectBareOrInvalid, DetectContainer, Emitting
<1>. QED BY <1>2, <1>3, <1>4, <1>5, <1>6 DEF Emit

(* The only box start a step passes is the one whose header it reads. *)
LEMMA PassesItsHeader ==
  ASSUME Inv, Emit, NEW q \in DOMAIN file.box, cursor <= q, q < cursor'
  PROVE  q = cursor /\ state = "WAITING_BOX_HEADER"
<1>0. TypeOK
  BY DEF Inv
<1>1. file.sig = "container"
  BY <1>0, NoBoxesOutside
<1>2. q \in Nat /\ cursor \in Nat /\ cursor' \in Nat
  BY <1>0, BoxTyped, EmitFrame
<1>3. CASE state = "WAITING_SIGNATURE"
  <2>1. ContainerSigLen <= q
    BY <1>0, <1>1, FirstBox
  <2>2. cursor' <= ContainerSigLen
    <3>1. cursor = 0
      BY <1>3, EmitFrame DEF PlaceInv, SignatureInv
    <3>2. DetectBareOrInvalid \/ DetectContainer
      BY <1>3 DEF Emit, EmitHeader, HeaderJxlc, HeaderJxlp, HeaderAux, HeaderBrob,
                  HeaderCodestreamRejected, HeaderBrobRejected, HeaderOf, EmitJxlpIndex,
                  JxlpIndex, JxlpIndexRejected, JxlpIndexOf, NoMoreAuxBox, Codestream,
                  BrobInnerType, BrobInnerRejected, InnerTypeRead, AuxEnd, AuxDataSized,
                  AuxDataUnsized, Emitting
    <3>. QED BY <3>1, <3>2 DEF DetectBareOrInvalid, DetectContainer, ContainerSigLen
  <2>. QED BY <1>2, <2>1, <2>2 DEF ContainerSigLen
<1>4. CASE state # "WAITING_SIGNATURE"
  <2>1. /\ CurrentBox \in DOMAIN file.box /\ CurrentBox <= cursor
        /\ CurrentBox = cursor => state = "WAITING_BOX_HEADER"
        /\ cursor' <= PayloadEnd(CurrentBox)
    BY <1>1, <1>4, StaysInBox
  <2>2. CurrentBox \in Nat
    BY <1>0, <2>1, BoxTyped
  <2>3. ~(CurrentBox < q)
    <3>1. SUFFICES ASSUME CurrentBox < q PROVE FALSE
      OBVIOUS
    <3>2. PayloadEnd(CurrentBox) <= q /\ PayloadEnd(CurrentBox) \in Nat
      BY <1>0, <2>1, <3>1, BoxesApart, BoxTyped
    <3>. QED BY <1>2, <2>1, <3>2
  <2>. QED BY <1>2, <2>1, <2>2, <2>3
<1>. QED BY <1>3, <1>4

-----------------------------------------------------------------------------
(* What a step of emit tells the callback.  A box is opened when its start *)
(* has been announced, with the type a brob box wraps.                     *)

Opened == state = "IN_AUX_BOX" /\ ~AwaitsInnerType

Silent ==
  /\ event'.type \in {"none", "kind"}
  /\ state # "IN_CODESTREAM" /\ ~Opened
  /\ status' = "OK" => ~Opened' /\ state # "IN_AUX_BOX"
HandsCodestream ==
  /\ event' = CodestreamEvent(cursor, cursor')
  /\ state = "IN_CODESTREAM" /\ state' \in {"IN_CODESTREAM", "WAITING_BOX_HEADER"}
  /\ no_more => state' = "IN_CODESTREAM"
  /\ status' = "OK" /\ codestream_kind # "unknown" /\ codestream_kind' = codestream_kind
AnnouncesEnd ==
  /\ event' = NoMoreEvent
  /\ state = "IN_CODESTREAM" /\ state' = "IN_CODESTREAM" /\ no_more'
  /\ cursor' = cursor /\ status' = "OK" /\ codestream_kind' = codestream_kind
OpensBox ==
  /\ event' = StartEvent(CurrentType', Pending'.ty = "brob", ~Pending'.sized)
  /\ state \in {"WAITING_BOX_HEADER", "IN_AUX_BOX"} /\ ~Opened /\ Opened'
  /\ pending_header' \in DOMAIN file.box
  /\ pending_header' = IF state = "IN_AUX_BOX" THEN pending_header ELSE cursor
  /\ cursor' = PayloadStart(pending_header)'
  /\ status' = "OK"
HandsData ==
  /\ event' = DataEvent(CurrentType, cursor, cursor')
  /\ Opened /\ Opened' /\ pending_header \in DOMAIN file.box
  /\ pending_header' = pending_header /\ CurrentType' = CurrentType
  /\ PayloadStart(pending_header) <= cursor /\ cursor < cursor'
  /\ cursor' <= PayloadEnd(pending_header)
  /\ status' = "OK"
ClosesBox ==
  /\ event' = EndEvent(CurrentType)
  /\ Opened /\ pending_header \in DOMAIN file.box /\ Pending.sized
  /\ pending_header' = pending_header
  /\ state' = "WAITING_BOX_HEADER"
  /\ cursor = PayloadEnd(pending_header) /\ PayloadStart(pending_header) <= cursor
  /\ cursor' = cursor /\ status' = "OK"

LEMMA DetectSilent == Inv /\ (DetectBareOrInvalid \/ DetectContainer) => Silent
BY DEF Silent, DetectBareOrInvalid, DetectContainer, Emitting, KindEvent, Opened

LEMMA HeaderTells ==
  ASSUME Inv, NEW box,
         HeaderJxlc(box) \/ HeaderJxlp(box) \/ HeaderAux(box) \/ HeaderBrob(box)
         \/ HeaderCodestreamRejected(box) \/ HeaderBrobRejected(box)
  PROVE  Silent \/ OpensBox
<1>1. HeaderOf(box) /\ state = "WAITING_BOX_HEADER"
  BY DEF HeaderJxlc, HeaderJxlp, HeaderAux, HeaderBrob, HeaderCodestreamRejected,
         HeaderBrobRejected, HeaderOf, Emitting
<1>2. /\ cursor \in DOMAIN file.box /\ box = file.box[cursor] /\ cursor' = cursor + box.hdr
      /\ status = "OK" /\ box.sized \in BOOLEAN
  BY <1>1, HeaderFacts
<1>3. CASE HeaderJxlc(box) \/ HeaderJxlp(box)
  BY <1>1, <1>3 DEF HeaderJxlc, HeaderJxlp, EnterCodestream, Silent, Opened, NoEvent
<1>4. CASE HeaderCodestreamRejected(box) \/ HeaderBrobRejected(box)
  BY <1>1, <1>4 DEF HeaderCodestreamRejected, HeaderBrobRejected, Reject, Silent, Opened, NoEvent
<1>5. CASE HeaderBrob(box)
  <2>1. /\ event' = NoEvent /\ state' = "IN_AUX_BOX" /\ pending_header' = cursor
        /\ ~has_brotli_inner_type' /\ file' = file /\ box.ty = "brob"
    BY <1>5 DEF HeaderBrob, input
  <2>2. AwaitsInnerType'
    BY <1>2, <2>1 DEF AwaitsInnerType, Pending
  <2>. QED BY <1>1, <2>1, <2>2 DEF Silent, Opened, NoEvent
<1>6. CASE HeaderAux(box)
  <2>1. /\ event' = StartEvent(box.ty, FALSE, ~box.sized)
        /\ state' = "IN_AUX_BOX" /\ pending_header' = cursor /\ status' = status
        /\ has_brotli_inner_type' = FALSE /\ file' = file /\ box.ty \in AuxTypes
    BY <1>6 DEF HeaderAux, input
  <2>2. Pending' = box /\ box.ty \notin {"jxlc", "jxlp", "brob"}
    BY <1>2, <2>1, AuxAssumption DEF Pending
  <2>3. CurrentType' = box.ty /\ ~AwaitsInnerType'
    BY <2>1, <2>2 DEF CurrentType, AwaitsInnerType
  <2>4. cursor' = PayloadStart(pending_header)'
    <3>1. cursor' = cursor + file.box[cursor].hdr + 0
      <4>1. box.hdr \in {8, 16} /\ cursor \in Nat
        BY <1>1, HeaderFacts, EmitFrame, BoxTyped, <1>2 DEF Inv
      <4>. QED BY <1>2, <4>1
    <3>. QED BY <1>2, <2>1, <2>2, <3>1 DEF PayloadStart
  <2>5. (Pending'.ty = "brob") = FALSE
    BY <2>2
  <2>6. event' = StartEvent(CurrentType', Pending'.ty = "brob", ~Pending'.sized)
    BY <2>1, <2>2, <2>3, <2>5, Zenon
  <2>. QED BY <1>1, <1>2, <2>1, <2>3, <2>4, <2>6 DEF OpensBox, Opened
<1>. QED BY <1>3, <1>4, <1>5, <1>6

LEMMA IndexTells == Inv /\ EmitJxlpIndex => Silent
<1> SUFFICES ASSUME Inv, EmitJxlpIndex PROVE Silent
  OBVIOUS
<1>1. /\ event' = NoEvent /\ state = "WAITING_JXLP_INDEX"
      /\ state' \in {"WAITING_JXLP_INDEX", "IN_CODESTREAM"}
  BY DEF EmitJxlpIndex, JxlpIndex, JxlpIndexRejected, JxlpIndexOf, Emitting, EnterCodestream, Reject
<1>. QED BY <1>1 DEF Silent, Opened, NoEvent

LEMMA CodestreamTells ==
  ASSUME Inv, Emit, NoMoreAuxBox \/ Codestream
  PROVE  HandsCodestream \/ AnnouncesEnd
<1>1. status = "OK" /\ PlaceInv
  BY EmitFrame
<1>2. CASE NoMoreAuxBox
  BY <1>1, <1>2 DEF NoMoreAuxBox, Emitting, AnnouncesEnd
<1>3. CASE Codestream
  <2>1. /\ state = "IN_CODESTREAM" /\ status' = status /\ codestream_kind' = codestream_kind
        /\ event' = CodestreamEvent(cursor, cursor')
        /\ state' = "IN_CODESTREAM" \/ (has_bytes_left /\ state' = "WAITING_BOX_HEADER")
    BY <1>3 DEF Codestream, Emitting
  <2>2. codestream_kind # "unknown" /\ (no_more => ~has_bytes_left)
    BY <1>1, <2>1 DEF PlaceInv, BareInv, BoxedInv
  <2>. QED BY <1>1, <2>1, <2>2 DEF HandsCodestream
<1>. QED BY <1>2, <1>3

LEMMA InnerTypeTells ==
  ASSUME Inv, Emit, BrobInnerType \/ BrobInnerRejected
  PROVE  Silent \/ OpensBox
<1>1. /\ status = "OK" /\ PlaceInv /\ cursor \in Nat
      /\ state = "IN_AUX_BOX" /\ AwaitsInnerType
      /\ pending_header' = pending_header /\ state' = state /\ cursor' = cursor + 4
      /\ file' = file
  BY EmitFrame DEF BrobInnerType, BrobInnerRejected, InnerTypeRead, Emitting
<1>2. CASE BrobInnerRejected
  BY <1>1, <1>2 DEF BrobInnerRejected, Reject, Silent, Opened, NoEvent
<1>3. CASE BrobInnerType
  <2>1. /\ event' = StartEvent(Pending.inner, TRUE, ~Pending.sized)
        /\ has_brotli_inner_type' = TRUE /\ status' = status
    BY <1>3 DEF BrobInnerType
  <2>2. /\ pending_header \in DOMAIN file.box /\ Pending.ty = "brob"
        /\ cursor = pending_header + Pending.hdr
    BY <1>1 DEF PlaceInv, AuxInv, AwaitsInnerType
  <2>3. Pending' = Pending /\ CurrentType' = Pending.inner /\ ~AwaitsInnerType'
    BY <1>1, <2>1 DEF Pending, CurrentType, AwaitsInnerType
  <2>4. cursor' = PayloadStart(pending_header)'
    BY <1>1, <2>2 DEF PayloadStart, Pending
  <2>5. (Pending'.ty = "brob") = TRUE
    BY <2>2, <2>3
  <2>6. event' = StartEvent(CurrentType', Pending'.ty = "brob", ~Pending'.sized)
    BY <2>1, <2>3, <2>5, Zenon
  <2>. QED BY <1>1, <2>1, <2>2, <2>3, <2>4, <2>6 DEF OpensBox, Opened
<1>. QED BY <1>2, <1>3

LEMMA AuxTells ==
  ASSUME Inv, Emit, AuxEnd \/ AuxDataSized \/ AuxDataUnsized
  PROVE  HandsData \/ ClosesBox
<1>0. /\ status = "OK" /\ PlaceInv /\ cursor \in Nat /\ cursor' \in Nat /\ cursor < fed
      /\ fed \in Nat /\ cursor' <= fed /\ file' = file
  BY EmitFrame
<1>1. /\ state = "IN_AUX_BOX" /\ Opened
      /\ pending_header' = pending_header /\ status' = status
  BY DEF AuxEnd, AuxDataSized, AuxDataUnsized, Emitting, Opened, boxvars
<1>2. /\ pending_header \in DOMAIN file.box
      /\ has_bytes_left = Pending.sized
      /\ has_bytes_left => cursor + bytes_left = PayloadEnd(pending_header)
      /\ PayloadStart(pending_header) <= cursor
  BY <1>0, <1>1 DEF PlaceInv, AuxInv, Opened
<1>3. bytes_left \in Nat
  BY DEF Inv, TypeOK
<1>4. CASE AuxEnd
  BY <1>0, <1>1, <1>2, <1>3, <1>4 DEF AuxEnd, ClosesBox
<1>5. CASE AuxDataSized \/ AuxDataUnsized
  <2>1. /\ event' = DataEvent(CurrentType, cursor, cursor')
        /\ state' = state /\ has_brotli_inner_type' = has_brotli_inner_type
    BY <1>5 DEF AuxDataSized, AuxDataUnsized, boxvars
  <2>2. cursor < cursor'
    BY <1>0, <1>3, <1>5 DEF AuxDataSized, AuxDataUnsized, Least, Remaining
  <2>3. Opened' /\ CurrentType' = CurrentType
    BY <1>0, <1>1, <2>1 DEF Opened, CurrentType, AwaitsInnerType, Pending
  <2>4. cursor' <= PayloadEnd(pending_header)
    <3>1. file.sig = "container"
      BY <1>0, <1>1 DEF PlaceInv, HeaderInv
    <3>2. CurrentBox = pending_header
      BY <1>1 DEF CurrentBox
    <3>. QED BY <1>1, <3>1, <3>2, StaysInBox
  <2>. QED BY <1>0, <1>1, <1>2, <2>1, <2>2, <2>3, <2>4 DEF HandsData
<1>. QED BY <1>4, <1>5

LEMMA EmitTells ==
  ASSUME Inv, Emit
  PROVE  Silent \/ HandsCodestream \/ AnnouncesEnd \/ OpensBox \/ HandsData \/ ClosesBox
BY DetectSilent, HeaderTells, IndexTells, CodestreamTells, InnerTypeTells, AuxTells
   DEF Emit, EmitHeader

(* Where the headers lead: to the codestream or to an auxiliary box. *)
LEMMA HeadersLead ==
  ASSUME Inv, Emit, status' = "OK"
  PROVE  /\ state = "WAITING_BOX_HEADER" =>
              /\ cursor \in DOMAIN file.box /\ cursor < cursor'
              /\ \/ file.box[cursor].ty \in {"jxlc", "jxlp"} /\ state' # "IN_AUX_BOX"
                 \/ /\ file.box[cursor].ty \notin {"jxlc", "jxlp"}
                    /\ state' = "IN_AUX_BOX" /\ pending_header' = cursor
         /\ state # "WAITING_BOX_HEADER" /\ state' = "IN_AUX_BOX" =>
              state = "IN_AUX_BOX" /\ pending_header' = pending_header
         /\ state = "IN_AUX_BOX" =>
              pending_header' = pending_header /\ state' \in {"IN_AUX_BOX", "WAITING_BOX_HEADER"}
<1>1. CASE EmitHeader
  <2>1. PICK box : \/ HeaderJxlc(box) \/ HeaderJxlp(box) \/ HeaderAux(box) \/ HeaderBrob(box)
                   \/ HeaderCodestreamRejected(box) \/ HeaderBrobRejected(box)
    BY <1>1 DEF EmitHeader
  <2>2. HeaderOf(box) /\ state = "WAITING_BOX_HEADER"
    BY <2>1 DEF HeaderJxlc, HeaderJxlp, HeaderAux, HeaderBrob, HeaderCodestreamRejected,
                HeaderBrobRejected, HeaderOf, Emitting
  <2>3. /\ cursor \in DOMAIN file.box /\ box = file.box[cursor]
        /\ cursor' = cursor + box.hdr /\ box.hdr \in {8, 16} /\ cursor \in Nat
    BY <2>2, HeaderFacts, EmitFrame
  <2>4. \/ box.ty \in {"jxlc", "jxlp"} /\ state' # "IN_AUX_BOX"
        \/ /\ box.ty \notin {"jxlc", "jxlp"}
           /\ state' = "IN_AUX_BOX" /\ pending_header' = cursor
    <3>1. CASE HeaderJxlc(box) \/ HeaderJxlp(box)
      BY <3>1 DEF HeaderJxlc, HeaderJxlp, EnterCodestream
    <3>2. CASE HeaderAux(box) \/ HeaderBrob(box)
      BY <3>2, AuxAssumption DEF HeaderAux, HeaderBrob
    <3>3. CASE HeaderCodestreamRejected(box) \/ HeaderBrobRejected(box)
      BY <3>3 DEF HeaderCodestreamRejected, HeaderBrobRejected, Reject
    <3>. QED BY <2>1, <3>1, <3>2, <3>3
  <2>. QED BY <2>2, <2>3, <2>4
<1>2. CASE DetectBareOrInvalid \/ DetectContainer
  BY <1>2 DEF DetectBareOrInvalid, DetectContainer, Emitting
<1>3. CASE EmitJxlpIndex
  BY <1>3 DEF EmitJxlpIndex, JxlpIndex, JxlpIndexRejected, JxlpIndexOf, Emitting,
              EnterCodestream, Reject
<1>4. CASE NoMoreAuxBox \/ Codestream
  BY <1>4 DEF NoMoreAuxBox, Codestream, Emitting
<1>5. CASE BrobInnerType \/ BrobInnerRejected
  BY <1>5 DEF BrobInnerType, BrobInnerRejected, InnerTypeRead, Emitting
<1>6. CASE AuxEnd \/ AuxDataSized \/ AuxDataUnsized
  BY <1>6 DEF AuxEnd, AuxDataSized, AuxDataUnsized, Emitting, boxvars
<1>. QED BY <1>1, <1>2, <1>3, <1>4, <1>5, <1>6 DEF Emit

-----------------------------------------------------------------------------
(* A sound file is never refused: every jxlp box the parser has passed is  *)
(* one it accepted, so that the index it expects is the next one's.        *)

SeenInv ==
  /\ \A i \in 1 .. Len(accepted) : accepted[i] < cursor
  /\ jxlp_index_state = "FINISHED" => accepted # <<>> /\ file.box[Current].last
  /\ status = "OK" =>
       \A q \in DOMAIN file.box :
         file.box[q].ty = "jxlp" /\ q < cursor =>
           \/ state = "WAITING_JXLP_INDEX" /\ q = pending_header
           \/ \E i \in 1 .. Len(accepted) : accepted[i] = q
  /\ status = "OK" /\ state = "WAITING_JXLP_INDEX" =>
       \A i \in 1 .. Len(accepted) : accepted[i] < pending_header

LEMMA SeenKept ==
  ASSUME Inv, SeenInv, Emit, accepted' = accepted, jxlp_index_state' = jxlp_index_state,
         state = "WAITING_JXLP_INDEX" => status' # "OK",
         state = "WAITING_BOX_HEADER" => status' # "OK" \/ file.box[cursor].ty # "jxlp",
         state' = "WAITING_JXLP_INDEX" => status' # "OK"
  PROVE  SeenInv'
<1>1. /\ file' = file /\ cursor \in Nat /\ cursor' \in Nat /\ cursor <= cursor' /\ status = "OK"
  BY EmitFrame
<1>2. accepted \in Seq(DOMAIN file.box) /\ DOMAIN file.box \subseteq Nat
  BY FileTyped DEF Inv, TypeOK
<1>3. \A i \in 1 .. Len(accepted) : accepted[i] < cursor'
  BY <1>1, <1>2 DEF SeenInv
<1>4. ASSUME status' = "OK", NEW q \in DOMAIN file.box, file.box[q].ty = "jxlp", q < cursor'
      PROVE  \E i \in 1 .. Len(accepted) : accepted[i] = q
  <2>1. q < cursor
    BY <1>1, <1>2, <1>4, PassesItsHeader
  <2>. QED BY <1>1, <1>4, <2>1 DEF SeenInv
<1>. QED BY <1>1, <1>3, <1>4 DEF SeenInv, Current

LEMMA SeenHeaderStep ==
  ASSUME Inv, SeenInv, Emit, NEW box,
         HeaderJxlc(box) \/ HeaderJxlp(box) \/ HeaderAux(box) \/ HeaderBrob(box)
         \/ HeaderCodestreamRejected(box) \/ HeaderBrobRejected(box)
  PROVE  SeenInv'
<1>1. HeaderOf(box) /\ state = "WAITING_BOX_HEADER"
  BY DEF HeaderJxlc, HeaderJxlp, HeaderAux, HeaderBrob, HeaderCodestreamRejected,
         HeaderBrobRejected, HeaderOf, Emitting
<1>2. cursor \in DOMAIN file.box /\ box = file.box[cursor]
  BY <1>1, HeaderFacts
<1>3. /\ file' = file /\ cursor \in Nat /\ cursor' \in Nat /\ cursor <= cursor' /\ status = "OK"
  BY EmitFrame
<1>4. accepted \in Seq(DOMAIN file.box) /\ DOMAIN file.box \subseteq Nat
  BY FileTyped DEF Inv, TypeOK
<1>5. CASE HeaderAux(box) \/ HeaderBrob(box)
  <2>1. /\ accepted' = accepted /\ jxlp_index_state' = jxlp_index_state
        /\ box.ty # "jxlp" /\ state' = "IN_AUX_BOX"
    BY <1>5, AuxAssumption DEF HeaderAux, HeaderBrob, hist, jxlpvars
  <2>. QED BY <1>1, <1>2, <2>1, SeenKept
<1>6. CASE HeaderCodestreamRejected(box) \/ HeaderBrobRejected(box)
  <2>1. accepted' = accepted /\ jxlp_index_state' = jxlp_index_state /\ status' # "OK"
    BY <1>6 DEF HeaderCodestreamRejected, HeaderBrobRejected, Reject, hist, jxlpvars
  <2>. QED BY <1>1, <2>1, SeenKept
<1>7. CASE HeaderJxlp(box)
  <2>1. accepted' = accepted /\ jxlp_index_state' = "INDEXED"
        /\ state' = "WAITING_JXLP_INDEX" /\ pending_header' = cursor
    BY <1>7 DEF HeaderJxlp, hist
  <2>2. \A i \in 1 .. Len(accepted) : accepted[i] < cursor'
    BY <1>3, <1>4 DEF SeenInv
  <2>3. ASSUME NEW q \in DOMAIN file.box, file.box[q].ty = "jxlp", q < cursor', q # cursor
        PROVE  \E i \in 1 .. Len(accepted) : accepted[i] = q
    <3>1. q < cursor
      BY <1>3, <1>4, <2>3, PassesItsHeader
    <3>. QED BY <1>1, <1>3, <2>3, <3>1 DEF SeenInv
  <2>4. \A i \in 1 .. Len(accepted) : accepted[i] < pending_header'
    BY <2>1 DEF SeenInv
  <2>. QED BY <1>3, <2>1, <2>2, <2>3, <2>4 DEF SeenInv
<1>8. CASE HeaderJxlc(box)
  <2>1. /\ accepted' = Append(accepted, cursor) /\ jxlp_index_state' = "SINGLE_JXLC"
        /\ box.ty = "jxlc" /\ state' = "IN_CODESTREAM"
    BY <1>8 DEF HeaderJxlc, EnterCodestream
  <2>2. /\ Len(accepted') = Len(accepted) + 1 /\ accepted'[Len(accepted')] = cursor
        /\ \A i \in 1 .. Len(accepted) : accepted'[i] = accepted[i]
        /\ Len(accepted) \in Nat
    BY <1>2, <1>4, <2>1
  <2>3. cursor < cursor'
    BY <1>1, <1>3, HeaderFacts
  <2>4. \A i \in 1 .. Len(accepted') : accepted'[i] < cursor'
    <3>1. SUFFICES ASSUME NEW i \in 1 .. Len(accepted') PROVE accepted'[i] < cursor'
      OBVIOUS
    <3>2. CASE i = Len(accepted')
      BY <2>2, <2>3, <3>2
    <3>3. CASE i # Len(accepted')
      <4>1. i \in 1 .. Len(accepted)
        BY <2>2, <3>3
      <4>2. accepted[i] < cursor /\ accepted[i] \in Nat
        BY <1>4, <4>1 DEF SeenInv
      <4>. QED BY <1>3, <2>2, <4>1, <4>2
    <3>. QED BY <3>2, <3>3
  <2>5. ASSUME NEW q \in DOMAIN file.box, file.box[q].ty = "jxlp", q < cursor'
        PROVE  \E i \in 1 .. Len(accepted') : accepted'[i] = q
    <3>1. q < cursor
      BY <1>2, <1>3, <1>4, <2>1, <2>5, PassesItsHeader
    <3>2. PICK i \in 1 .. Len(accepted) : accepted[i] = q
      BY <1>1, <1>3, <2>5, <3>1 DEF SeenInv
    <3>. QED BY <2>2, <3>2
  <2>. QED BY <1>3, <2>1, <2>4, <2>5 DEF SeenInv
<1>. QED BY <1>5, <1>6, <1>7, <1>8

LEMMA SeenIndexStep ==
  ASSUME Inv, SeenInv, Emit, NEW box, JxlpIndex(box)
  PROVE  SeenInv'
<1>1. /\ state = "WAITING_JXLP_INDEX" /\ cursor' = cursor + 4
      /\ accepted' = Append(accepted, pending_header)
      /\ box = file.box[pending_header]
      /\ jxlp_index_state = "INDEXED" /\ jxlp_index_state' = AfterBox(box)
  BY DEF JxlpIndex, JxlpIndexOf, Emitting
<1>2. /\ file' = file /\ cursor \in Nat /\ cursor' \in Nat /\ status = "OK" /\ PlaceInv
  BY EmitFrame
<1>3. accepted \in Seq(DOMAIN file.box) /\ DOMAIN file.box \subseteq Nat
  BY FileTyped DEF Inv, TypeOK
<1>4. pending_header \in DOMAIN file.box /\ pending_header <= cursor
  <2>1. pending_header \in DOMAIN file.box /\ cursor = pending_header + Pending.hdr
    BY <1>1, <1>2 DEF PlaceInv, JxlpInv
  <2>2. Pending.hdr \in {8, 16}
    BY <2>1, BoxTyped DEF Inv, Pending
  <2>. QED BY <1>2, <1>3, <2>1, <2>2
<1>5. /\ Len(accepted') = Len(accepted) + 1 /\ accepted'[Len(accepted')] = pending_header
      /\ \A i \in 1 .. Len(accepted) : accepted'[i] = accepted[i]
      /\ Len(accepted) \in Nat
  BY <1>1, <1>3, <1>4
<1>6. \A i \in 1 .. Len(accepted') : accepted'[i] < cursor'
  <2>1. SUFFICES ASSUME NEW i \in 1 .. Len(accepted') PROVE accepted'[i] < cursor'
    OBVIOUS
  <2>2. CASE i = Len(accepted')
    BY <1>1, <1>2, <1>3, <1>4, <1>5, <2>2
  <2>3. CASE i # Len(accepted')
    <3>1. i \in 1 .. Len(accepted)
      BY <1>5, <2>3
    <3>2. accepted[i] < cursor /\ accepted[i] \in Nat
      BY <1>3, <3>1 DEF SeenInv
    <3>. QED BY <1>1, <1>2, <1>5, <3>1, <3>2
  <2>. QED BY <2>2, <2>3
<1>7. ASSUME NEW q \in DOMAIN file.box, file.box[q].ty = "jxlp", q < cursor'
      PROVE  \E i \in 1 .. Len(accepted') : accepted'[i] = q
  <2>1. q < cursor
    BY <1>1, <1>2, <1>3, <1>7, PassesItsHeader
  <2>2. CASE q = pending_header
    BY <1>5, <2>2
  <2>3. CASE q # pending_header
    <3>1. PICK i \in 1 .. Len(accepted) : accepted[i] = q
      BY <1>2, <1>7, <2>1, <2>3 DEF SeenInv
    <3>. QED BY <1>5, <3>1
  <2>. QED BY <2>2, <2>3
<1>8. jxlp_index_state' = "FINISHED" => accepted' # <<>> /\ file'.box[Current'].last
  BY <1>1, <1>2, <1>5 DEF AfterBox, Current
<1>9. state' = "IN_CODESTREAM"
  BY DEF JxlpIndex, EnterCodestream
<1>. QED BY <1>2, <1>6, <1>7, <1>8, <1>9 DEF SeenInv

LEMMA SeenStep == Inv /\ SeenInv /\ [Next]_vars => SeenInv'
<1> SUFFICES ASSUME Inv, SeenInv, [Next]_vars PROVE SeenInv'
  OBVIOUS
<1>1. CASE (\E n \in 1 .. file.len : Feed(n)) \/ Return \/ UNCHANGED vars
  BY <1>1 DEF Feed, Return, vars, boxvars, jxlpvars, hist, SeenInv, Current
<1>2. CASE Emit
  <2>1. CASE EmitHeader
    BY <1>2, <2>1, SeenHeaderStep DEF EmitHeader
  <2>2. CASE EmitJxlpIndex
    <3>1. PICK box : JxlpIndex(box) \/ JxlpIndexRejected(box)
      BY <2>2 DEF EmitJxlpIndex
    <3>2. CASE JxlpIndex(box)
      BY <1>2, <3>2, SeenIndexStep
    <3>3. CASE JxlpIndexRejected(box)
      BY <1>2, <3>3, SeenKept DEF JxlpIndexRejected, JxlpIndexOf, Emitting, Reject, jxlpvars, hist
    <3>. QED BY <3>1, <3>2, <3>3
  <2>3. CASE DetectBareOrInvalid \/ DetectContainer
    BY <1>2, <2>3, SeenKept DEF DetectBareOrInvalid, DetectContainer, Emitting, jxlpvars, hist
  <2>4. CASE NoMoreAuxBox \/ Codestream
    BY <1>2, <2>4, SeenKept DEF NoMoreAuxBox, Codestream, Emitting, jxlpvars, hist
  <2>5. CASE BrobInnerType \/ BrobInnerRejected
    BY <1>2, <2>5, SeenKept DEF BrobInnerType, BrobInnerRejected, InnerTypeRead, Emitting, jxlpvars, hist
  <2>6. CASE AuxEnd \/ AuxDataSized \/ AuxDataUnsized
    BY <1>2, <2>6, SeenKept DEF AuxEnd, AuxDataSized, AuxDataUnsized, Emitting, jxlpvars, hist
  <2>. QED BY <1>2, <2>1, <2>2, <2>3, <2>4, <2>5, <2>6 DEF Emit
<1>. QED BY <1>1, <1>2 DEF Next

LEMMA SoundBox ==
  ASSUME Sound(file), NEW p \in DOMAIN file.box
  PROVE  /\ ~file.box[p].bad
         /\ file.box[p].ty = "jxlc" =>
              \A q \in DOMAIN file.box \ {p} : file.box[q].ty \notin {"jxlc", "jxlp"}
         /\ file.box[p].ty = "jxlp" =>
              /\ file.box[p].sized => file.box[p].size >= 4
              /\ \A q \in DOMAIN file.box :
                   file.box[q].ty = "jxlp" /\ q < p =>
                     file.box[q].idx < file.box[p].idx /\ ~file.box[q].last
              /\ \A i \in 0 .. file.box[p].idx - 1 :
                   \E q \in DOMAIN file.box :
                     file.box[q].ty = "jxlp" /\ q < p /\ file.box[q].idx = i
         /\ file.box[p].ty = "brob" =>
              file.box[p].size >= 4 /\ file.box[p].inner \notin ReservedInner
         /\ file.box[p].ty \notin {"jxlc", "jxlp"} => file.box[p].sized
BY DEF Sound, IsJxlp

LEMMA SoundCodestreamHeader ==
  ASSUME Inv, SeenInv, Sound(file), NEW box, HeaderOf(box)
  PROVE  /\ box.ty = "jxlc" => jxlp_index_state = "INITIAL"
         /\ box.ty = "jxlp" => ~(box.sized /\ box.size < 4)
         /\ box.ty = "jxlp" => jxlp_index_state \in {"INITIAL", "INDEXED"}
         /\ box.ty = "brob" => box.size > 3
<1>1. cursor \in DOMAIN file.box /\ box = file.box[cursor] /\ state = "WAITING_BOX_HEADER"
      /\ box.size \in Nat
  BY HeaderFacts
<1>2. /\ accepted \in Seq(DOMAIN file.box) /\ jxlp_expected_index \in Nat
      /\ jxlp_index_state \in {"INITIAL", "SINGLE_JXLC", "INDEXED", "FINISHED"}
      /\ cursor \in Nat /\ DOMAIN file.box \subseteq Nat
  BY <1>1, FileTyped DEF Inv, TypeOK
<1>3. ASSUME jxlp_index_state # "INITIAL"
      PROVE  /\ accepted[1] \in DOMAIN file.box /\ accepted[1] < cursor
             /\ file.box[accepted[1]].ty \in {"jxlc", "jxlp"}
             /\ jxlp_index_state = "SINGLE_JXLC" => file.box[accepted[1]].ty = "jxlc"
  <2>1. Len(accepted) \in Nat /\ Len(accepted) >= 1
    <3>1. jxlp_index_state = "INDEXED" => Len(accepted) = jxlp_expected_index + 1
      BY <1>1 DEF Inv, OrderInv, NextIndex
    <3>2. jxlp_index_state = "FINISHED" => accepted # <<>>
      BY DEF SeenInv
    <3>3. jxlp_index_state = "SINGLE_JXLC" => Len(accepted) = 1
      BY DEF Inv, OrderInv
    <3>. QED BY <1>2, <1>3, <3>1, <3>2, <3>3
  <2>2. 1 \in 1 .. Len(accepted)
    BY <2>1
  <2>3. accepted[1] \in DOMAIN file.box /\ accepted[1] < cursor
    BY <1>2, <2>2 DEF SeenInv
  <2>4. CASE jxlp_index_state = "SINGLE_JXLC"
    BY <2>3, <2>4 DEF Inv, OrderInv
  <2>5. CASE jxlp_index_state \in {"INDEXED", "FINISHED"}
    BY <2>2, <2>3, <2>5 DEF Inv, OrderInv
  <2>. QED BY <1>2, <1>3, <2>4, <2>5
<1>4. box.ty = "jxlc" => jxlp_index_state = "INITIAL"
  <2>1. SUFFICES ASSUME box.ty = "jxlc", jxlp_index_state # "INITIAL" PROVE FALSE
    OBVIOUS
  <2>2. accepted[1] \in DOMAIN file.box \ {cursor}
    BY <1>2, <1>3, <2>1
  <2>. QED BY <1>1, <1>3, <2>1, <2>2, SoundBox
<1>5. box.ty = "jxlp" => jxlp_index_state # "SINGLE_JXLC"
  <2>1. SUFFICES ASSUME box.ty = "jxlp", jxlp_index_state = "SINGLE_JXLC" PROVE FALSE
    OBVIOUS
  <2>2. /\ accepted[1] \in DOMAIN file.box /\ file.box[accepted[1]].ty = "jxlc"
        /\ cursor \in DOMAIN file.box \ {accepted[1]}
    BY <1>1, <1>2, <1>3, <2>1
  <2>. QED BY <1>1, <2>1, <2>2, SoundBox
<1>6. box.ty = "jxlp" => jxlp_index_state # "FINISHED"
  <2>1. SUFFICES ASSUME box.ty = "jxlp", jxlp_index_state = "FINISHED" PROVE FALSE
    OBVIOUS
  <2>2. /\ accepted # <<>> /\ file.box[Current].last
        /\ \A i \in 1 .. Len(accepted) : file.box[accepted[i]].ty = "jxlp"
    BY <2>1 DEF Inv, OrderInv, SeenInv
  <2>3. Len(accepted) \in 1 .. Len(accepted)
    BY <1>2, <2>2
  <2>4. Current \in DOMAIN file.box /\ Current < cursor /\ file.box[Current].ty = "jxlp"
    BY <1>2, <2>2, <2>3 DEF Current, SeenInv
  <2>. QED BY <1>1, <2>1, <2>2, <2>4, SoundBox
<1>7. (box.ty = "brob" => box.size > 3) /\ (box.ty = "jxlp" => ~(box.sized /\ box.size < 4))
  BY <1>1, SoundBox
<1>. QED BY <1>2, <1>4, <1>5, <1>6, <1>7

LEMMA SoundIndex ==
  ASSUME Inv, SeenInv, Sound(file), state = "WAITING_JXLP_INDEX", status = "OK"
  PROVE  jxlp_index_state = "INDEXED" /\ jxlp_expected_index = file.box[pending_header].idx
<1>1. /\ pending_header \in DOMAIN file.box /\ Pending.ty = "jxlp"
      /\ cursor = pending_header + Pending.hdr /\ jxlp_index_state = "INDEXED"
  BY DEF Inv, PlaceInv, JxlpInv
<1>. DEFINE idx == file.box[pending_header].idx
<1>2. /\ accepted \in Seq(DOMAIN file.box) /\ jxlp_expected_index \in Nat
      /\ DOMAIN file.box \subseteq Nat /\ idx \in Nat /\ Pending.hdr \in {8, 16}
  BY <1>1, FileTyped, BoxTyped DEF Inv, TypeOK, Pending
<1>3. /\ Len(accepted) = jxlp_expected_index
      /\ \A i \in 1 .. Len(accepted) :
           file.box[accepted[i]].ty = "jxlp" /\ file.box[accepted[i]].idx = i - 1
  BY <1>1 DEF Inv, OrderInv, NextIndex
<1>4. ~(jxlp_expected_index < idx)
  <2>1. SUFFICES ASSUME jxlp_expected_index < idx PROVE FALSE
    OBVIOUS
  <2>2. jxlp_expected_index \in 0 .. idx - 1
    BY <1>2, <2>1
  <2>3. PICK q \in DOMAIN file.box :
          file.box[q].ty = "jxlp" /\ q < pending_header /\ file.box[q].idx = jxlp_expected_index
    BY <1>1, <2>2, SoundBox DEF Pending
  <2>4. q < cursor /\ q # pending_header
    BY <1>1, <1>2, <2>3
  <2>5. PICK i \in 1 .. Len(accepted) : accepted[i] = q
    BY <2>3, <2>4 DEF SeenInv
  <2>. QED BY <1>2, <1>3, <2>3, <2>5
<1>5. ~(idx < jxlp_expected_index)
  <2>1. SUFFICES ASSUME idx < jxlp_expected_index PROVE FALSE
    OBVIOUS
  <2>. DEFINE q == accepted[idx + 1]
  <2>2. idx + 1 \in 1 .. Len(accepted)
    BY <1>2, <1>3, <2>1
  <2>3. q \in DOMAIN file.box /\ file.box[q].ty = "jxlp" /\ file.box[q].idx = idx /\ q < cursor
    <3>1. q \in DOMAIN file.box /\ q < cursor
      BY <1>2, <2>2 DEF SeenInv
    <3>2. file.box[q].ty = "jxlp" /\ file.box[q].idx = (idx + 1) - 1
      BY <1>3, <2>2
    <3>. QED BY <1>2, <3>1, <3>2
  <2>4. q < pending_header
    BY <2>2 DEF SeenInv
  <2>. QED BY <1>1, <1>2, <2>3, <2>4, SoundBox DEF Pending
<1>. QED BY <1>1, <1>2, <1>4, <1>5

LEMMA SoundStep ==
  Inv /\ SeenInv /\ Sound(file) /\ status = "OK" /\ [Next]_vars => status' = "OK"
<1> SUFFICES ASSUME Inv, SeenInv, Sound(file), status = "OK", [Next]_vars PROVE status' = "OK"
  OBVIOUS
<1>1. CASE (\E n \in 1 .. file.len : Feed(n)) \/ Return \/ UNCHANGED vars
  BY <1>1 DEF Feed, Return, vars
<1>2. CASE EmitHeader
  <2>1. PICK box : \/ HeaderJxlc(box) \/ HeaderJxlp(box) \/ HeaderAux(box) \/ HeaderBrob(box)
                   \/ HeaderCodestreamRejected(box) \/ HeaderBrobRejected(box)
    BY <1>2 DEF EmitHeader
  <2>2. CASE HeaderCodestreamRejected(box)
    <3>1. HeaderOf(box)
      BY <2>2 DEF HeaderCodestreamRejected
    <3>. QED BY <2>2, <3>1, SoundCodestreamHeader DEF HeaderCodestreamRejected
  <2>3. CASE HeaderBrobRejected(box)
    <3>1. HeaderOf(box) /\ box.ty = "brob" /\ box.size <= 3
      BY <2>3 DEF HeaderBrobRejected
    <3>2. box.size > 3 /\ box.size \in Nat
      BY <3>1, SoundCodestreamHeader, HeaderFacts
    <3>. QED BY <3>1, <3>2
  <2>. QED BY <2>1, <2>2, <2>3 DEF HeaderJxlc, HeaderJxlp, HeaderAux, HeaderBrob
<1>3. CASE EmitJxlpIndex
  BY <1>3, SoundIndex DEF EmitJxlpIndex, JxlpIndex, JxlpIndexRejected, JxlpIndexOf, Emitting
<1>4. CASE BrobInnerType \/ BrobInnerRejected
  <2>1. state = "IN_AUX_BOX" /\ AwaitsInnerType
    BY <1>4 DEF BrobInnerType, BrobInnerRejected, InnerTypeRead, Emitting
  <2>2. pending_header \in DOMAIN file.box /\ Pending.ty = "brob"
    BY <2>1 DEF Inv, PlaceInv, AuxInv, AwaitsInnerType
  <2>3. Pending.inner \notin ReservedInner
    BY <2>2, SoundBox DEF Pending
  <2>. QED BY <1>4, <2>3 DEF BrobInnerType, BrobInnerRejected
<1>5. CASE DetectBareOrInvalid \/ DetectContainer \/ NoMoreAuxBox \/ Codestream \/ AuxEnd
           \/ AuxDataSized \/ AuxDataUnsized
  BY <1>5 DEF DetectBareOrInvalid, DetectContainer, NoMoreAuxBox, Codestream, AuxEnd,
              AuxDataSized, AuxDataUnsized
<1>. QED BY <1>1, <1>2, <1>3, <1>4, <1>5 DEF Next, Emit

SoundInv == SeenInv /\ (Sound(file) => status = "OK")

LEMMA SoundInvInit == Init => SoundInv
<1> SUFFICES ASSUME Init PROVE SoundInv
  OBVIOUS
<1>1. \A q \in DOMAIN file.box : ~(q < cursor)
  BY InvInit, FileTyped DEF Inv, Init
<1>2. Len(accepted) = 0 /\ status = "OK" /\ state # "WAITING_JXLP_INDEX"
      /\ jxlp_index_state = "INITIAL"
  BY DEF Init
<1>. QED BY <1>1, <1>2 DEF SoundInv, SeenInv

LEMMA FileFixed == [Next]_vars => file' = file
<1>1. Emit => file' = file
  BY DEF Emit, EmitHeader, HeaderJxlc, HeaderJxlp, HeaderAux, HeaderBrob,
         HeaderCodestreamRejected, HeaderBrobRejected, EmitJxlpIndex, JxlpIndex,
         JxlpIndexRejected, BrobInnerType, BrobInnerRejected, Reject, DetectBareOrInvalid,
         DetectContainer, NoMoreAuxBox, Codestream, AuxEnd, AuxDataSized, AuxDataUnsized, input
<1>. QED BY <1>1 DEF Next, Feed, Return, vars

LEMMA SoundInvStep == Inv /\ SoundInv /\ [Next]_vars => SoundInv'
BY SeenStep, SoundStep, FileFixed DEF SoundInv

\* Nothing sound is refused by the parser, however it is cut: the rejections of
\* jxl_container_parser_emit are all for a defect of the file.
THEOREM SoundNeverRefused == Spec => [](Sound(file) => status = "OK")
<1>1. SoundInv => (Sound(file) => status = "OK")
  BY DEF SoundInv
<1>2. Spec => []SoundInv
  BY AlwaysInv, SoundInvInit, SoundInvStep, PTL DEF Spec
<1>. QED BY <1>1, <1>2, PTL
=============================================================================
