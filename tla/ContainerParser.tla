--------------------------- MODULE ContainerParser ---------------------------
(***************************************************************************)
(* The incremental parser of JPEG XL files (bitstream/container/parser.c): *)
(* it recognises the signature, walks the boxes of a container and hands   *)
(* out parse events, whatever way the caller cuts the file into chunks.    *)
(*                                                                         *)
(* Bytes are positions of the file.  What the parser can read at a box     *)
(* start is the record the file has there.  A call of                      *)
(* jxl_container_parser_feed is Feed(n), the steps of                      *)
(* jxl_container_parser_emit that it makes, one action for each of its     *)
(* cases, and Return once emit can do nothing with the bytes that remain.  *)
(* The next Feed presents the bytes left over and n new ones, as           *)
(* jxl_container_parser_previous_consumed_bytes lets the caller do.        *)
(*                                                                         *)
(* A definition in front of another, with its name and a suffix, is a      *)
(* mutation of it: the code with a plausible mistake.  Nothing uses it but *)
(* the runs that show that a property would notice that mistake.           *)
(***************************************************************************)
EXTENDS Integers, Sequences

CONSTANTS
  Files,        \* the files a caller may feed
  AuxTypes      \* types of the boxes that are neither codestream nor brob

CodestreamSigLen == 2
ContainerSigLen == 12
ReservedInner == {"jxlc", "jxlp", "jxll", "brob", "jbrd"}
Signatures == {"container", "bare", "other"}
BoxTypes == {"jxlc", "jxlp", "brob"} \cup AuxTypes
InnerTypes == AuxTypes \cup ReservedInner

(* A box: its type, its header length, whether its header gives a payload  *)
(* size (and which), whether that size is smaller than the header (bad),   *)
(* its jxlp index and last flag, the type a brob box wraps, the length of  *)
(* the brotli stream in its payload and how much of it, from its start, is *)
(* as the library wants it (the reader's concern).                         *)
Box == [ty : BoxTypes, hdr : {8, 16}, sized : BOOLEAN, size : Nat,
        bad : BOOLEAN, idx : Nat, last : BOOLEAN, inner : InnerTypes, stream : Nat,
        intact : Nat]

(* A file: its signature, how many leading bytes agree with one of the two *)
(* signatures, its length, and its boxes by the position of their header.  *)
File(f) ==
  /\ f.sig \in Signatures
  /\ f.agree \in Nat
  /\ f.len \in Nat
  /\ DOMAIN f.box \subseteq Nat
  /\ \A p \in DOMAIN f.box : f.box[p] \in Box
  /\ IF f.sig = "container"
     THEN /\ ContainerSigLen < f.len => ContainerSigLen \in DOMAIN f.box
          /\ \A p \in DOMAIN f.box : ContainerSigLen <= p
     ELSE DOMAIN f.box = {}
  /\ \A p \in DOMAIN f.box :
        LET end == p + f.box[p].hdr + f.box[p].size
        IN  /\ (f.box[p].sized /\ end < f.len) => end \in DOMAIN f.box
            /\ \A q \in DOMAIN f.box : p < q => (f.box[p].sized /\ end <= q)

ASSUME FilesAssumption == \A f \in Files : File(f)
ASSUME AuxAssumption == AuxTypes \cap {"jxlc", "jxlp", "brob"} = {}

VARIABLES
  file,                     \* the file being fed (never changes)
  fed,                      \* how much of it the caller has presented
  cursor,                   \* how much of it the parser has consumed
  call,                     \* "idle", "feeding", or "wrapped": see AuxDataUnsized
  status,                   \* what the last call returned
  state, jxlp_index_state, jxlp_expected_index, pending_header,
  has_brotli_inner_type, bytes_left, has_bytes_left, codestream_kind,
  pending_no_more_aux_box,
  event,                    \* the event the last step of emit produced
  accepted,                 \* history: the codestream boxes entered, in order
  no_more                   \* history: NO_MORE_AUX_BOX was emitted

input == <<file, fed, call>>
boxvars == <<pending_header, has_brotli_inner_type>>
jxlpvars == <<jxlp_index_state, jxlp_expected_index>>
leftvars == <<bytes_left, has_bytes_left>>
hist == <<accepted, no_more>>
vars == <<file, fed, cursor, call, status, state, jxlp_index_state,
          jxlp_expected_index, pending_header, has_brotli_inner_type,
          bytes_left, has_bytes_left, codestream_kind,
          pending_no_more_aux_box, event, accepted, no_more>>

NoEvent == [type |-> "none"]
KindEvent(k) == [type |-> "kind", kind |-> k]
NoMoreEvent == [type |-> "no_more_aux_box"]
CodestreamEvent(a, b) == [type |-> "codestream", from |-> a, to |-> b]
StartEvent(t, brotli, last) ==
  [type |-> "aux_start", ty |-> t, brotli |-> brotli, last |-> last]
DataEvent(t, a, b) == [type |-> "aux_data", ty |-> t, from |-> a, to |-> b]
EndEvent(t) == [type |-> "aux_end", ty |-> t]

Remaining == fed - cursor
Least(a, b) == IF a < b THEN a ELSE b

\* jxl_container_parser_kind
Kind == CASE state = "WAITING_SIGNATURE" -> "unknown"
          [] state = "IN_CODESTREAM" -> codestream_kind
          [] OTHER -> "container"

Init ==
  /\ file \in Files
  /\ fed = 0 /\ cursor = 0 /\ call = "idle" /\ status = "OK"
  /\ state = "WAITING_SIGNATURE"
  /\ jxlp_index_state = "INITIAL" /\ jxlp_expected_index = 0
  /\ pending_header = 0 /\ has_brotli_inner_type = FALSE
  /\ bytes_left = 0 /\ has_bytes_left = FALSE
  /\ codestream_kind = "unknown" /\ pending_no_more_aux_box = FALSE
  /\ event = NoEvent
  /\ accepted = <<>> /\ no_more = FALSE

-----------------------------------------------------------------------------
(* The signature *)

StartsWith(sig, len) == file.sig = sig /\ Remaining >= len

\* Neither signature can match any longer: an "other" file shows it one byte
\* after its agreeing prefix.
CannotMatch == file.sig = "other" /\ Remaining > file.agree

Emitting(s) == call = "feeding" /\ state = s /\ cursor < fed

DetectBareOrInvalid ==
  /\ Emitting("WAITING_SIGNATURE")
  /\ \/ StartsWith("bare", CodestreamSigLen) /\ codestream_kind' = "bare"
     \/ CannotMatch /\ codestream_kind' = "invalid"
  /\ state' = "IN_CODESTREAM"
  /\ has_bytes_left' = FALSE
  /\ pending_no_more_aux_box' = TRUE
  /\ event' = KindEvent(codestream_kind')
  /\ UNCHANGED <<input, cursor, status, boxvars, jxlpvars, bytes_left, hist>>

DetectContainer ==
  /\ Emitting("WAITING_SIGNATURE")
  /\ StartsWith("container", ContainerSigLen)
  /\ cursor' = cursor + ContainerSigLen
  /\ state' = "WAITING_BOX_HEADER"
  /\ event' = KindEvent("container")
  /\ UNCHANGED <<input, status, boxvars, jxlpvars, leftvars, codestream_kind,
                 pending_no_more_aux_box, hist>>

-----------------------------------------------------------------------------
(* Box headers *)

\* jxl_box_header_parse, as its caller sees it: the header's length, or 0
\* while it is incomplete.  A size smaller than the header also gives 0 (the
\* parser tests the length before the status), and so do the first 8 to 15
\* bytes of a 16 byte header.
HeaderSizeStrict(box) == IF box.bad \/ Remaining <= box.hdr THEN 0 ELSE box.hdr
HeaderSize(box) == IF box.bad \/ Remaining < box.hdr THEN 0 ELSE box.hdr

HeaderOf(box) ==
  /\ Emitting("WAITING_BOX_HEADER")
  /\ cursor \in DOMAIN file.box
  /\ box = file.box[cursor]
  /\ HeaderSize(box) > 0
  /\ cursor' = cursor + HeaderSize(box)

TakeSizeWithHeader(box) ==
  /\ has_bytes_left' = box.sized
  /\ bytes_left' = IF box.sized THEN box.hdr + box.size ELSE bytes_left

TakeSize(box) ==
  /\ has_bytes_left' = box.sized
  /\ bytes_left' = IF box.sized THEN box.size ELSE bytes_left

Reject(why) ==
  /\ call' = "idle"
  /\ status' = why
  /\ event' = NoEvent
  /\ UNCHANGED <<file, fed>>

EnterCodestreamKeepingKind(box) ==
  /\ state' = "IN_CODESTREAM"
  /\ UNCHANGED codestream_kind
  /\ pending_no_more_aux_box' = ~box.sized

EnterCodestreamAnnouncing(box) ==
  /\ state' = "IN_CODESTREAM"
  /\ codestream_kind' = "container"
  /\ pending_no_more_aux_box' = TRUE

EnterCodestream(box) ==
  /\ state' = "IN_CODESTREAM"
  /\ codestream_kind' = "container"
  /\ pending_no_more_aux_box' = ~box.sized

HeaderJxlc(box) ==
  /\ HeaderOf(box)
  /\ box.ty = "jxlc" /\ jxlp_index_state = "INITIAL"
  /\ jxlp_index_state' = "SINGLE_JXLC"
  /\ TakeSize(box)
  /\ EnterCodestream(box)
  /\ event' = NoEvent
  /\ accepted' = Append(accepted, cursor)
  /\ UNCHANGED <<input, status, boxvars, jxlp_expected_index, no_more>>

HeaderJxlp(box) ==
  /\ HeaderOf(box)
  /\ box.ty = "jxlp" /\ ~(box.sized /\ box.size < 4)
  /\ \/ /\ jxlp_index_state = "INITIAL"
        /\ jxlp_expected_index' = 0
     \/ /\ jxlp_index_state = "INDEXED"
        /\ jxlp_expected_index' = jxlp_expected_index + 1
  /\ jxlp_index_state' = "INDEXED"
  /\ pending_header' = cursor
  /\ state' = "WAITING_JXLP_INDEX"
  /\ event' = NoEvent
  /\ UNCHANGED <<input, status, has_brotli_inner_type, leftvars,
                 codestream_kind, pending_no_more_aux_box, hist>>

HeaderAux(box) ==
  /\ HeaderOf(box)
  /\ box.ty \in AuxTypes
  /\ pending_header' = cursor
  /\ has_brotli_inner_type' = FALSE
  /\ TakeSize(box)
  /\ event' = StartEvent(box.ty, FALSE, ~box.sized)
  /\ state' = "IN_AUX_BOX"
  /\ UNCHANGED <<input, status, jxlpvars, codestream_kind,
                 pending_no_more_aux_box, hist>>

HeaderBrobUnchecked(box) ==
  /\ HeaderOf(box)
  /\ box.ty = "brob"
  /\ pending_header' = cursor
  /\ has_brotli_inner_type' = FALSE
  /\ TakeSize(box)
  /\ event' = NoEvent
  /\ state' = "IN_AUX_BOX"
  /\ UNCHANGED <<input, status, jxlpvars, codestream_kind,
                 pending_no_more_aux_box, hist>>

HeaderBrob(box) ==
  /\ HeaderOf(box)
  /\ box.ty = "brob" /\ ~(box.sized /\ box.size <= 3)
  /\ pending_header' = cursor
  /\ has_brotli_inner_type' = FALSE
  /\ TakeSize(box)
  /\ event' = NoEvent
  /\ state' = "IN_AUX_BOX"
  /\ UNCHANGED <<input, status, jxlpvars, codestream_kind,
                 pending_no_more_aux_box, hist>>

\* A second codestream, a jxlp box without room for its index.
HeaderCodestreamRejected(box) ==
  /\ HeaderOf(box)
  /\ \/ box.ty = "jxlc" /\ jxlp_index_state # "INITIAL"
     \/ box.ty = "jxlp" /\ box.sized /\ box.size < 4
     \/ box.ty = "jxlp" /\ jxlp_index_state \in {"SINGLE_JXLC", "FINISHED"}
  /\ Reject("INVALID_BOX")
  /\ UNCHANGED <<state, boxvars, jxlpvars, leftvars, codestream_kind,
                 pending_no_more_aux_box, hist>>

\* A brob box without room for the type it wraps: the header is recorded
\* before it is refused.
HeaderBrobRejected(box) ==
  /\ HeaderOf(box)
  /\ box.ty = "brob" /\ box.sized /\ box.size <= 3
  /\ pending_header' = cursor
  /\ has_brotli_inner_type' = FALSE
  /\ TakeSize(box)
  /\ Reject("INVALID_BOX")
  /\ UNCHANGED <<state, jxlpvars, codestream_kind, pending_no_more_aux_box, hist>>

-----------------------------------------------------------------------------
(* The index of a partial codestream box *)

JxlpIndexOf(box) ==
  /\ Emitting("WAITING_JXLP_INDEX")
  /\ Remaining >= 4
  /\ box = file.box[pending_header]
  /\ cursor' = cursor + 4

AfterBoxIgnoringLast(box) == jxlp_index_state
AfterBox(box) == IF box.last THEN "FINISHED" ELSE jxlp_index_state

JxlpPayloadWithIndex(box) == box.size
JxlpPayload(box) == box.size - 4

JxlpIndex(box) ==
  /\ JxlpIndexOf(box)
  /\ jxlp_index_state = "INDEXED" /\ jxlp_expected_index = box.idx
  /\ jxlp_index_state' = AfterBox(box)
  /\ has_bytes_left' = box.sized
  /\ bytes_left' = IF box.sized THEN JxlpPayload(box) ELSE bytes_left
  /\ EnterCodestream(box)
  /\ event' = NoEvent
  /\ accepted' = Append(accepted, pending_header)
  /\ UNCHANGED <<input, status, boxvars, jxlp_expected_index, no_more>>

JxlpIndexRejected(box) ==
  /\ JxlpIndexOf(box)
  /\ ~(jxlp_index_state = "INDEXED" /\ jxlp_expected_index = box.idx)
  /\ Reject("INVALID_BOX")
  /\ UNCHANGED <<state, boxvars, jxlpvars, leftvars, codestream_kind,
                 pending_no_more_aux_box, hist>>

-----------------------------------------------------------------------------
(* Codestream bytes *)

NoMoreAuxBox ==
  /\ Emitting("IN_CODESTREAM")
  /\ pending_no_more_aux_box
  /\ pending_no_more_aux_box' = FALSE
  /\ event' = NoMoreEvent
  /\ no_more' = TRUE
  /\ UNCHANGED <<input, cursor, status, state, boxvars, jxlpvars, leftvars,
                 codestream_kind, accepted>>

Codestream ==
  /\ Emitting("IN_CODESTREAM")
  /\ ~pending_no_more_aux_box
  /\ LET n == IF has_bytes_left THEN Least(bytes_left, Remaining) ELSE Remaining
     IN  /\ cursor' = cursor + n
         /\ event' = CodestreamEvent(cursor, cursor + n)
         /\ IF has_bytes_left /\ Remaining >= bytes_left
            THEN state' = "WAITING_BOX_HEADER" /\ UNCHANGED bytes_left
            ELSE /\ bytes_left' = IF has_bytes_left THEN bytes_left - n ELSE bytes_left
                 /\ UNCHANGED state
  /\ UNCHANGED <<input, status, boxvars, jxlpvars, has_bytes_left,
                 codestream_kind, pending_no_more_aux_box, hist>>

-----------------------------------------------------------------------------
(* Auxiliary boxes *)

Pending == file.box[pending_header]
AwaitsInnerType == Pending.ty = "brob" /\ ~has_brotli_inner_type
CurrentType == IF has_brotli_inner_type THEN Pending.inner ELSE Pending.ty

InnerTypeRead ==
  /\ Emitting("IN_AUX_BOX")
  /\ AwaitsInnerType /\ Remaining >= 4
  /\ cursor' = cursor + 4
  /\ bytes_left' = IF has_bytes_left THEN bytes_left - 4 ELSE bytes_left
  /\ UNCHANGED <<has_bytes_left, pending_header, state, jxlpvars,
                 codestream_kind, pending_no_more_aux_box, hist>>

BrobInnerType ==
  /\ InnerTypeRead
  /\ Pending.inner \notin ReservedInner
  /\ has_brotli_inner_type' = TRUE
  /\ event' = StartEvent(Pending.inner, TRUE, ~Pending.sized)
  /\ UNCHANGED <<input, status>>

BrobInnerRejected ==
  /\ InnerTypeRead
  /\ Pending.inner \in ReservedInner
  /\ Reject("VALIDATION_FAILED")
  /\ UNCHANGED has_brotli_inner_type

\* The end of a box is noticed when a byte of what follows it arrives.
AuxEnd ==
  /\ Emitting("IN_AUX_BOX")
  /\ ~AwaitsInnerType
  /\ has_bytes_left /\ bytes_left = 0
  /\ state' = "WAITING_BOX_HEADER"
  /\ has_brotli_inner_type' = FALSE
  /\ event' = EndEvent(CurrentType)
  /\ UNCHANGED <<input, cursor, status, pending_header, jxlpvars, leftvars,
                 codestream_kind, pending_no_more_aux_box, hist>>

AuxDataSized ==
  /\ Emitting("IN_AUX_BOX")
  /\ ~AwaitsInnerType
  /\ has_bytes_left /\ bytes_left > 0
  /\ LET n == Least(bytes_left, Remaining)
     IN  /\ cursor' = cursor + n
         /\ bytes_left' = bytes_left - n
         /\ event' = DataEvent(CurrentType, cursor, cursor + n)
  /\ UNCHANGED <<input, status, state, boxvars, jxlpvars, has_bytes_left,
                 codestream_kind, pending_no_more_aux_box, hist>>

\* Without a size the code sets the remaining length to 0 and then subtracts
\* what it took once more: the unsigned length wraps, emit goes on with a
\* length that no buffer has, and what it does from there is undefined.
AuxDataUnsized ==
  /\ Emitting("IN_AUX_BOX")
  /\ ~AwaitsInnerType
  /\ ~has_bytes_left
  /\ cursor' = fed
  /\ event' = DataEvent(CurrentType, cursor, fed)
  /\ call' = "wrapped"
  /\ UNCHANGED <<file, fed, status, state, boxvars, jxlpvars, leftvars,
                 codestream_kind, pending_no_more_aux_box, hist>>

-----------------------------------------------------------------------------
(* The call *)

Feed(n) ==
  /\ call = "idle" /\ status = "OK"
  /\ fed + n <= file.len
  /\ fed' = fed + n
  /\ call' = "feeding"
  /\ event' = NoEvent
  /\ UNCHANGED <<file, cursor, status, state, boxvars, jxlpvars, leftvars,
                 codestream_kind, pending_no_more_aux_box, hist>>

\* emit needs more bytes than it has.
Starved ==
  \/ cursor = fed
  \/ /\ state = "WAITING_SIGNATURE"
     /\ ~StartsWith("bare", CodestreamSigLen)
     /\ ~StartsWith("container", ContainerSigLen)
     /\ ~CannotMatch
  \/ /\ state = "WAITING_BOX_HEADER"
     /\ cursor \in DOMAIN file.box
     /\ HeaderSize(file.box[cursor]) = 0
  \/ state = "WAITING_JXLP_INDEX" /\ Remaining < 4
  \/ state = "IN_AUX_BOX" /\ AwaitsInnerType /\ Remaining < 4

Return ==
  /\ call = "feeding"
  /\ Starved
  /\ call' = "idle"
  /\ event' = NoEvent
  /\ UNCHANGED <<file, fed, cursor, status, state, boxvars, jxlpvars, leftvars,
                 codestream_kind, pending_no_more_aux_box, hist>>

EmitHeader ==
  \E box \in {file.box[p] : p \in DOMAIN file.box \cap {cursor}} :
     \/ HeaderJxlc(box) \/ HeaderJxlp(box) \/ HeaderAux(box) \/ HeaderBrob(box)
     \/ HeaderCodestreamRejected(box) \/ HeaderBrobRejected(box)

EmitJxlpIndex ==
  \E box \in {file.box[p] : p \in DOMAIN file.box \cap {pending_header}} :
     JxlpIndex(box) \/ JxlpIndexRejected(box)

Emit ==
  \/ DetectBareOrInvalid \/ DetectContainer
  \/ EmitHeader \/ EmitJxlpIndex
  \/ NoMoreAuxBox \/ Codestream
  \/ BrobInnerType \/ BrobInnerRejected
  \/ AuxEnd \/ AuxDataSized \/ AuxDataUnsized

Next == (\E n \in 1 .. file.len : Feed(n)) \/ Emit \/ Return

Spec == Init /\ [][Next]_vars

\* The caller presents the rest of the file and the parser, which runs on the
\* caller's thread, is never left in the middle of a call.
FairSpec == Spec /\ WF_vars(Next)

-----------------------------------------------------------------------------
(* Properties *)

PayloadStart(p) ==
  p + file.box[p].hdr + (IF file.box[p].ty \in {"jxlp", "brob"} THEN 4 ELSE 0)
PayloadEnd(p) ==
  IF file.box[p].sized THEN p + file.box[p].hdr + file.box[p].size ELSE file.len

Events ==
  {NoEvent, NoMoreEvent}
  \cup {KindEvent(k) : k \in {"bare", "invalid", "container"}}
  \cup [type : {"codestream"}, from : Nat, to : Nat]
  \cup [type : {"aux_start"}, ty : AuxTypes, brotli : BOOLEAN, last : BOOLEAN]
  \cup [type : {"aux_data"}, ty : AuxTypes, from : Nat, to : Nat]
  \cup [type : {"aux_end"}, ty : AuxTypes]

TypeOK ==
  /\ file \in Files
  /\ fed \in 0 .. file.len
  /\ cursor \in 0 .. fed
  /\ call \in {"idle", "feeding", "wrapped"}
  /\ status \in {"OK", "INVALID_BOX", "VALIDATION_FAILED"}
  /\ state \in {"WAITING_SIGNATURE", "WAITING_BOX_HEADER",
                "WAITING_JXLP_INDEX", "IN_CODESTREAM", "IN_AUX_BOX"}
  /\ jxlp_index_state \in {"INITIAL", "SINGLE_JXLC", "INDEXED", "FINISHED"}
  /\ jxlp_expected_index \in Nat
  /\ pending_header \in {0} \cup DOMAIN file.box
  /\ has_brotli_inner_type \in BOOLEAN
  /\ bytes_left \in Nat
  /\ has_bytes_left \in BOOLEAN
  /\ codestream_kind \in {"unknown", "bare", "invalid", "container"}
  /\ pending_no_more_aux_box \in BOOLEAN
  /\ event \in Events
  /\ accepted \in Seq(DOMAIN file.box)
  /\ no_more \in BOOLEAN

\* However the file is cut into chunks, the parser reads a header, a jxlp index
\* or a wrapped type only where the file has one, and the bytes it still
\* expects of a sized box end where that box ends.
Aligned ==
  status = "OK" =>
    /\ state = "WAITING_BOX_HEADER" /\ cursor < file.len => cursor \in DOMAIN file.box
    /\ state = "WAITING_JXLP_INDEX" =>
         pending_header \in DOMAIN file.box /\ cursor = pending_header + Pending.hdr
    /\ state = "IN_AUX_BOX" =>
         /\ pending_header \in DOMAIN file.box
         /\ AwaitsInnerType => cursor = pending_header + Pending.hdr
         /\ has_bytes_left => cursor + bytes_left = PayloadEnd(pending_header)

\* A data event hands out payload of the box it names and nothing else: no
\* header, index or type byte, and no byte of a neighbouring box.
DataFaithful ==
  /\ event.type = "codestream" =>
       \/ file.sig # "container"
       \/ /\ accepted # <<>>
          /\ LET p == accepted[Len(accepted)]
             IN  /\ file.box[p].ty \in {"jxlc", "jxlp"}
                 /\ PayloadStart(p) <= event.from /\ event.to <= PayloadEnd(p)
  /\ event.type = "aux_data" =>
       /\ pending_header \in DOMAIN file.box
       /\ event.ty = IF Pending.ty = "brob" THEN Pending.inner ELSE Pending.ty
       /\ PayloadStart(pending_header) <= event.from
       /\ event.to <= PayloadEnd(pending_header)

\* The codestream comes from a single jxlc box, or from the jxlp boxes 0, 1, 2
\* ... in that order, none of them after the one marked last: never a mixture,
\* whatever other boxes lie between them.
CodestreamOrdered ==
  \/ /\ Len(accepted) <= 1
     /\ \A i \in 1 .. Len(accepted) : file.box[accepted[i]].ty = "jxlc"
  \/ \A i \in 1 .. Len(accepted) :
       LET box == file.box[accepted[i]]
       IN  /\ box.ty = "jxlp" /\ box.idx = i - 1
           /\ box.last => i = Len(accepted)

\* NO_MORE_AUX_BOX tells the truth: no box begins at or after the position the
\* parser has reached once it was emitted.
NoMoreIsTrue == no_more => \A p \in DOMAIN file.box : p < cursor

\* What jxl_container_parser_kind answers never changes once it is known.
KindStable == [][Kind # "unknown" => Kind' = Kind]_vars

\* A file without defects: nothing in it is refused, wrapped or cut off.
IsJxlp(box) == box.ty = "jxlp"
Sound(f) ==
  /\ \/ f.sig = "bare" /\ f.len >= CodestreamSigLen
     \/ f.sig = "container" /\ f.len >= ContainerSigLen
  /\ \A p \in DOMAIN f.box :
       LET box == f.box[p]
       IN  /\ ~box.bad
           /\ p + box.hdr + (IF box.sized THEN box.size ELSE 0) <= f.len
           /\ box.ty = "jxlc" =>
                \A q \in DOMAIN f.box \ {p} : f.box[q].ty \notin {"jxlc", "jxlp"}
           /\ box.ty = "jxlp" =>
                /\ box.sized => box.size >= 4
                /\ ~box.sized => p + box.hdr + 4 <= f.len
                /\ \A q \in DOMAIN f.box :
                     IsJxlp(f.box[q]) /\ q < p => f.box[q].idx < box.idx /\ ~f.box[q].last
                /\ \A i \in 0 .. box.idx - 1 :
                     \E q \in DOMAIN f.box : IsJxlp(f.box[q]) /\ q < p /\ f.box[q].idx = i
           /\ box.ty = "brob" => box.size >= 4 /\ box.inner \notin ReservedInner
           /\ box.ty \notin {"jxlc", "jxlp"} => box.sized

\* A file without defects is consumed to its last byte, whatever its chunks.
SoundFileConsumed == Sound(file) ~> (cursor = file.len)
=============================================================================
