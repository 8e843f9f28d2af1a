--------------------------- MODULE ContainerReader ---------------------------
(***************************************************************************)
(* jxl_container_reader (container_reader.c): the parser, the codestream   *)
(* buffer it fills and the list of auxiliary boxes (aux_box.c), with the   *)
(* brotli decoder of brob boxes (brotli_decode.c) and the data of the jbrd *)
(* box (jbr/data.c).                                                       *)
(*                                                                         *)
(* The reader's callback runs inside the step of emit that produced the    *)
(* event, so every action here is an action of the parser together with    *)
(* what the callback does with event'.                                     *)
(***************************************************************************)
EXTENDS ContainerParser, FiniteSets

CONSTANTS
  JbrHeaderLen,     \* bytes of a jbrd payload in front of its brotli stream
  BufferLen,        \* symbols in the first output buffer of a brotli decoder
  RingLen           \* symbols the library may keep back when it asks for input

ASSUME JbrAssumption == JbrHeaderLen \in Nat
ASSUME BufferAssumption == BufferLen \in Nat \ {0} /\ RingLen \in Nat

VARIABLES
  codestream,       \* the bytes appended, as positions of the file
  boxes,            \* finished boxes: type, start, content
  current_box_ty,   \* "none" stands for has_current_box_ty = 0
  reader_kind, raw, brotli,
  last_box,
  jbrd,             \* the jbrd data: phase, staged length, brotli decoder
  failed,           \* what the callback returned
  split             \* history: a compressed payload came in several pieces

auxvars == <<boxes, current_box_ty, reader_kind, raw, brotli, last_box, jbrd, split>>
readervars == <<codestream, boxes, current_box_ty, reader_kind, raw, brotli,
                last_box, jbrd, failed, split>>
allvars == <<vars, readervars>>

-----------------------------------------------------------------------------
(* The brotli decoder.  The stream of the box at p has box.stream bytes, of *)
(* which the first box.intact ones can be decoded; each of them lets the   *)
(* library push out two more symbols, as long as there is room for them.   *)

Stream(p) == file.box[p].stream
Inflated(k) == 2 * k
Symbols(p, k) == [i \in 1 .. Inflated(k) |-> <<p, i>>]
Garbage(n) == [i \in 1 .. n |-> <<0, 0>>]

\* A decoder: the bytes it has taken, the symbols the library has written (its
\* total_out), out_cap, the first out_len places of out, finished.
Decoder == [k : Nat, total : Nat, cap : Nat, out : Seq(Nat \X Nat), finished : BOOLEAN]
NoBrotli == [k |-> 0, total |-> 0, cap |-> 0, out |-> <<>>, finished |-> FALSE]

\* grow_out: doubled until need places fit
Grown(cap, need) ==
  LET from == IF cap = 0 THEN BufferLen ELSE cap
      doubled[c \in Nat] == IF need <= 2 * c THEN 2 * c ELSE doubled[2 * c]
  IN  IF need <= from THEN from ELSE doubled[from]

\* Whether the library has nothing more to do after k bytes: all is written, or
\* it asks for more input and keeps the rest back.
Settled(p, k, total) ==
  total = Inflated(k) \/ (k < Stream(p) /\ Inflated(k) - total <= RingLen)

\* One turn of the loop of jxl_brotli_decoder_feed, the stream's first k bytes
\* taken.  A full buffer grows before it, and one that was too small after it.
\* total_out counts from the start of the stream, yet is added to out_len: from
\* the second turn on, out_len runs ahead by what earlier turns had written.
\* Once it is past out_cap, their difference wraps around, and the library
\* writes as if without a limit.
Turn(b, p, k) ==
  LET cap == IF Len(b.out) = b.cap THEN Grown(b.cap, Len(b.out) + BufferLen) ELSE b.cap
      total == IF Len(b.out) > cap THEN Inflated(k)
               ELSE Least(Inflated(k), b.total + cap - Len(b.out))
      out == b.out \o SubSeq(Symbols(p, k), b.total + 1, total) \o Garbage(b.total)
  IN  [k |-> k, total |-> total, out |-> out,
       cap |-> IF Settled(p, k, total) THEN cap ELSE Grown(cap, Len(out) + BufferLen),
       finished |-> total = Inflated(k) /\ k = Stream(p)]

\* jxl_brotli_decoder_feed, for n bytes that can be decoded
BrotliFeed(b, p, n) ==
  LET k == Least(b.k + n, Stream(p))
      first == Turn(b, p, k)
      more[d \in Decoder] == IF Settled(p, k, d.total) THEN d ELSE more[Turn(d, p, k)]
  IN  IF n = 0 /\ b.total = Inflated(b.k) THEN b
      ELSE IF Settled(p, k, first.total) THEN first ELSE more[first]

\* The library refuses the n bytes, or the stream had ended before them.
BrotliRefuses(b, p, n) == b.finished \/ Least(b.k + n, Stream(p)) > file.box[p].intact

\* jxl_brotli_decoder_finish
BrotliFinish(b, p) == IF b.finished THEN b ELSE BrotliFeed(b, p, 0)

-----------------------------------------------------------------------------
(* The list of auxiliary boxes: jxl_aux_box_list_handle_event *)

NoJbrd == [phase |-> "absent", staged |-> 0, brotli |-> NoBrotli]

Span(a, b) == [i \in 1 .. b - a |-> a + i - 1]

BoxStartRaw ==
  /\ current_box_ty' = event'.ty
  /\ reader_kind' = IF event'.ty # "jbrd" THEN "RAW" ELSE reader_kind
  /\ last_box' = event'.last
  /\ UNCHANGED <<codestream, boxes, raw, brotli, jbrd, failed, split>>

BoxStartAsLast ==
  /\ current_box_ty' = event'.ty
  /\ reader_kind' = IF event'.ty # "jbrd" /\ reader_kind = "INIT"
                    THEN IF event'.brotli THEN "BROTLI" ELSE "RAW"
                    ELSE reader_kind
  /\ last_box' = TRUE
  /\ UNCHANGED <<codestream, boxes, raw, brotli, jbrd, failed, split>>

BoxStart ==
  /\ current_box_ty' = event'.ty
  /\ reader_kind' = IF event'.ty # "jbrd" /\ reader_kind = "INIT"
                    THEN IF event'.brotli THEN "BROTLI" ELSE "RAW"
                    ELSE reader_kind
  /\ last_box' = event'.last
  /\ UNCHANGED <<codestream, boxes, raw, brotli, jbrd, failed, split>>

Whole(ev) == ev.from = PayloadStart(pending_header) /\ ev.to = PayloadEnd(pending_header)

\* jbrd_feed_bytes: stage until the header parses, then feed what follows it.
JbrdFeed(n) ==
  LET staged == jbrd.staged + n
      behind == staged - JbrHeaderLen
      p == pending_header
  IN  CASE jbrd.phase = "absent" /\ behind < 0 ->
             jbrd' = [jbrd EXCEPT !.staged = staged] /\ UNCHANGED failed
        [] jbrd.phase = "absent" /\ behind = 0 ->
             /\ jbrd' = [phase |-> "parsed", staged |-> 0, brotli |-> NoBrotli]
             /\ UNCHANGED failed
        [] jbrd.phase = "absent" /\ behind > 0 /\ BrotliRefuses(NoBrotli, p, behind) ->
             /\ jbrd' = [jbrd EXCEPT !.staged = staged]
             /\ failed' = "VALIDATION_FAILED"
        [] jbrd.phase = "absent" /\ behind > 0 /\ ~BrotliRefuses(NoBrotli, p, behind) ->
             /\ jbrd' = [phase |-> "parsed", staged |-> 0,
                         brotli |-> BrotliFeed(NoBrotli, p, behind)]
             /\ UNCHANGED failed
        [] jbrd.phase = "parsed" /\ jbrd.brotli.finished -> UNCHANGED <<jbrd, failed>>
        [] jbrd.phase = "parsed" /\ ~jbrd.brotli.finished /\ ~BrotliRefuses(jbrd.brotli, p, n) ->
             /\ jbrd' = [jbrd EXCEPT !.brotli = BrotliFeed(@, p, n)]
             /\ UNCHANGED failed
        [] OTHER -> failed' = "VALIDATION_FAILED" /\ UNCHANGED jbrd

\* What a feed that fails leaves of its decoder is not looked at any more.
BoxData ==
  /\ current_box_ty' = event'.ty
  /\ split' = (split \/ ((reader_kind = "BROTLI" \/ event'.ty = "jbrd") /\ ~Whole(event')))
  /\ LET n == event'.to - event'.from
     IN  IF event'.ty = "jbrd"
         THEN JbrdFeed(n) /\ UNCHANGED <<reader_kind, raw, brotli>>
         ELSE /\ UNCHANGED jbrd
              /\ CASE reader_kind \in {"INIT", "RAW"} ->
                        /\ raw' = raw \o Span(event'.from, event'.to)
                        /\ reader_kind' = "RAW"
                        /\ UNCHANGED <<brotli, failed>>
                   [] reader_kind = "BROTLI" /\ ~BrotliRefuses(brotli, pending_header, n) ->
                        /\ brotli' = BrotliFeed(brotli, pending_header, n)
                        /\ UNCHANGED <<reader_kind, raw, failed>>
                   [] reader_kind = "BROTLI" /\ BrotliRefuses(brotli, pending_header, n) ->
                        /\ failed' = "VALIDATION_FAILED"
                        /\ UNCHANGED <<reader_kind, raw, brotli>>
  /\ UNCHANGED <<codestream, boxes, last_box>>

\* jbrd_finalize: the inflated length must be the one the header announces.
JbrdFinished == BrotliFinish(jbrd.brotli, pending_header)

JbrdCompleteByStream ==
  jbrd.phase = "parsed" /\ Len(JbrdFinished.out) = Stream(pending_header)

JbrdComplete ==
  jbrd.phase = "parsed" /\ Len(JbrdFinished.out) = Inflated(Stream(pending_header))

\* aux_box_list_finalize
FinalizeJbrd ==
  /\ IF JbrdComplete
     THEN /\ current_box_ty' = "none"
          /\ jbrd' = [jbrd EXCEPT !.phase = "finalized", !.brotli = JbrdFinished]
          /\ UNCHANGED failed
     ELSE /\ current_box_ty' = event'.ty
          /\ failed' = "VALIDATION_FAILED"
          /\ UNCHANGED jbrd
  /\ UNCHANGED <<boxes, reader_kind, raw, brotli>>

Entry == [ty |-> event'.ty, at |-> pending_header,
          data |-> IF reader_kind = "BROTLI" THEN BrotliFinish(brotli, pending_header).out
                   ELSE raw]

FinalizeBoxKeepingRaw ==
  /\ boxes' = Append(boxes, Entry)
  /\ current_box_ty' = "none"
  /\ reader_kind' = "INIT" /\ brotli' = NoBrotli
  /\ UNCHANGED <<raw, jbrd, failed>>

FinalizeBoxDroppingEmpty ==
  /\ boxes' = IF Entry.data = <<>> THEN boxes ELSE Append(boxes, Entry)
  /\ current_box_ty' = "none"
  /\ reader_kind' = "INIT" /\ raw' = <<>> /\ brotli' = NoBrotli
  /\ UNCHANGED <<jbrd, failed>>

FinalizeBox ==
  /\ boxes' = Append(boxes, Entry)
  /\ current_box_ty' = "none"
  /\ reader_kind' = "INIT" /\ raw' = <<>> /\ brotli' = NoBrotli
  /\ UNCHANGED <<jbrd, failed>>

BoxEnd ==
  /\ IF event'.ty = "jbrd" THEN FinalizeJbrd ELSE FinalizeBox
  /\ UNCHANGED <<codestream, last_box, split>>

NoMoreBoxes ==
  /\ current_box_ty' = "none"
  /\ last_box' = TRUE
  /\ UNCHANGED <<codestream, boxes, reader_kind, raw, brotli, jbrd, failed, split>>

\* reader_event_cb
Callback ==
  \/ event'.type \in {"none", "kind"} /\ UNCHANGED readervars
  \/ /\ event'.type = "codestream"
     /\ codestream' = codestream \o Span(event'.from, event'.to)
     /\ UNCHANGED <<auxvars, failed>>
  \/ event'.type = "no_more_aux_box" /\ NoMoreBoxes
  \/ event'.type = "aux_start" /\ BoxStart
  \/ event'.type = "aux_data" /\ BoxData
  \/ event'.type = "aux_end" /\ BoxEnd

-----------------------------------------------------------------------------

ReaderInit ==
  /\ Init
  /\ codestream = <<>> /\ boxes = <<>> /\ current_box_ty = "none"
  /\ reader_kind = "INIT" /\ raw = <<>> /\ brotli = NoBrotli
  /\ last_box = FALSE /\ jbrd = NoJbrd
  /\ failed = "OK" /\ split = FALSE

\* A callback that fails ends the call there and then.
ReaderFeed(n) == failed = "OK" /\ Feed(n) /\ UNCHANGED readervars
ReaderEmit == failed = "OK" /\ Emit /\ Callback
ReaderReturn == failed = "OK" /\ Return /\ UNCHANGED readervars

ReaderNext == (\E n \in 1 .. file.len : ReaderFeed(n)) \/ ReaderEmit \/ ReaderReturn

ReaderSpec == ReaderInit /\ [][ReaderNext]_allvars
ReaderFairSpec == ReaderSpec /\ WF_allvars(ReaderNext)

-----------------------------------------------------------------------------
(* Properties *)

Starts == DOMAIN file.box
InnerType(p) == IF file.box[p].ty = "brob" THEN file.box[p].inner ELSE file.box[p].ty

ReaderTypeOK ==
  /\ codestream \in Seq(0 .. file.len)
  /\ \A i \in DOMAIN boxes : boxes[i].ty \in AuxTypes /\ boxes[i].at \in Starts
  /\ current_box_ty \in AuxTypes \cup {"none"}
  /\ reader_kind \in {"INIT", "RAW", "BROTLI"}
  /\ (brotli # NoBrotli => reader_kind = "BROTLI") /\ (raw # <<>> => reader_kind = "RAW")
  /\ last_box \in BOOLEAN /\ split \in BOOLEAN
  /\ jbrd.phase \in {"absent", "parsed", "finalized"}
  /\ failed \in {"OK", "VALIDATION_FAILED"}

\* Every byte of a file without a container, else the payload of its
\* codestream boxes, less the jxlp indices.
CodestreamPositions ==
  IF file.sig # "container" THEN 0 .. file.len - 1
  ELSE UNION {PayloadStart(p) .. Least(PayloadEnd(p), file.len) - 1 :
                p \in {q \in Starts : file.box[q].ty \in {"jxlc", "jxlp"}}}

AuxStarts ==
  {p \in Starts : file.box[p].ty \notin {"jxlc", "jxlp"} /\ InnerType(p) # "jbrd"}

\* The reader implements ContainerStream: however the file is cut and wherever
\* it is damaged, the codestream that comes out is a gapless prefix of the
\* file's, and the boxes listed are the file's first ones, in order.
Promise == INSTANCE ContainerStream
             WITH truth <- CodestreamPositions,
                  shelf <- [p \in AuxStarts |-> InnerType(p)],
                  out <- codestream,
                  listed <- [i \in DOMAIN boxes |-> [at |-> boxes[i].at, ty |-> boxes[i].ty]]
ImplementsContainerStream == Promise!Spec

\* What the box at p holds: its payload, inflated if it is a brob box, as far
\* as the payload goes.  Nothing tells the reader that a stream is cut off.
Content(p) ==
  IF file.box[p].ty = "brob"
  THEN Symbols(p, Least(Stream(p), PayloadEnd(p) - PayloadStart(p)))
  ELSE Span(PayloadStart(p), PayloadEnd(p))

\* The boxes listed, and the jbrd data, are those of the file, for a box of P.
ExactFor(P) ==
  /\ \A i \in DOMAIN boxes : boxes[i].at \in P => boxes[i].data = Content(boxes[i].at)
  /\ jbrd.phase = "finalized" =>
       \E p \in Starts : /\ file.box[p].ty = "jbrd" /\ p < cursor
                         /\ p \in P => jbrd.brotli.out = Symbols(p, Stream(p))

\* The stream of the box at p inflates into the first buffer of its decoder.
Fits(p) == Inflated(Stream(p)) <= BufferLen

\* No raw box ever lists a wrong, missing or foreign byte; a compressed one whose
\* payload reached the decoder in one piece, and inflates into its first buffer,
\* lists what it holds.  Without either condition it may not.
HandledBoxesExact ==
  ExactFor({p \in Starts : file.box[p].ty \in {"brob", "jbrd"} => ~split /\ Fits(p)})

\* A file whose auxiliary boxes hold what their headers announce.
AuxSound ==
  /\ \A p \in Starts :
       /\ file.box[p].ty \in {"brob", "jbrd"} => file.box[p].intact >= Stream(p)
       /\ file.box[p].ty = "brob" => Stream(p) = file.box[p].size - 4 /\ Stream(p) > 0
       /\ file.box[p].ty = "jbrd" => /\ Stream(p) = file.box[p].size - JbrHeaderLen
                                     /\ Stream(p) > 0
                                     /\ \A q \in Starts \ {p} : file.box[q].ty # "jbrd"

\* What the boxes' test asserts of a box fed in one piece, asked of any pieces.
SmallBoxesExact ==
  Sound(file) /\ AuxSound => ExactFor({p \in Starts : Fits(p)})

\* What the boxes' test asserts of a box of eight bytes, asked of any length.
WholeBoxesExact == Sound(file) /\ AuxSound /\ ~split => ExactFor(Starts)

JbrdFits == \A p \in Starts : file.box[p].ty = "jbrd" => Fits(p)

\* Nothing sound is refused: neither parser nor boxes fail on a file without
\* defects unless a compressed payload was handed over in pieces, or the jbrd
\* data inflates beyond the decoder's first buffer.
SoundAccepted ==
  Sound(file) /\ AuxSound /\ JbrdFits /\ ~split => status = "OK" /\ failed = "OK"

\* At the end of a sound file every box of it is listed, except the last one
\* when nothing follows it: its end is noticed with the next byte only.
FollowedAuxStarts == {p \in AuxStarts : PayloadEnd(p) < file.len}
EveryBoxListed ==
  (Sound(file) /\ AuxSound /\ JbrdFits) ~>
     (split \/ FollowedAuxStarts \subseteq {boxes[i].at : i \in DOMAIN boxes})
=============================================================================
