----------------------------- MODULE EncoderOutput -----------------------------
(***************************************************************************)
(* The output side of the encoder (encoder/encode.c): frames are queued,   *)
(* and jxl_encoder_process_output turns them into boxes and hands the      *)
(* bytes out into whatever room the caller has.  A box is written contents *)
(* first, its header is put in front when its size is known, and then the  *)
(* position up to which the bytes are final moves behind it.  Bytes go     *)
(* straight into the caller's buffer as long as they fit there, and into   *)
(* chunks of the encoder's own otherwise.                                  *)
(*                                                                         *)
(* Byte i of the n-th box is <<n, i>>.                                     *)
(***************************************************************************)
EXTENDS Integers, Sequences

CONSTANTS
  Pictures,       \* frames that may be added: [metadata, body], sizes in bytes
  Rooms,          \* values of *avail_out
  MaxFrames,      \* bound: frames added
  SmallHeader, LargeHeader,   \* sizes: of a box header, 8 and 16 in the code,
  IndexLen,                   \* of the counter of a jxlp box, 4,
  FileHeader, StreamHeader,   \* of the boxes in front, of the codestream's header
  JbrdLen                     \* and of the JPEG reconstruction data

ASSUME OutputAssumption ==
  /\ Pictures \subseteq [metadata : Seq(Nat \ {0}), body : Nat \ {0}]
  /\ Rooms \subseteq Nat \ {0} /\ MaxFrames \in Nat
  /\ {SmallHeader, LargeHeader, IndexLen, FileHeader, StreamHeader, JbrdLen}
       \subseteq Nat \ {0}

VARIABLES
  setup,          \* [container, store, large]: use_container or level 10; store_
                  \* jpeg_metadata; large boxes (never changes)
  queue, added,   \* input_queue; history: frames added so far
  input_closed, wrote_bytes, jxlp_counter, has_jpeg_metadata_boxes,
  chunks,         \* internal_buffers_: [start, len, owned, box, at]
  position, output_position, finalized_position,
  avail,          \* *avail_out
  caller,         \* the caller's buffer: the bytes put there, by position
  stage,          \* "idle", "flush", "loop" or "write"
  plan,           \* the boxes of the frame in hand that are still to be written
  puts,           \* the rest of the current box: [at, n, whole]
  answer,         \* what the last process_output returned, "NONE" if frames
                  \* were added or the input closed since
  boxes,          \* history: the boxes begun
  handed          \* history: the bytes handed out

inputVars == <<setup, queue, added, input_closed, wrote_bytes, jxlp_counter,
               has_jpeg_metadata_boxes>>
wrapperVars == <<chunks, position, output_position, finalized_position>>
outputVars == <<inputVars, wrapperVars, avail, caller, stage, plan, puts, answer, boxes,
                handed>>

Lesser(a, b) == IF a < b THEN a ELSE b

OutputInit ==
  /\ setup \in [container : BOOLEAN, store : BOOLEAN, large : BOOLEAN]
  /\ queue = <<>> /\ added = 0
  /\ input_closed = FALSE /\ wrote_bytes = FALSE /\ jxlp_counter = 0
  /\ has_jpeg_metadata_boxes = FALSE
  /\ chunks = {} /\ position = 0 /\ output_position = 0 /\ finalized_position = 0
  /\ avail = 0 /\ caller = [p \in {} |-> <<0, 0>>]
  /\ stage = "idle" /\ plan = <<>> /\ puts = <<>> /\ answer = "NONE"
  /\ boxes = <<>> /\ handed = <<>>

-----------------------------------------------------------------------------
(* The boxes of a frame *)

Container == setup.container \/ setup.store \/ has_jpeg_metadata_boxes

Whole(at, n) == [at |-> at, n |-> n, whole |-> TRUE]
Split(at, n) == [at |-> at, n |-> n, whole |-> FALSE]

\* A box: what it is, its size with its header, the order in which it is put
\* together, whether it is the codestream's last, and whether it is final at once.
Box(kind, size, order, last, final) ==
  [kind |-> kind, size |-> size, order |-> order, last |-> last, final |-> final]

\* jxl_encoder_append_box: the header is taken in one piece.
AppendedBox(kind, n) ==
  Box(kind, SmallHeader + n, <<Split(SmallHeader, n), Whole(0, SmallHeader)>>, FALSE, TRUE)

First == ~wrote_bytes
Partial(f) == First /\ Container /\ (setup.store \/ f.metadata # <<>>)

FileBoxes(f) ==
  IF ~(First /\ Container) THEN <<>>
  ELSE <<Box("file", FileHeader, <<Split(0, FileHeader)>>, FALSE, ~Partial(f))>>

HeaderBoxes(f) ==
  LET n == IndexLen + StreamHeader
  IN  IF ~Partial(f) THEN <<>>
      ELSE <<Box("jxlp", SmallHeader + n, <<Whole(SmallHeader, n), Whole(0, SmallHeader)>>,
                 FALSE, TRUE)>>
           \o (IF setup.store THEN <<AppendedBox("jbrd", JbrdLen)>> ELSE <<>>)

MetadataBoxes(f) == [i \in 1 .. Len(f.metadata) |-> AppendedBox("metadata", f.metadata[i])]

\* A codestream in one piece, whose header is not out in a jxlp box already.
AloneIfLast(f, last) == last
Alone(f, last) == last /\ jxlp_counter = 0 /\ ~Partial(f)

\* The frame, behind the codestream's header if that is not out yet; its box
\* header is appended like data.
FrameBox(f, last) ==
  LET header == IF ~Container THEN 0
                ELSE (IF setup.large THEN LargeHeader ELSE SmallHeader)
                     + (IF Alone(f, last) THEN 0 ELSE IndexLen)
      stream == IF First /\ ~Partial(f) THEN StreamHeader ELSE 0
      contents == (IF stream = 0 THEN <<>> ELSE <<Split(header, stream)>>)
                  \o <<Split(header + stream, f.body)>>
  IN  Box(IF ~Container THEN "bare" ELSE IF Alone(f, last) THEN "jxlc" ELSE "jxlp",
          header + stream + f.body,
          IF Container THEN Append(contents, Split(0, header)) ELSE contents,
          last, TRUE)

BoxesOf(f, last) ==
  FileBoxes(f) \o HeaderBoxes(f) \o MetadataBoxes(f) \o <<FrameBox(f, last)>>

-----------------------------------------------------------------------------
(* The caller, between calls *)

Idle == stage = "idle" /\ answer # "ERROR"

\* jxl_encoder_add_jpeg_frame
AddFrame(f) ==
  /\ Idle /\ ~input_closed /\ added < MaxFrames
  /\ queue' = Append(queue, f) /\ added' = added + 1
  /\ has_jpeg_metadata_boxes' = (has_jpeg_metadata_boxes \/ f.metadata # <<>>)
  /\ answer' = "NONE"
  /\ UNCHANGED <<setup, input_closed, wrote_bytes, jxlp_counter, wrapperVars, avail, caller,
                 stage, plan, puts, boxes, handed>>

CloseInput ==
  /\ Idle /\ ~input_closed
  /\ input_closed' = TRUE /\ answer' = "NONE"
  /\ UNCHANGED <<setup, queue, added, wrote_bytes, jxlp_counter, has_jpeg_metadata_boxes,
                 wrapperVars, avail, caller, stage, plan, puts, boxes, handed>>

\* jxl_encoder_process_output, with another buffer.
ProcessOutput(room) ==
  /\ Idle
  /\ avail' = room /\ caller' = [p \in {} |-> <<0, 0>>]
  /\ stage' = "flush"
  /\ UNCHANGED <<inputVars, wrapperVars, plan, puts, answer, boxes, handed>>

-----------------------------------------------------------------------------
(* Handing out what is final.  A condition that the code ensures and that did *)
(* not hold would leave the machine where it is.                              *)

EndOf(c) == c.start + c.len
HasOutputToWrite == output_position < finalized_position

ByteAt(c, p) ==
  IF c.owned THEN <<c.box, c.at + p - c.start>>
  ELSE IF p \in DOMAIN caller THEN caller[p] ELSE <<0, 0>>

Flushed(c) ==
  LET n == Lesser(EndOf(c), finalized_position) - output_position
  IN  IF c.owned THEN Lesser(n, avail) ELSE n

\* One round of flush_output's loop, with the chunk in front.
Flush ==
  /\ stage = "flush" /\ HasOutputToWrite /\ avail > 0
  /\ \E c \in chunks :
       /\ \A d \in chunks : c.start <= d.start
       /\ c.start <= output_position
       /\ c.owned => output_position < EndOf(c)
       /\ handed' = handed \o [i \in 1 .. Flushed(c) |-> ByteAt(c, output_position + i - 1)]
       /\ output_position' = output_position + Flushed(c)
       /\ avail' = avail - Flushed(c)
       /\ chunks' = IF output_position + Flushed(c) = EndOf(c) THEN chunks \ {c} ELSE chunks
  /\ UNCHANGED <<inputVars, position, finalized_position, caller, stage, plan, puts, answer,
                 boxes>>

FlushDone ==
  /\ stage = "flush" /\ ~(HasOutputToWrite /\ avail > 0)
  /\ stage' = IF plan = <<>> THEN "loop" ELSE "write"
  /\ UNCHANGED <<inputVars, wrapperVars, avail, caller, plan, puts, answer, boxes, handed>>

-----------------------------------------------------------------------------
(* The loop of process_output, and process_one_enqueued_input *)

TakeFrame ==
  /\ stage = "loop" /\ avail # 0 /\ queue # <<>>
  /\ plan' = BoxesOf(Head(queue), input_closed /\ Tail(queue) = <<>>)
  /\ queue' = Tail(queue)
  /\ wrote_bytes' = TRUE
  /\ stage' = "write"
  /\ UNCHANGED <<setup, added, input_closed, jxlp_counter, has_jpeg_metadata_boxes,
                 wrapperVars, avail, caller, puts, answer, boxes, handed>>

AnswerOfQueue == IF queue # <<>> THEN "NEED_MORE_OUTPUT" ELSE "OK"
Answer == IF queue # <<>> \/ HasOutputToWrite THEN "NEED_MORE_OUTPUT" ELSE "OK"

ReturnOutput ==
  /\ stage = "loop" /\ (avail = 0 \/ queue = <<>>)
  /\ answer' = Answer
  /\ stage' = "idle"
  /\ UNCHANGED <<inputVars, wrapperVars, avail, caller, plan, puts, boxes, handed>>

-----------------------------------------------------------------------------
(* Writing a box *)

Current == boxes[Len(boxes)]
BoxWritten == puts = <<>> /\ (boxes # <<>> => (Current.final => finalized_position = position))

BeginBox ==
  /\ stage = "write" /\ BoxWritten /\ plan # <<>>
  /\ LET box == Head(plan)
     IN  /\ boxes' = Append(boxes, [kind |-> box.kind, start |-> position, size |-> box.size,
                                    index |-> jxlp_counter, last |-> box.last,
                                    final |-> box.final])
         /\ jxlp_counter' = IF box.kind = "jxlp" THEN jxlp_counter + 1 ELSE jxlp_counter
         /\ puts' = box.order
         /\ position' = position + Head(box.order).at
  /\ plan' = Tail(plan)
  /\ UNCHANGED <<setup, queue, added, input_closed, wrote_bytes, has_jpeg_metadata_boxes,
                 chunks, output_position, finalized_position, avail, caller, stage, answer,
                 handed>>

\* n bytes at the position; then what the box has left, or its end.
Place(n, owned) ==
  LET put == Head(puts)
      done == n = put.n
  IN  /\ chunks' = chunks \cup {[start |-> position, len |-> n, owned |-> owned,
                                 box |-> Len(boxes), at |-> put.at]}
      /\ caller' = IF owned THEN caller
                   ELSE [p \in DOMAIN caller \cup position .. position + n - 1 |->
                           IF p \in position .. position + n - 1
                           THEN <<Len(boxes), put.at + p - position>> ELSE caller[p]]
      /\ puts' = IF done THEN Tail(puts)
                 ELSE <<[at |-> put.at + n, n |-> put.n - n, whole |-> put.whole]>> \o Tail(puts)
      /\ position' = IF ~done THEN position + n
                     ELSE IF Len(puts) = 1 THEN Current.start + Current.size
                     ELSE Current.start + puts[2].at
      /\ UNCHANGED <<inputVars, output_position, finalized_position, avail, stage, plan,
                     answer, boxes, handed>>

\* get_buffer, bytes that it must have and has; release_buffer.
Needed == IF Head(puts).whole THEN Head(puts).n ELSE 1
Ahead == position - output_position
FitsCaller == Needed + Ahead < avail
RoomOfCaller == avail
RoomAhead == avail - Ahead

PutInCaller ==
  /\ stage = "write" /\ puts # <<>> /\ FitsCaller
  /\ Place(Lesser(Head(puts).n, RoomAhead), FALSE)

\* As many of n bytes as there are places up to the next chunk.
Later == {c \in chunks : c.start > position}
FillsGap(m, n) ==
  /\ \A c \in Later : m <= c.start - position
  /\ m = n \/ \E c \in Later : m = c.start - position

PutInChunk ==
  /\ stage = "write" /\ puts # <<>> /\ ~FitsCaller
  /\ \E m \in Needed .. Head(puts).n : FillsGap(m, Head(puts).n) /\ Place(m, TRUE)

\* set_finalized_position, behind a box that is done.
Finalize ==
  /\ stage = "write" /\ puts = <<>> /\ ~BoxWritten
  /\ finalized_position' = position
  /\ stage' = "flush"
  /\ UNCHANGED <<inputVars, chunks, position, output_position, avail, caller, plan, puts,
                 answer, boxes, handed>>

\* The frame cannot be encoded or memory runs out: the frame is lost, and the
\* caller, told so, does not call again.
EncodeFails ==
  /\ stage = "write" /\ puts # <<>>
  /\ answer' = "ERROR" /\ stage' = "idle"
  /\ UNCHANGED <<inputVars, wrapperVars, avail, caller, plan, puts, boxes, handed>>

Working == Flush \/ FlushDone \/ TakeFrame \/ ReturnOutput \/ BeginBox \/ PutInCaller
           \/ PutInChunk \/ Finalize

OutputNext ==
  \/ \E f \in Pictures : AddFrame(f)
  \/ CloseInput
  \/ \E room \in Rooms : ProcessOutput(room)
  \/ Working
  \/ EncodeFails

OutputSpec == OutputInit /\ [][OutputNext]_outputVars

\* A call runs to its end, and the caller calls until it is told that all is
\* out ("Call repeatedly until status is not JXL_NEED_MORE_OUTPUT", encode.h:71).
Asking == answer # "OK" /\ \E room \in Rooms : ProcessOutput(room)
OutputFairSpec == OutputSpec /\ WF_outputVars(Working) /\ WF_outputVars(Asking)

-----------------------------------------------------------------------------
(* Properties *)

\* Whatever room each call offers, and wherever the bytes of a box waited, in
\* the caller's buffer or in chunks, header behind contents: what is handed out
\* is the boxes, one behind the other, each from its first byte on, and never
\* more of them than there was room for.
HandedOutInOrder ==
  /\ avail >= 0 /\ Len(handed) = output_position
  /\ \A n \in DOMAIN boxes :
       /\ boxes[n].start = IF n = 1 THEN 0 ELSE boxes[n - 1].start + boxes[n - 1].size
       /\ \A i \in 0 .. boxes[n].size - 1 :
            boxes[n].start + i < output_position => handed[boxes[n].start + i + 1] = <<n, i>>

\* The parts of a codestream are numbered from 0 in their order, a box that says
\* it is the last one is, and a jxlc box is the only one: once a jxlp box is
\* written "a single jxlc box cannot be used" (encode_internal.h:1086).
Parts == {n \in DOMAIN boxes : boxes[n].kind \in {"jxlc", "jxlp"}}
CodestreamInParts ==
  \A n \in Parts :
    /\ boxes[n].kind = "jxlc" => Parts = {n}
    /\ boxes[n].last => \A m \in Parts : m <= n
    /\ \A m \in Parts : (m < n /\ \A k \in Parts : k <= m \/ n <= k) =>
         boxes[n].index = boxes[m].index + 1
    /\ (\A m \in Parts : n <= m) => boxes[n].index = 0

\* An application that closes its input and keeps calling is told that it has
\* everything, and then it does: no frame and no byte stays behind.
Written == IF boxes = <<>> THEN 0 ELSE Current.start + Current.size
AllHandedOut == queue = <<>> /\ plan = <<>> /\ output_position = Written
Drains == input_closed ~> (answer = "ERROR" \/ (answer = "OK" /\ AllHandedOut))

\* Whether there is a container "can only be set at the beginning" (encode.c:900).
ContainerFromStart ==
  \A m, n \in DOMAIN boxes : (boxes[m].kind = "bare") <=> (boxes[n].kind = "bare")
=============================================================================
