---------------------------- MODULE DecoderSession ----------------------------
(***************************************************************************)
(* The input side of the public decoder (decoder.c): jxl_decoder_feed,     *)
(* jxl_decoder_try_init and the metadata queries, on top of the container  *)
(* reader.  Unlike the reader, which lets its caller present the unused    *)
(* bytes again, decoder_grow_input treats a chunk that the reader did not  *)
(* use up as an error.                                                     *)
(***************************************************************************)
EXTENDS ContainerReader

CONSTANTS
  ImageHeaderLen    \* codestream bytes in front of the first frame

ASSUME HeaderAssumption == ImageHeaderLen \in Nat /\ ImageHeaderLen >= 3

VARIABLES
  initialized, init_status,
  partial,          \* a feed failed with "unexpected partial container feed"
  clean             \* history: no chunk ended inside a signature, header or index

decvars == <<initialized, init_status, partial, clean>>
sessionvars == <<allvars, decvars>>

Broken == status # "OK" \/ failed # "OK" \/ partial

SessionInit ==
  /\ ReaderInit
  /\ initialized = FALSE /\ init_status = "NEED_MORE_DATA"
  /\ partial = FALSE /\ clean = TRUE

\* The bytes the parser takes only as a whole.
Units ==
  {<<0, CASE file.sig = "container" -> ContainerSigLen
          [] file.sig = "bare" -> CodestreamSigLen
          [] OTHER -> file.agree + 1>>}
  \cup {<<p, p + file.box[p].hdr>> : p \in Starts}
  \cup {<<p + file.box[p].hdr, PayloadStart(p)>> : p \in Starts}

\* jxl_decoder_feed: the input is recorded, then handed to the reader.
DecoderFeed(n) ==
  /\ ~Broken
  /\ ReaderFeed(n)
  /\ clean' = (clean /\ \A u \in Units : ~(u[1] < fed + n /\ fed + n < u[2]))
  /\ UNCHANGED <<initialized, init_status, partial>>

DecoderEmit == ReaderEmit /\ UNCHANGED decvars

\* Bytes are left over: the call fails, and they are not presented again.
LeftOver == cursor # fed

DecoderReturn ==
  /\ ReaderReturn
  /\ partial' = LeftOver
  /\ UNCHANGED <<initialized, init_status, clean>>

\* jxl_decoder_try_init.  A codestream that is not one is refused as soon as
\* three bytes of it are there.
HeaderCompleteStrict == Len(codestream) > ImageHeaderLen
HeaderComplete == Len(codestream) >= ImageHeaderLen

InitOutcomeAnyKind ==
  CASE Len(codestream) < 3 -> "NEED_MORE_DATA"
    [] ~HeaderComplete -> "NEED_MORE_DATA"
    [] OTHER -> "OK"

InitOutcome ==
  CASE Len(codestream) < 3 -> "NEED_MORE_DATA"
    [] codestream_kind = "invalid" -> "INVALID_INPUT"
    [] ~HeaderComplete -> "NEED_MORE_DATA"
    [] OTHER -> "OK"

TryInit ==
  /\ call = "idle" /\ ~Broken
  /\ fed > 0 /\ ~initialized
  /\ init_status' = InitOutcome
  /\ initialized' = (init_status' = "OK")
  /\ UNCHANGED <<allvars, partial, clean>>

SessionNext ==
  \/ \E n \in 1 .. file.len : DecoderFeed(n)
  \/ DecoderEmit \/ DecoderReturn \/ TryInit

SessionSpec == SessionInit /\ [][SessionNext]_sessionvars

\* The application feeds until the file ends or a call fails, no call is left
\* in the middle, and it tries to initialise again while that asks for more.
SessionFairSpec ==
  /\ SessionSpec
  /\ WF_sessionvars((\E n \in 1 .. file.len : DecoderFeed(n)) \/ DecoderEmit \/ DecoderReturn)
  /\ WF_sessionvars(TryInit)

-----------------------------------------------------------------------------
(* The metadata queries *)

FirstOf(ty) ==
  LET is == {i \in DOMAIN boxes : boxes[i].ty = ty}
  IN  boxes[CHOOSE i \in is : \A j \in is : i <= j]

\* jxl_aux_box_list_first_of_type
FirstOfType(ty) ==
  CASE \E i \in DOMAIN boxes : boxes[i].ty = ty ->
         [tag |-> "HAS_DATA", data |-> FirstOf(ty).data]
    [] OTHER -> [tag |-> IF last_box /\ current_box_ty # ty THEN "NOT_FOUND" ELSE "DECODING"]

\* jxl_decoder_first_exif: a box too short for its offset field is an error.
Exif ==
  LET found == FirstOfType("Exif")
  IN  CASE found.tag = "HAS_DATA" /\ Len(found.data) < 4 -> [tag |-> "INVALID"]
        [] found.tag = "HAS_DATA" -> [found EXCEPT !.tag = "AVAILABLE"]
        [] OTHER -> found

\* jxl_aux_box_list_jbrd
JbrdTag ==
  CASE jbrd.phase # "absent" -> "HAS_DATA"
    [] jbrd.phase = "absent" /\ last_box /\ current_box_ty # "jbrd" -> "NOT_FOUND"
    [] OTHER -> "DECODING"

-----------------------------------------------------------------------------
(* Properties *)

\* An answer to a metadata query is final: once it is not "decoding", no input
\* changes it, so nobody is told "there is none" of a box that comes later.
AnswersFinal ==
  [][/\ Exif.tag # "DECODING" => Exif' = Exif
     /\ JbrdTag # "DECODING" => JbrdTag' = JbrdTag]_sessionvars

\* A sound file in chunks that end between headers, not within them, is never
\* refused, as long as compressed payloads come in one piece and the jbrd data
\* inflates into the first buffer of its decoder.
CleanChunksAccepted ==
  Sound(file) /\ AuxSound /\ JbrdFits /\ clean /\ ~split => ~Broken

\* The header the application is given is that of the file's own codestream.
InitializedFromCodestream ==
  initialized =>
    /\ codestream_kind \in {"bare", "container"}
    /\ \A i \in 1 .. ImageHeaderLen :
         /\ codestream[i] \in CodestreamPositions
         /\ Cardinality({q \in CodestreamPositions : q < codestream[i]}) = i - 1

\* A sound file whose codestream holds a header initialises the decoder, unless
\* a feed failed on the way.
SoundInitializes ==
  (Sound(file) /\ AuxSound /\ Cardinality(CodestreamPositions) >= ImageHeaderLen)
    ~> (initialized \/ Broken)

\* What jxl_decoder_feed's callers rely on: a sound file may be fed in chunks.
AnyChunksAccepted == Sound(file) /\ AuxSound => ~partial

\* What the documentation of jxl_decoder_first_exif tells its caller: while the
\* answer is "decoding" there is more input to feed.
ExifAnsweredAtEnd ==
  (Sound(file) /\ AuxSound) ~> (Broken \/ Exif.tag # "DECODING")
=============================================================================
