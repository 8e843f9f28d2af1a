------------------------------ MODULE MCFeeding ------------------------------
(* The parser alone, on the files of MCContainerParser; the reader, driven by *)
(* a caller that presents the bytes that were not used once more, and by the  *)
(* decoder, which refuses them, on those of MCContainerReader.                *)
EXTENDS MCDecoderSession

\* The files of that module do not depend on its Files.
Parser == INSTANCE MCContainerParser WITH Files <- {}

FeedingFiles == Parser!MCFiles \cup MCFiles

VARIABLE driver

FeedingInit ==
  /\ driver \in {"parser", "reader", "decoder"} /\ SessionInit
  /\ file \in IF driver = "parser" THEN Parser!MCFiles ELSE MCFiles

ParserAlone == driver = "parser" /\ Next /\ UNCHANGED <<driver, readervars, decvars>>
ReaderAlone == driver = "reader" /\ ReaderNext /\ UNCHANGED <<driver, decvars>>
DecoderFeeds ==
  /\ driver = "decoder" /\ UNCHANGED driver
  /\ (\E n \in 1 .. file.len : DecoderFeed(n)) \/ DecoderEmit \/ DecoderReturn
Initializes == driver # "parser" /\ TryInit /\ UNCHANGED driver

\* The fairness is that of FairSpec, ReaderFairSpec and SessionFairSpec.
feedingVars == <<driver, sessionvars>>
FeedingSpec ==
  /\ FeedingInit /\ [][ParserAlone \/ ReaderAlone \/ DecoderFeeds \/ Initializes]_feedingVars
  /\ WF_feedingVars(ParserAlone) /\ WF_feedingVars(ReaderAlone)
  /\ WF_feedingVars(DecoderFeeds) /\ WF_feedingVars(Initializes)

\* What the parser promises at the end of a sound file: it is used up, whoever
\* does or does not listen to its events (jxl_container_parser_feed).
SoundFileConsumedByParser == driver = "parser" => SoundFileConsumed

\* What the reader promises at the end of a sound file, when all of it is read.
EveryBoxListedByReader == driver = "reader" => EveryBoxListed

\* A decoder over the reader, fed in either way, is initialised by a sound file
\* (jxl_decoder_try_init) unless a feed failed.
SoundFileInitializes == driver # "parser" => SoundInitializes
===============================================================================
