-------------------------- MODULE MCDecoderSession --------------------------
(* The files of MCContainerReader, fed to a decoder.                         *)
EXTENDS DecoderSession, MCContainerReader
=============================================================================
