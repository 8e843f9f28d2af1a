--------------------------- MODULE MCEncoderOutput ---------------------------
(* Frames with no metadata, with one box and with two.                       *)
EXTENDS EncoderOutput

MCPictures == {[metadata |-> m, body |-> 3] : m \in {<<>>, <<1>>, <<2, 1>>}}
===============================================================================
