------------------------------ MODULE MCRleMixed ------------------------------
(* Sub-images of an RLE stream that begins with a value, whose first channel *)
(* is fast and whose second is not.                                          *)
EXTENDS MCTokenReader

MCMixedImages ==
  [tokens : {s \in Streams(RleTokens) : s # <<>> => ~s[1].run}, channels : {Mixed}, ans : BOOLEAN, rle : {TRUE}]
===============================================================================
