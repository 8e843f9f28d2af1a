------------------------- MODULE MCContainerParser -------------------------
(* Small files for TLC: every signature, and containers of up to three boxes *)
(* taken from a palette that has each kind of box, sound and defective.      *)
EXTENDS ContainerParser, TLC

MCAuxTypes == {"Exif", "jbrd"}

Plain(ty, size) ==
  [ty |-> ty, hdr |-> 8, sized |-> TRUE, size |-> size, bad |-> FALSE,
   idx |-> 0, last |-> FALSE, inner |-> "Exif", stream |-> 0,
   intact |-> 0]

Unsized(box) == [box EXCEPT !.sized = FALSE]
Jxlp(size, idx, last) == [Plain("jxlp", size) EXCEPT !.idx = idx, !.last = last]
Brob(size, inner) == [Plain("brob", size) EXCEPT !.inner = inner]

Palette ==
  { Plain("jxlc", 2), [Plain("jxlc", 1) EXCEPT !.hdr = 16], Unsized(Plain("jxlc", 2)),
    Jxlp(5, 0, FALSE), Jxlp(5, 1, TRUE), Jxlp(4, 1, FALSE), Unsized(Jxlp(5, 1, TRUE)),
    Plain("Exif", 2), Plain("jbrd", 0), Brob(5, "Exif") }

Defective ==
  { [Plain("Exif", 2) EXCEPT !.bad = TRUE], Jxlp(3, 0, FALSE), Brob(3, "Exif"),
    Brob(5, "jbrd"), Unsized(Plain("Exif", 2)), Unsized(Brob(5, "Exif")) }

BoxLen(box) == box.hdr + box.size

\* A box that runs to the end of the file is the last of its file.
Chain(s) == \A i \in 1 .. Len(s) - 1 : s[i].sized

StartsOf(s) ==
  LET at[i \in 1 .. Len(s)] == IF i = 1 THEN ContainerSigLen ELSE at[i - 1] + BoxLen(s[i - 1])
  IN  at

\* The file of the boxes s without its last cut bytes.
FileOf(s, cut) ==
  LET at == StartsOf(s)
      len == (IF s = <<>> THEN ContainerSigLen ELSE at[Len(s)] + BoxLen(s[Len(s)])) - cut
      starts == {i \in 1 .. Len(s) : at[i] < len}
  IN  [sig |-> "container", agree |-> 0, len |-> len,
       box |-> [p \in {at[i] : i \in starts} |-> s[CHOOSE i \in starts : at[i] = p]]]

Good == {s \in UNION {[1 .. n -> Palette] : n \in 0 .. 2} : Chain(s)}
Odd == {<<b>> : b \in Defective}
       \cup {<<Plain("Exif", 2), b>> : b \in Defective}
       \cup {<<b, Plain("jxlc", 2)>> : b \in {d \in Defective : d.sized}}
Long == { <<Jxlp(5, 0, FALSE), Brob(5, "Exif"), Jxlp(5, 1, TRUE)>>,
          <<Jxlp(4, 0, FALSE), Jxlp(5, 1, FALSE), Jxlp(5, 2, TRUE)>>,
          <<Jxlp(4, 0, TRUE), Plain("Exif", 1), Jxlp(5, 1, TRUE)>>,
          <<Plain("jxlc", 0), Plain("jbrd", 1), Plain("jxlc", 1)>> }

NoBoxes == [p \in {} |-> Plain("Exif", 0)]
Headless ==
  { [sig |-> "bare", agree |-> 0, len |-> 4, box |-> NoBoxes],
    [sig |-> "other", agree |-> 1, len |-> 4, box |-> NoBoxes],
    [sig |-> "other", agree |-> 9, len |-> 9, box |-> NoBoxes],
    [sig |-> "container", agree |-> 0, len |-> 7, box |-> NoBoxes] }

MCFiles ==
  {FileOf(s, 0) : s \in Good \cup Odd \cup Long}
  \cup {FileOf(<<Plain("Exif", 2)>>, 1), FileOf(<<Plain("jxlc", 2)>>, 3)}
  \cup Headless
=============================================================================
