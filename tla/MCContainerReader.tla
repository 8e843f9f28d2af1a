------------------------- MODULE MCContainerReader -------------------------
(* Files whose codestream is split over jxlp boxes with raw, compressed and *)
(* jbrd boxes in between, sound and damaged.                                 *)
EXTENDS ContainerReader

MCAuxTypes == {"Exif", "xml", "jbrd"}

Plain(ty, size) ==
  [ty |-> ty, hdr |-> 8, sized |-> TRUE, size |-> size, bad |-> FALSE, idx |-> 0,
   last |-> FALSE, inner |-> "Exif", stream |-> 0, intact |-> 0]
Unsized(box) == [box EXCEPT !.sized = FALSE]
Jxlp(size, idx, last) == [Plain("jxlp", size) EXCEPT !.idx = idx, !.last = last]
Brob(size, inner, stream) ==
  [Plain("brob", size) EXCEPT !.inner = inner, !.stream = stream, !.intact = stream]
Jbrd(size, stream) == [Plain("jbrd", size) EXCEPT !.stream = stream, !.intact = stream]
Spoilt(box) == [box EXCEPT !.intact = box.stream - 1]

StartsOf(s) ==
  LET at[i \in 1 .. Len(s)] ==
        IF i = 1 THEN ContainerSigLen ELSE at[i - 1] + s[i - 1].hdr + s[i - 1].size
  IN  at

FileOf(s) ==
  LET at == StartsOf(s)
  IN  [sig |-> "container", agree |-> 0, len |-> at[Len(s)] + s[Len(s)].hdr + s[Len(s)].size,
       box |-> [p \in {at[i] : i \in 1 .. Len(s)} |-> s[CHOOSE i \in 1 .. Len(s) : at[i] = p]]]

NoBoxes == [p \in {} |-> Plain("Exif", 0)]

SoundLists ==
  { <<Plain("Exif", 4), Unsized(Plain("jxlc", 3))>>,
    <<Plain("jxlc", 3), Plain("Exif", 4)>>,
    <<Brob(6, "Exif", 2), Unsized(Plain("jxlc", 3))>>,
    <<Jxlp(5, 0, FALSE), Plain("xml", 0), Jxlp(7, 1, TRUE), Plain("Exif", 5)>>,
    <<Jbrd(4, 2), Plain("jxlc", 4)>>,
    <<Jbrd(4, 2), Plain("Exif", 4), Brob(6, "xml", 2), Unsized(Jxlp(8, 0, TRUE))>>,
    <<Brob(9, "Exif", 5), Plain("jxlc", 3)>>,
    <<Jbrd(5, 3), Plain("jxlc", 3)>> }

DamagedLists ==
  { <<Plain("jbrd", 0), Plain("jxlc", 3)>>,
    <<Jbrd(3, 1), Jbrd(3, 1), Plain("jxlc", 3)>>,
    <<Jbrd(4, 1), Plain("jxlc", 3)>>,
    <<Jbrd(4, 3), Plain("jxlc", 3)>>,
    <<Brob(7, "Exif", 2), Plain("jxlc", 3)>>,
    <<Brob(6, "Exif", 3), Plain("jxlc", 3)>>,
    <<Brob(7, "Exif", 8), Plain("jxlc", 3)>>,
    <<Spoilt(Brob(6, "Exif", 2)), Plain("jxlc", 3)>>,
    <<Spoilt(Jbrd(4, 2)), Plain("jxlc", 3)>>,
    <<Jxlp(6, 1, FALSE), Plain("Exif", 4)>>,
    <<Unsized(Plain("Exif", 4))>>,
    <<Brob(6, "Exif", 2), Plain("jxlc", 3), Jxlp(6, 0, TRUE)>> }

MCFiles ==
  {FileOf(s) : s \in SoundLists \cup DamagedLists}
  \cup {[sig |-> "bare", agree |-> 0, len |-> 5, box |-> NoBoxes],
        [sig |-> "other", agree |-> 1, len |-> 4, box |-> NoBoxes]}
=============================================================================
