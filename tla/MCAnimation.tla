----------------------------- MODULE MCAnimation -----------------------------
(* Short animations over two pixels: VarDCT, modular and mixed; slots that   *)
(* alternate, feed on themselves, are empty when a frame blends on them, or   *)
(* are filled by frames that are not shown.                                  *)
EXTENDS AnimationRender

MCCrops == {[left |-> 0, width |-> 1], [left |-> 1, width |-> 1], [left |-> 0, width |-> 2]}

Key(enc, mode, region, source, save) ==
  [kind |-> "regular", encoding |-> enc, mode |-> mode, region |-> region,
   source |-> source, save |-> save, timed |-> TRUE, last |-> FALSE]
V(mode, region, source, save) == Key("vardct", mode, region, source, save)
M(mode, region, source, save) == Key("modular", mode, region, source, save)
Hidden(f) == [f EXCEPT !.timed = FALSE]
RefOnly(f) == [f EXCEPT !.timed = FALSE, !.kind = "refonly"]
End(f) == [f EXCEPT !.last = TRUE]

VardctFiles ==
  { <<V("replace", {1, 2}, 0, 1), V("add", {1, 2}, 1, 1), V("add", {1}, 1, 2),
      End(V("add", {1, 2}, 2, 0))>>,
    <<V("replace", {1, 2}, 0, 1), V("add", {2}, 1, 2), V("add", {1, 2}, 1, 1),
      End(V("add", {1, 2}, 2, 0))>>,
    <<V("replace", {1, 2}, 0, 1), V("add", {1, 2}, 1, 1), V("replace", {1, 2}, 0, 2),
      V("add", {1, 2}, 1, 0), End(V("replace", {1}, 2, 0))>>,
    <<V("replace", {1, 2}, 0, 1), V("add", {1, 2}, 2, 1), End(V("add", {1, 2}, 1, 0))>> }

HiddenFiles ==
  { <<RefOnly(V("replace", {1}, 0, 3)), V("add", {1, 2}, 3, 1), End(V("add", {1, 2}, 1, 0))>>,
    <<V("replace", {1, 2}, 0, 1), Hidden(V("add", {2}, 1, 1)), End(V("add", {1, 2}, 1, 0))>> }

ModularFiles ==
  { <<M("replace", {1, 2}, 0, 1), M("add", {1}, 1, 1), M("add", {1, 2}, 1, 2),
      End(M("add", {2}, 2, 0))>>,
    <<M("replace", {1, 2}, 0, 1), M("add", {1}, 2, 1), M("add", {1, 2}, 1, 2),
      End(M("add", {2}, 2, 0))>>,
    <<RefOnly(M("replace", {1}, 0, 1)), M("add", {1, 2}, 1, 1), Hidden(M("add", {2}, 1, 2)),
      End(M("add", {2}, 2, 0))>> }

MixedFiles ==
  { <<M("replace", {1, 2}, 0, 1), M("add", {1, 2}, 1, 1), M("add", {2}, 1, 1),
      End(V("add", {1, 2}, 1, 0))>>,
    <<V("replace", {1, 2}, 0, 1), M("add", {1}, 1, 1), End(V("add", {1, 2}, 1, 0))>>,
    <<M("replace", {1, 2}, 0, 1), V("add", {1}, 1, 1), V("add", {1, 2}, 1, 2),
      End(M("add", {1}, 2, 0))>>,
    <<M("add", {1, 2}, 0, 1), M("add", {1}, 1, 1), End(V("add", {1, 2}, 1, 0))>> }

MCAnimations == VardctFiles \cup HiddenFiles \cup ModularFiles \cup MixedFiles

\* The animation is played: a crop is set, or none, and then each keyframe is
\* rendered once, in order.
PlayNext ==
  \/ shown.k = None /\ \E r \in Crops : SetCrop(r)
  \/ shown.k + 1 < NumKeyframes /\ RenderCall(shown.k + 1)
  \/ Show
PlaySpec == AnimationInit /\ [][PlayNext]_animationVars
=============================================================================
