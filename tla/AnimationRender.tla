--------------------------- MODULE AnimationRender ---------------------------
(***************************************************************************)
(* Rendering keyframes of an animation (decoder_render_keyframe and        *)
(* render/keyframe_render.c): the decoder caches the four reference slots  *)
(* and the last keyframe they account for (animation_chain_upto), and      *)
(* renders the keyframes in between first when the application skips.  A    *)
(* crop may be set between calls: only that part of the image is rendered.  *)
(*                                                                         *)
(* A sample is the sequence of frames blended into it: what it was made    *)
(* of.  Frames are numbered from 1 in codestream order, keyframes from 0.   *)
(* The pixels of the image are those of one row, numbered from the left; a  *)
(* canvas is the image, or the part of it that the crop asks for.           *)
(***************************************************************************)
EXTENDS Integers, Sequences, FiniteSets

CONSTANTS
  Animations,     \* the animated codestreams an application may have
  Width,          \* pixels of the image
  Crops,          \* the crops an application may set, besides the whole image
  MaxCalls        \* bound: calls of jxl_decoder_render_keyframe in a session

Slots == 0 .. 3
Pixels == 1 .. Width

\* A part of the image: the pixels left + 1 .. left + width.
Region == [left : 0 .. Width, width : Pixels]
WholeImage == [left |-> 0, width |-> Width]

(* A frame: regular or reference-only; VarDCT or modular; whether it       *)
(* replaces or adds to what lies under it; the part of the image it        *)
(* covers; blending_info.source and save_as_reference; whether it has a    *)
(* duration; whether it is the last.                                       *)
Frame == [kind : {"regular", "refonly"}, encoding : {"vardct", "modular"},
          mode : {"replace", "add"}, region : SUBSET Pixels \ {{}},
          source : Slots, save : Slots, timed : BOOLEAN, last : BOOLEAN]

ASSUME AnimationsAssumption ==
  \A a \in Animations :
    /\ a \in Seq(Frame) /\ a # <<>>
    /\ \A n \in 1 .. Len(a) : a[n].last <=> n = Len(a)
    /\ a[Len(a)].kind = "regular"
    /\ \A n \in 1 .. Len(a) :
         a[n].kind = "refonly" => ~a[n].timed /\ \E w \in Pixels : a[n].region = 1 .. w

ASSUME CropsAssumption ==
  /\ Width \in Nat \ {0}
  /\ \A c \in Crops : c \in Region /\ c.left + c.width <= Width

ASSUME CallsAssumption == MaxCalls \in Nat

VARIABLES
  frames,           \* the animation (never changes)
  crop,             \* dec->crop, WholeImage while none was set
  refs,             \* dec->animation_refs: the reference slots
  chain_upto,       \* dec->animation_chain_upto, None for UINT32_MAX
  target,           \* the keyframe the application asked for
  at,               \* the keyframe being rendered for it
  surface,          \* the canvas it is drawn on: temp of ensure_animation_refs
                    \* for those rendered before the target, a fresh one for it
  call,             \* "idle" or "rendering"
  shown,            \* what the last successful call returned, for which crop,
                    \* and exact then
  calls,            \* calls so far
  exact             \* history: the slots follow the animation's order in the
                    \* pixels 1 .. exact

animationVars == <<frames, crop, refs, chain_upto, target, at, surface, call,
                   shown, calls, exact>>

None == -1
Blank == [p \in Pixels |-> <<>>]
NoImage == [valid |-> FALSE, px |-> Blank]
EmptyStore == [s \in Slots |-> NoImage]

-----------------------------------------------------------------------------
(* Frame headers *)

IsKeyframe(f) == f.kind = "regular" /\ (f.last \/ f.timed)
CanReference(f) == ~f.last /\ (~f.timed \/ f.save # 0)
ResetsCanvas(f) == f.kind # "regular" \/ (f.mode = "replace" /\ f.region = Pixels)

Keyframes == {n \in 1 .. Len(frames) : IsKeyframe(frames[n])}
NumKeyframes == Cardinality(Keyframes)

\* jxl_frame_parse_nth_keyframe
KeyAt(k) == CHOOSE n \in Keyframes : Cardinality({m \in Keyframes : m < n}) = k

-----------------------------------------------------------------------------
(* Compositing *)

Replaces(f) == ResetsCanvas(f) \/ f.mode = "replace"

\* The image's pixel at place c of a canvas for the region r of the image.
PixelAt(c, r) == c + r.left

\* Frame n of the animation over the samples under, onto a canvas for r.
Paint(n, under, canvas, r) ==
  [c \in Pixels |->
     CASE c > r.width \/ PixelAt(c, r) \notin frames[n].region -> canvas[c]
       [] c <= r.width /\ PixelAt(c, r) \in frames[n].region /\ Replaces(frames[n]) -> <<n>>
       [] OTHER -> Append(under[c], n)]

\* jxl_ref_image_from_canvas: only the frame's own region is kept.  The place
\* on the canvas is taken for the pixel of the image.
ImageOf(n, canvas) ==
  [valid |-> TRUE, px |-> [p \in Pixels |-> IF p \in frames[n].region THEN canvas[p] ELSE <<>>]]

Save(n, canvas, store) ==
  IF CanReference(frames[n]) THEN [store EXCEPT ![frames[n].save] = ImageOf(n, canvas)]
  ELSE store

\* The slot's image is released before its successor is allocated.
LoseSlot(n, store) ==
  IF CanReference(frames[n]) THEN [store EXCEPT ![frames[n].save] = NoImage] ELSE store

\* What a blending frame lies on, by places of the canvas: its source slot, or
\* what the canvas holds if the slot is empty (sample_base_for_blend).
Source(n, store, canvas, r) ==
  LET slot == store[frames[n].source]
  IN  IF slot.valid
      THEN [c \in Pixels |-> IF PixelAt(c, r) \in Pixels THEN slot.px[PixelAt(c, r)] ELSE <<>>]
      ELSE canvas

-----------------------------------------------------------------------------
(* One keyframe, drawn on a canvas: VarDCT frames are decoded alone, modular *)
(* ones by replaying the codestream from its first frame onto the canvas.    *)

Drawing(canvas, store) == [canvas |-> canvas, refs |-> store]

DrawVardct(n, store, canvas, r) ==
  LET painted == Paint(n, Source(n, store, canvas, r), canvas, r)
  IN  Drawing(painted, Save(n, painted, store))

ReplayFrameOnSource(n, d, r) ==
  LET canvas == Paint(n, Source(n, d.refs, d.canvas, r), d.canvas, r)
  IN  Drawing(canvas, Save(n, canvas, d.refs))

ReplayFrame(n, d, r) ==
  LET canvas == Paint(n, d.canvas, d.canvas, r) IN Drawing(canvas, Save(n, canvas, d.refs))

\* The drawing after the first n frames.
Replay(store, canvas, r) ==
  LET after[n \in 0 .. Len(frames)] ==
        IF n = 0 THEN Drawing(canvas, store) ELSE ReplayFrame(n, after[n - 1], r)
  IN  after

\* The frames that rendering the keyframe at n composes, and the state of the
\* slots in front of each of them.
Composed(n) == IF frames[n].encoding = "modular" THEN 1 .. n ELSE {n}
StoreBefore(m, n, store, canvas) ==
  IF frames[n].encoding = "modular" THEN Replay(store, canvas, crop)[m - 1].refs ELSE store

\* "modular render requires modular frames"
Unsupported(m, n) == frames[n].encoding = "modular" /\ frames[m].encoding = "vardct"
Renderable(n) == \A m \in Composed(n) : ~Unsupported(m, n)

Draw(n, store, canvas, r) ==
  IF frames[n].encoding = "modular" THEN Replay(store, canvas, r)[n]
  ELSE DrawVardct(n, store, canvas, r)

\* Whether what the canvas held before can get into a slot: through an empty
\* source, or where a replay adds before it replaced.
Covers(f) == Replaces(f) /\ f.region = Pixels
ReadsCanvas(n, store) ==
  IF frames[n].encoding = "modular" THEN ~Covers(frames[1])
  ELSE CanReference(frames[n]) /\ ~Replaces(frames[n]) /\ ~store[frames[n].source].valid

-----------------------------------------------------------------------------
(* A call of jxl_decoder_render_keyframe *)

AnimationInit ==
  /\ frames \in Animations /\ crop = WholeImage
  /\ refs = EmptyStore /\ chain_upto = None
  /\ target = 0 /\ at = 0 /\ surface = Blank /\ call = "idle"
  /\ shown = [k |-> None, px |-> Blank, crop |-> WholeImage, exact |-> Width]
  /\ calls = 0 /\ exact = Width

\* jxl_decoder_set_crop: the slots stay.
SetCrop(r) ==
  /\ call = "idle"
  /\ crop' = r
  /\ UNCHANGED <<frames, refs, chain_upto, target, at, surface, call, shown, calls, exact>>

\* The cache cannot go back: an earlier keyframe starts it afresh.
Behind(k) == chain_upto # None /\ k < chain_upto

FirstOfChainAgain(chain) == IF chain = None THEN 0 ELSE chain
FirstOfChain(chain) == IF chain = None THEN 0 ELSE chain + 1

CatchUpFromPast(k, chain) ==
  IF ~ResetsCanvas(frames[KeyAt(k)]) THEN FirstOfChain(chain) ELSE k

\* ensure_animation_refs: the keyframes to render before k.
CatchUpFrom(k, chain) ==
  IF ~ResetsCanvas(frames[KeyAt(k)]) /\ FirstOfChain(chain) < k THEN FirstOfChain(chain) ELSE k

\* Rendering a keyframe that feeds on the slot it writes once more, or leaving
\* keyframes out because the one asked for resets the canvas.
FeedsItself(f) ==
  f.encoding = "vardct" /\ ~Replaces(f) /\ CanReference(f) /\ f.source = f.save
OutOfLine(k, chain) ==
  \/ k = chain /\ FeedsItself(frames[KeyAt(k)])
  \/ CatchUpFrom(k, chain) = k /\ FirstOfChain(chain) < k

\* Slots saved under a crop hold its pixels only, and those of another place
\* unless the crop begins at the first pixel.
Exact(k, chain) ==
  LET before == IF Behind(k) THEN Width ELSE exact
  IN  IF OutOfLine(k, chain) \/ crop.left # 0 THEN 0
      ELSE IF crop.width < before THEN crop.width ELSE before

RenderCallKeepingRefs(k) ==
  /\ call = "idle" /\ calls < MaxCalls
  /\ chain_upto' = IF Behind(k) THEN None ELSE chain_upto
  /\ target' = k
  /\ at' = CatchUpFrom(k, chain_upto')
  /\ surface' = Blank
  /\ call' = "rendering"
  /\ calls' = calls + 1
  /\ exact' = Exact(k, chain_upto')
  /\ UNCHANGED <<frames, crop, refs, shown>>

RenderCall(k) ==
  /\ call = "idle" /\ calls < MaxCalls
  /\ refs' = IF Behind(k) THEN EmptyStore ELSE refs
  /\ chain_upto' = IF Behind(k) THEN None ELSE chain_upto
  /\ target' = k
  /\ at' = CatchUpFrom(k, chain_upto')
  /\ surface' = Blank
  /\ call' = "rendering"
  /\ calls' = calls + 1
  /\ exact' = Exact(k, chain_upto')
  /\ UNCHANGED <<frames, crop, shown>>

\* jxl_render_display_keyframe_inner: the keyframe and its slot, then the chain.
Rendered ==
  /\ call = "rendering"
  /\ Renderable(KeyAt(at))
  /\ refs' = Draw(KeyAt(at), refs, surface, crop).refs
  /\ chain_upto' = at
  /\ UNCHANGED <<frames, crop, target, calls>>

\* The keyframes before the target share a canvas that is never cleared: from
\* the second one on, a slot may be saved with the picture of another in it.
CatchUp ==
  /\ at < target
  /\ Rendered
  /\ at' = at + 1
  /\ surface' = IF at' < target THEN Draw(KeyAt(at), refs, surface, crop).canvas ELSE Blank
  /\ exact' = IF surface # Blank /\ ReadsCanvas(KeyAt(at), refs) THEN 0 ELSE exact
  /\ UNCHANGED <<call, shown>>

Show ==
  /\ at = target
  /\ Rendered
  /\ shown' = [k |-> target, px |-> Draw(KeyAt(at), refs, surface, crop).canvas,
               crop |-> crop, exact |-> exact]
  /\ call' = "idle"
  /\ UNCHANGED <<at, surface, exact>>

\* A call that fails in a replay leaves the slots as they were in front of one
\* of its frames.  The next one in line makes up for it: no keyframe of the
\* chain is rendered from them before it is replayed to the end.
ReplayAhead(chain) ==
  LET k == FirstOfChain(chain)
  IN  k < NumKeyframes /\ frames[KeyAt(k)].encoding = "modular" /\ Renderable(KeyAt(k))
RetryRepairs == at = FirstOfChain(chain_upto) /\ ReplayAhead(chain_upto)
ExactAfterFailure == IF refs' = refs \/ RetryRepairs THEN exact ELSE 0

\* A frame fails to decode, or memory runs out, in front of composing frame m;
\* the slots keep what the frames before it saved.  The chain stays.
FailBefore(m) ==
  /\ call = "rendering"
  /\ m \in Composed(KeyAt(at))
  /\ \A i \in Composed(KeyAt(at)) : i < m => ~Unsupported(i, KeyAt(at))
  /\ refs' = StoreBefore(m, KeyAt(at), refs, surface)
  /\ surface' = Blank
  /\ call' = "idle"
  /\ exact' = ExactAfterFailure
  /\ UNCHANGED <<frames, crop, chain_upto, target, at, shown, calls>>

\* Memory runs out while frame m is saved.
FailSaving(m) ==
  /\ call = "rendering"
  /\ m \in Composed(KeyAt(at))
  /\ \A i \in Composed(KeyAt(at)) : i <= m => ~Unsupported(i, KeyAt(at))
  /\ CanReference(frames[m])
  /\ refs' = LoseSlot(m, StoreBefore(m, KeyAt(at), refs, surface))
  /\ surface' = Blank
  /\ call' = "idle"
  /\ exact' = ExactAfterFailure
  /\ UNCHANGED <<frames, crop, chain_upto, target, at, shown, calls>>

\* The frames are composed and saved, and a modular keyframe's last stages fail.
FailComposed ==
  /\ call = "rendering"
  /\ frames[KeyAt(at)].encoding = "modular" /\ Renderable(KeyAt(at))
  /\ refs' = Draw(KeyAt(at), refs, surface, crop).refs
  /\ surface' = Blank
  /\ call' = "idle"
  /\ UNCHANGED <<frames, crop, chain_upto, target, at, shown, calls, exact>>

\* The keyframe is rendered and counted, and the call fails to hand it out.
FailShowing ==
  /\ at = target
  /\ Rendered
  /\ call' = "idle"
  /\ UNCHANGED <<at, surface, shown, exact>>

AnimationNext ==
  \/ \E k \in 0 .. NumKeyframes - 1 : RenderCall(k)
  \/ \E r \in Crops : SetCrop(r)
  \/ CatchUp \/ Show
  \/ FailComposed \/ FailShowing
  \/ \E m \in 1 .. Len(frames) : FailBefore(m) \/ FailSaving(m)

AnimationSpec == AnimationInit /\ [][AnimationNext]_animationVars

-----------------------------------------------------------------------------
(* Properties *)

\* The drawings of keyframes 0, 1, ... rendered once each on a fresh decoder
\* without a crop.
InOrder ==
  LET seq[k \in -1 .. NumKeyframes - 1] ==
        IF k = -1 THEN Drawing(Blank, EmptyStore)
        ELSE Draw(KeyAt(k), seq[k - 1].refs, Blank, WholeImage)
  IN  seq

\* The part r of a picture.
Cut(picture, r) ==
  [c \in Pixels |-> IF c <= r.width THEN picture[PixelAt(c, r)] ELSE <<>>]

AnimationTypeOK ==
  /\ frames \in Animations /\ crop \in Crops \cup {WholeImage}
  /\ \A s \in Slots : refs[s].valid \in BOOLEAN /\ DOMAIN refs[s].px = Pixels
  /\ chain_upto \in None .. NumKeyframes - 1
  /\ target \in 0 .. NumKeyframes - 1 /\ at \in 0 .. target /\ DOMAIN surface = Pixels
  /\ call \in {"idle", "rendering"}
  /\ shown.k \in None .. NumKeyframes - 1 /\ shown.crop \in Crops \cup {WholeImage}
  /\ calls \in 0 .. MaxCalls /\ exact \in 0 .. Width

\* Whatever keyframes were asked for before, forwards, backwards or again,
\* whatever calls failed to decode on the way, and whatever crops from the
\* first pixel on were set in between: the picture of a keyframe is the one it
\* has when the animation is played in order, in every pixel that all those
\* crops have, as long as no call rendered out of line (OutOfLine) and none
\* caught up on a keyframe that reads the canvas of another (ReadsCanvas).
PlaysInOrder ==
  shown.k # None =>
    \A p \in 1 .. shown.exact : shown.px[p] = InOrder[shown.k].canvas[p]

\* The cache never gets ahead of its index or behind it: between calls, the
\* slots hold what the keyframes up to chain_upto saved, in the pixels that
\* every crop had.
RefsFollowChain ==
  exact > 0 /\ ~ReplayAhead(chain_upto) =>
    \A s \in Slots :
      /\ refs[s].valid = InOrder[chain_upto].refs[s].valid
      /\ \A p \in 1 .. exact : refs[s].px[p] = InOrder[chain_upto].refs[s].px[p]

\* A modular keyframe is composed from its codestream alone: no earlier call,
\* failure, slot or crop shows in it, in or out of line, and under a crop it
\* is that part of the whole picture.
ModularHistoryFree ==
  shown.k # None /\ frames[KeyAt(shown.k)].encoding = "modular" =>
    shown.px = Cut(InOrder[shown.k].canvas, shown.crop)

\* What the header says of jxl_decoder_render_keyframe: it renders the given
\* index, whichever indices were rendered before.
AnyIndex == shown.k # None => shown.px = InOrder[shown.k].canvas

\* What the conformance tests say of a crop: each keyframe of an animation
\* played under it is that part of the keyframe rendered whole.
CropMatchesFull == shown.k # None => shown.px = Cut(InOrder[shown.k].canvas, shown.crop)

\* What the plan says of animations: each frame is blended on its source slot,
\* and no frame that fills a slot is skipped.
PlannedStore ==
  LET after[n \in 0 .. Len(frames)] ==
        IF n = 0 THEN EmptyStore ELSE DrawVardct(n, after[n - 1], Blank, WholeImage).refs
  IN  after
NoFrameSkipped ==
  shown.exact = Width /\ shown.k # None =>
    shown.px =
      DrawVardct(KeyAt(shown.k), PlannedStore[KeyAt(shown.k) - 1], Blank, WholeImage).canvas
=============================================================================
