------------------------ MODULE AnimationRender_proofs ------------------------
(***************************************************************************)
(* Of every animation, of any number of frames of any kinds over an image  *)
(* of any width, whatever keyframes are asked for under whatever crops and *)
(* wherever a call fails: what the slots and the pictures handed out have  *)
(* to do with those of the animation played in order.                      *)
(***************************************************************************)
EXTENDS AnimationRender, FunctionTheorems, FiniteSetTheorems, SequenceTheorems,
        WellFoundedInduction, TLAPS

L == Len(frames)
K == NumKeyframes

Canvas == [Pixels -> Seq(Nat)]
Image == [valid : BOOLEAN, px : Canvas]
Store == [Slots -> Image]
Picture == [canvas : Canvas, refs : Store]
Parts == {r \in Region : r.left + r.width <= Width}

-----------------------------------------------------------------------------
(* Counting *)

\* What holds of 0, and of a number's successor when it holds of the number.
LEMMA CountingUp ==
  ASSUME NEW n \in Nat, NEW T \in SUBSET Nat, 0 \in T,
         \A i \in 0 .. n - 1 : i \in T => i + 1 \in T
  PROVE  \A i \in 0 .. n : i \in T
  <1> DEFINE R == OpToRel(<, Nat)
             Missing == (0 .. n) \ T
  <1> SUFFICES ASSUME Missing # {} PROVE FALSE
    OBVIOUS
  <1>1. IsWellFoundedOn(R, Nat)
    BY NatLessThanWellFounded
  <1>2. \A x, y \in Nat : x < y => <<x, y>> \in R
    BY DEF OpToRel
  <1>3. Missing \subseteq Nat
    OBVIOUS
  <1> HIDE DEF R, Missing
  <1>4. PICK x \in Missing : \A y \in Missing : ~(<<y, x>> \in R)
    BY <1>1, <1>3, WFMin
  <1> USE DEF Missing
  <1>5. x \in Nat /\ x # 0 /\ x <= n
    OBVIOUS
  <1>6. x - 1 \in 0 .. n - 1 /\ x - 1 < x /\ (x - 1) + 1 = x /\ x - 1 \in Nat
    BY <1>5
  <1>7. x - 1 \in Missing
    BY <1>5, <1>6
  <1> QED
    BY <1>2, <1>4, <1>5, <1>6, <1>7

\* n steps can be taken one after the other.
Walk(f, n, V, v, step) ==
  f \in [0 .. n -> V] /\ f[0] = v /\ \A i \in 1 .. n : f[i] = step[i][f[i - 1]]

LEMMA Recursion ==
  ASSUME NEW n \in Nat, NEW V, NEW v \in V, NEW step \in [1 .. n -> [V -> V]]
  PROVE  \E f : Walk(f, n, V, v, step)
  <1> DEFINE Follows(f, m) == f[0] = v /\ \A i \in 1 .. m : f[i] = step[i][f[i - 1]]
             T == {m \in 0 .. n : \E f \in [0 .. m -> V] : Follows(f, m)}
  <1>1. 0 \in T
    <2> DEFINE g == [i \in 0 .. 0 |-> v]
    <2>1. g \in [0 .. 0 -> V] /\ g[0] = v /\ 0 \in 0 .. n /\ 1 .. 0 = {}
      OBVIOUS
    <2> HIDE DEF g
    <2> QED
      BY <2>1
  <1>2. ASSUME NEW m \in 0 .. n - 1, m \in T PROVE m + 1 \in T
    <2>1. PICK f \in [0 .. m -> V] : Follows(f, m)
      BY <1>2
    <2> DEFINE g == [i \in 0 .. m + 1 |-> IF i <= m THEN f[i] ELSE step[m + 1][f[m]]]
    <2>2. m \in Nat /\ m + 1 \in 1 .. n /\ m + 1 \in 0 .. n /\ m \in 0 .. m
      OBVIOUS
    <2>3. step[m + 1][f[m]] \in V
      BY <2>2
    <2>4. g \in [0 .. m + 1 -> V]
      BY <2>2, <2>3
    <2>5. g[0] = v
      BY <2>1, <2>2
    <2>6. ASSUME NEW i \in 1 .. m + 1 PROVE g[i] = step[i][g[i - 1]]
      <3>1. i - 1 \in 0 .. m /\ g[i - 1] = f[i - 1]
        BY <2>2
      <3>2. CASE i <= m
        BY <2>1, <2>2, <3>1, <3>2
      <3>3. CASE ~(i <= m)
        <4>1. i = m + 1 /\ i - 1 = m
          BY <2>2, <3>3
        <4> QED
          BY <2>2, <3>1, <4>1
      <3> QED
        BY <3>2, <3>3
    <2> HIDE DEF g
    <2> QED
      BY <2>2, <2>4, <2>5, <2>6
  <1> HIDE DEF T
  <1>3. T \in SUBSET Nat
    BY DEF T
  <1>4. n \in T
    <2>1. \A i \in 0 .. n - 1 : i \in T => i + 1 \in T
      BY <1>2
    <2>2. \A i \in 0 .. n : i \in T
      BY <1>1, <1>3, <2>1, CountingUp
    <2> QED
      BY <2>2
  <1> QED
    BY <1>4 DEF T, Walk

-----------------------------------------------------------------------------
(* Frames and keyframes *)

LEMMA FramesTyped ==
  ASSUME frames \in Animations
  PROVE  /\ L \in Nat \ {0} /\ frames \in Seq(Frame)
         /\ \A n \in 1 .. L :
              /\ frames[n] \in Frame /\ n \in Nat
              /\ frames[n].save \in Slots /\ frames[n].source \in Slots
              /\ frames[n].region \subseteq Pixels
              /\ frames[n].encoding \in {"vardct", "modular"}
         /\ L \in Keyframes
  <1>1. frames \in Seq(Frame) /\ frames # <<>>
    BY AnimationsAssumption
  <1>2. L \in Nat \ {0}
    BY <1>1, EmptySeq DEF L
  <1>3. \A n \in 1 .. L : frames[n] \in Frame
    BY <1>1, ElementOfSeq DEF L
  <1>4. frames[L].kind = "regular" /\ frames[L].last
    BY <1>2, AnimationsAssumption DEF L
  <1>5. L \in Keyframes
    BY <1>2, <1>4 DEF Keyframes, IsKeyframe, L
  <1>6. ASSUME NEW n \in 1 .. L
        PROVE  /\ frames[n].save \in Slots /\ frames[n].source \in Slots
               /\ frames[n].region \subseteq Pixels
               /\ frames[n].encoding \in {"vardct", "modular"}
    BY <1>3 DEF Frame
  <1> QED
    BY <1>1, <1>2, <1>3, <1>5, <1>6

LEMMA PartsTyped ==
  /\ Width \in Nat \ {0} /\ WholeImage \in Parts /\ Crops \subseteq Parts
  /\ \A r \in Parts : /\ r.left \in Nat /\ r.width \in Nat /\ r.width \in Pixels
                      /\ r.left + r.width <= Width
  BY CropsAssumption DEF Parts, Region, WholeImage, Pixels

Before(n) == {m \in Keyframes : m < n}

LEMMA KeyframesFinite ==
  ASSUME frames \in Animations
  PROVE  /\ Keyframes \subseteq 1 .. L /\ IsFiniteSet(Keyframes) /\ K \in Nat \ {0}
         /\ \A n \in Keyframes :
              /\ IsFiniteSet(Before(n)) /\ Cardinality(Before(n)) \in 0 .. K - 1
              /\ \A m \in Keyframes : m < n =>
                   Cardinality(Before(m)) < Cardinality(Before(n))
  <1>1. L \in Nat /\ L \in Keyframes /\ Keyframes \subseteq 1 .. L
    BY FramesTyped DEF Keyframes, L
  <1>2. IsFiniteSet(Keyframes)
    <2>1. IsFiniteSet(1 .. L) /\ Keyframes \in SUBSET (1 .. L)
      BY <1>1, FS_Interval
    <2> QED
      BY <2>1, FS_Subset
  <1>3. K \in Nat \ {0}
    BY <1>1, <1>2, FS_CardinalityType, FS_EmptySet DEF NumKeyframes, K
  <1>4. ASSUME NEW n \in Keyframes
        PROVE  IsFiniteSet(Before(n)) /\ Cardinality(Before(n)) \in 0 .. K - 1
    <2>1. Before(n) \subseteq Keyframes /\ n \notin Before(n)
      BY <1>1 DEF Before
    <2>2. /\ IsFiniteSet(Before(n)) /\ Cardinality(Before(n)) <= K
          /\ Cardinality(Before(n)) # K
      <3>1. Before(n) \in SUBSET Keyframes /\ Before(n) # Keyframes
        BY <2>1
      <3> QED
        BY <1>2, <3>1, FS_Subset DEF NumKeyframes, K
    <2>3. Cardinality(Before(n)) \in Nat
      BY <2>2, FS_CardinalityType
    <2> QED
      BY <1>3, <2>2, <2>3
  <1>5. ASSUME NEW n \in Keyframes, NEW m \in Keyframes, m < n
        PROVE  Cardinality(Before(m)) < Cardinality(Before(n))
    <2>1. Before(m) \subseteq Before(n) /\ m \in Before(n) /\ m \notin Before(m)
      <3>1. m \in Nat /\ n \in Nat /\ \A i \in Keyframes : i \in Nat
        BY <1>1
      <3>2. \A i \in Keyframes : i < m => i < n
        BY <1>5, <3>1
      <3>3. ~(m < m)
        BY <3>1
      <3> QED
        BY <1>5, <3>2, <3>3 DEF Before
    <2>2. IsFiniteSet(Before(n)) /\ IsFiniteSet(Before(m))
      BY <1>4
    <2>3. /\ Cardinality(Before(m)) <= Cardinality(Before(n))
          /\ Cardinality(Before(m)) # Cardinality(Before(n))
      BY <2>1, <2>2, FS_Subset
    <2>4. Cardinality(Before(m)) \in Nat /\ Cardinality(Before(n)) \in Nat
      BY <2>2, FS_CardinalityType
    <2> QED
      BY <2>3, <2>4
  <1> QED
    BY <1>1, <1>2, <1>3, <1>4, <1>5

\* jxl_frame_parse_nth_keyframe finds each keyframe, and finds them in order.
LEMMA KeyframesInOrder ==
  ASSUME frames \in Animations
  PROVE  /\ \A k \in 0 .. K - 1 : KeyAt(k) \in Keyframes /\ KeyAt(k) \in 1 .. L
         /\ \A j, k \in 0 .. K - 1 : j < k => KeyAt(j) < KeyAt(k)
  <1> DEFINE count == [n \in Keyframes |-> Cardinality(Before(n))]
             Counts == 0 .. K - 1
  <1>1. /\ Keyframes \subseteq 1 .. L /\ IsFiniteSet(Keyframes) /\ K \in Nat \ {0} /\ L \in Nat
        /\ \A n \in Keyframes : Cardinality(Before(n)) \in Counts
        /\ \A m, n \in Keyframes : m < n => Cardinality(Before(m)) < Cardinality(Before(n))
    BY KeyframesFinite, FramesTyped
  <1>2. count \in [Keyframes -> Counts]
    BY <1>1
  <1>3. \A m, n \in Keyframes : count[m] = count[n] => m = n
    <2>1. ASSUME NEW m \in Keyframes, NEW n \in Keyframes, m # n PROVE count[m] # count[n]
      <3>1. m \in Nat /\ n \in Nat /\ (m < n \/ n < m)
        BY <1>1, <2>1
      <3>2. count[m] < count[n] \/ count[n] < count[m]
        BY <1>1, <3>1
      <3>3. count[m] \in Nat /\ count[n] \in Nat
        BY <1>1
      <3> QED
        BY <3>2, <3>3
    <2> QED
      BY <2>1
  <1>4. IsFiniteSet(Counts) /\ Cardinality(Counts) = K
    BY <1>1, FS_Interval
  <1>5. count \in Injection(Keyframes, Counts)
    BY <1>2, <1>3 DEF Injection, IsInjective
  <1>6. Cardinality(Keyframes) = Cardinality(Counts)
    BY <1>4 DEF NumKeyframes, K
  <1>7. count \in Surjection(Keyframes, Counts)
    BY <1>4, <1>5, <1>6, FS_Injection
  <1>8. \A k \in Counts : \E n \in Keyframes : count[n] = k
    BY <1>7 DEF Surjection
  <1>9. ASSUME NEW k \in Counts
        PROVE  KeyAt(k) \in Keyframes /\ Cardinality(Before(KeyAt(k))) = k
    <2>1. \E n \in Keyframes : Cardinality(Before(n)) = k
      BY <1>8
    <2>2. KeyAt(k) = CHOOSE n \in Keyframes : Cardinality(Before(n)) = k
      BY DEF KeyAt, Before
    <2> QED
      BY <2>1, <2>2
  <1>10. ASSUME NEW j \in Counts, NEW k \in Counts, j < k PROVE KeyAt(j) < KeyAt(k)
    <2>1. /\ KeyAt(j) \in Keyframes /\ Cardinality(Before(KeyAt(j))) = j
          /\ KeyAt(k) \in Keyframes /\ Cardinality(Before(KeyAt(k))) = k
      BY <1>9
    <2>2. KeyAt(j) \in Nat /\ KeyAt(k) \in Nat /\ j \in Nat /\ k \in Nat
      <3>1. \A i \in Keyframes : i \in Nat
        BY <1>1
      <3>2. KeyAt(j) \in Nat /\ KeyAt(k) \in Nat
        BY <2>1, <3>1
      <3> QED
        BY <1>1, <3>2
    <2>3. KeyAt(k) # KeyAt(j) /\ ~(KeyAt(k) < KeyAt(j))
      BY <1>1, <1>10, <2>1, <2>2
    <2> QED
      BY <2>2, <2>3
  <1> QED
    BY <1>1, <1>9, <1>10

-----------------------------------------------------------------------------
(* Drawings *)

LEMMA BlankTyped == Blank \in Canvas /\ EmptyStore \in Store
  <1>1. <<>> \in Seq(Nat)
    BY EmptySeq
  <1> QED
    BY <1>1 DEF Blank, Canvas, EmptyStore, Store, NoImage, Image

LEMMA PaintTyped ==
  ASSUME frames \in Animations, NEW n \in 1 .. L, NEW u \in Canvas, NEW c \in Canvas, NEW r
  PROVE  Paint(n, u, c, r) \in Canvas
  <1>1. n \in Nat
    BY FramesTyped
  <1>2. <<n>> \in Seq(Nat)
    BY <1>1
  <1>3. \A p \in Pixels : /\ u[p] \in Seq(Nat) /\ c[p] \in Seq(Nat)
                          /\ Append(u[p], n) \in Seq(Nat)
    <2>1. ASSUME NEW p \in Pixels
          PROVE  u[p] \in Seq(Nat) /\ c[p] \in Seq(Nat) /\ Append(u[p], n) \in Seq(Nat)
      <3>1. u[p] \in Seq(Nat) /\ c[p] \in Seq(Nat)
        BY DEF Canvas
      <3> QED
        BY <1>1, <3>1, AppendProperties
    <2> QED
      BY <2>1
  <1>4. \A p \in Pixels : Paint(n, u, c, r)[p] \in {c[p], <<n>>, Append(u[p], n)}
    BY DEF Paint
  <1>5. Paint(n, u, c, r) = [p \in Pixels |-> Paint(n, u, c, r)[p]]
    BY DEF Paint
  <1> HIDE DEF Paint
  <1>6. \A p \in Pixels : Paint(n, u, c, r)[p] \in Seq(Nat)
    BY <1>2, <1>3, <1>4
  <1> QED
    BY <1>5, <1>6 DEF Canvas

LEMMA SourceTyped ==
  ASSUME frames \in Animations, NEW n \in 1 .. L, NEW store \in Store,
         NEW canvas \in Canvas, NEW r
  PROVE  Source(n, store, canvas, r) \in Canvas
  <1>1. <<>> \in Seq(Nat)
    BY EmptySeq
  <1>2. store[frames[n].source].px \in Canvas
    BY FramesTyped DEF Store, Image
  <1> QED
    BY <1>1, <1>2 DEF Source, Canvas

LEMMA SaveTyped ==
  ASSUME frames \in Animations, NEW n \in 1 .. L, NEW store \in Store, NEW c \in Canvas
  PROVE  /\ Save(n, c, store) \in Store /\ LoseSlot(n, store) \in Store
         /\ ImageOf(n, c) \in Image
  <1>1. <<>> \in Seq(Nat) /\ NoImage \in Image
    BY EmptySeq, BlankTyped DEF NoImage, Image
  <1>2. ImageOf(n, c) \in Image
    BY <1>1 DEF ImageOf, Image, Canvas
  <1>3. frames[n].save \in Slots
    BY FramesTyped
  <1> QED
    BY <1>1, <1>2, <1>3 DEF Save, LoseSlot, Store

LEMMA DrawVardctTyped ==
  ASSUME frames \in Animations, NEW n \in 1 .. L, NEW store \in Store,
         NEW canvas \in Canvas, NEW r
  PROVE  /\ DrawVardct(n, store, canvas, r) \in Picture
         /\ DrawVardct(n, store, canvas, r).canvas = Paint(n, Source(n, store, canvas, r), canvas, r)
         /\ DrawVardct(n, store, canvas, r).refs
              = Save(n, Paint(n, Source(n, store, canvas, r), canvas, r), store)
  <1> DEFINE c == Paint(n, Source(n, store, canvas, r), canvas, r)
  <1>1. c \in Canvas
    BY SourceTyped, PaintTyped
  <1>2. Save(n, c, store) \in Store
    BY <1>1, SaveTyped
  <1>3. DrawVardct(n, store, canvas, r) = [canvas |-> c, refs |-> Save(n, c, store)]
    BY DEF DrawVardct, Drawing
  <1> QED
    BY <1>1, <1>2, <1>3 DEF Picture

LEMMA ReplayFrameTyped ==
  ASSUME frames \in Animations, NEW n \in 1 .. L, NEW d \in Picture, NEW r
  PROVE  /\ ReplayFrame(n, d, r) \in Picture
         /\ ReplayFrame(n, d, r).canvas = Paint(n, d.canvas, d.canvas, r)
         /\ ReplayFrame(n, d, r).refs = Save(n, Paint(n, d.canvas, d.canvas, r), d.refs)
  <1> DEFINE c == Paint(n, d.canvas, d.canvas, r)
  <1>1. d.canvas \in Canvas /\ d.refs \in Store
    BY DEF Picture
  <1>2. c \in Canvas
    BY <1>1, PaintTyped
  <1>3. Save(n, c, d.refs) \in Store
    BY <1>1, <1>2, SaveTyped
  <1>4. ReplayFrame(n, d, r) = [canvas |-> c, refs |-> Save(n, c, d.refs)]
    BY DEF ReplayFrame, Drawing
  <1> QED
    BY <1>2, <1>3, <1>4 DEF Picture

LEMMA ReplayUnfolds ==
  ASSUME frames \in Animations, NEW store \in Store, NEW canvas \in Canvas, NEW r
  PROVE  /\ Replay(store, canvas, r) \in [0 .. L -> Picture]
         /\ Replay(store, canvas, r)[0] = Drawing(canvas, store)
         /\ \A n \in 1 .. L : Replay(store, canvas, r)[n] = ReplayFrame(n, Replay(store, canvas, r)[n - 1], r)
  <1> DEFINE turn == [n \in 1 .. L |-> [d \in Picture |-> ReplayFrame(n, d, r)]]
             first == Drawing(canvas, store)
  <1>1. L \in Nat
    BY FramesTyped
  <1>2. first \in Picture
    BY DEF Drawing, Picture
  <1>3. turn \in [1 .. L -> [Picture -> Picture]]
    BY ReplayFrameTyped
  <1>4. PICK f \in [0 .. L -> Picture] :
          f[0] = first /\ \A n \in 1 .. L : f[n] = turn[n][f[n - 1]]
    <2> HIDE DEF turn, first
    <2>1. \E f : Walk(f, L, Picture, first, turn)
      BY <1>1, <1>2, <1>3, Recursion
    <2> QED
      BY <2>1 DEF Walk
  <1> DEFINE g == [n \in 0 .. Len(frames) |->
                     IF n = 0 THEN first ELSE ReplayFrame(n, f[n - 1], r)]
  <1>5. f = g
    <2>1. ASSUME NEW n \in 0 .. L PROVE f[n] = g[n]
      <3>1. CASE n = 0
        BY <1>4, <3>1 DEF L
      <3>2. CASE n # 0
        <4>1. n \in 1 .. L /\ n - 1 \in 0 .. L
          BY <1>1, <3>2
        <4>2. f[n - 1] \in Picture
          BY <4>1
        <4>3. f[n] = ReplayFrame(n, f[n - 1], r)
          BY <1>4, <4>1, <4>2
        <4> QED
          BY <3>2, <4>3 DEF L
      <3> QED
        BY <3>1, <3>2
    <2> QED
      BY <2>1 DEF L
  <1> HIDE DEF turn
  <1> DEFINE h == Replay(store, canvas, r)
  <1>6. h = [n \in 0 .. Len(frames) |->
               IF n = 0 THEN Drawing(canvas, store) ELSE ReplayFrame(n, h[n - 1], r)]
    BY <1>5, Zenon DEF Replay
  <1> HIDE DEF h
  <1>7. DOMAIN h = 0 .. L /\ h[0] = Drawing(canvas, store)
    BY <1>1, <1>6 DEF L
  <1>8. \A n \in 1 .. L : h[n] = ReplayFrame(n, h[n - 1], r)
    BY <1>1, <1>6 DEF L
  <1>9. \A n \in 0 .. L : h[n] \in Picture
    <2> DEFINE T == {n \in 0 .. L : h[n] \in Picture}
    <2>1. 0 \in T
      BY <1>1, <1>2, <1>7
    <2>2. ASSUME NEW n \in 0 .. L - 1, n \in T PROVE n + 1 \in T
      <3>1. n + 1 \in 1 .. L /\ n + 1 \in 0 .. L /\ (n + 1) - 1 = n
        BY <1>1
      <3>2. h[n + 1] = ReplayFrame(n + 1, h[n], r)
        BY <1>8, <3>1
      <3>3. h[n] \in Picture
        BY <2>2
      <3> QED
        BY <3>1, <3>2, <3>3, ReplayFrameTyped
    <2>3. T \in SUBSET Nat
      OBVIOUS
    <2> HIDE DEF T
    <2>4. \A n \in 0 .. L - 1 : n \in T => n + 1 \in T
      BY <2>2
    <2>5. \A n \in 0 .. L : n \in T
      BY <1>1, <2>1, <2>3, <2>4, CountingUp
    <2> QED
      BY <2>5 DEF T
  <1>10. h \in [0 .. L -> Picture]
    BY <1>6, <1>7, <1>9 DEF L
  <1> QED
    BY <1>7, <1>8, <1>10 DEF h

LEMMA DrawTyped ==
  ASSUME frames \in Animations, NEW n \in 1 .. L, NEW store \in Store,
         NEW canvas \in Canvas, NEW r
  PROVE  Draw(n, store, canvas, r) \in Picture
  <1>1. n \in 0 .. L
    BY FramesTyped
  <1>2. Replay(store, canvas, r)[n] \in Picture
    <2>1. Replay(store, canvas, r) \in [0 .. L -> Picture]
      BY ReplayUnfolds
    <2> QED
      BY <1>1, <2>1
  <1>3. DrawVardct(n, store, canvas, r) \in Picture
    BY DrawVardctTyped
  <1> QED
    BY <1>2, <1>3 DEF Draw

LEMMA InOrderUnfolds ==
  ASSUME frames \in Animations
  PROVE  /\ InOrder \in [-1 .. K - 1 -> Picture]
         /\ InOrder[-1] = Drawing(Blank, EmptyStore)
         /\ \A k \in 0 .. K - 1 :
              InOrder[k] = Draw(KeyAt(k), InOrder[k - 1].refs, Blank, WholeImage)
  <1> DEFINE turn == [i \in 1 .. K |-> [d \in Picture |-> Draw(KeyAt(i - 1), d.refs, Blank, WholeImage)]]
             first == Drawing(Blank, EmptyStore)
  <1>1. K \in Nat /\ K # 0 /\ \A k \in 0 .. K - 1 : KeyAt(k) \in 1 .. L
    BY KeyframesFinite, KeyframesInOrder
  <1>2. first \in Picture
    BY BlankTyped DEF Drawing, Picture
  <1>3. \A k \in 0 .. K - 1, d \in Picture : Draw(KeyAt(k), d.refs, Blank, WholeImage) \in Picture
    BY <1>1, BlankTyped, DrawTyped DEF Picture
  <1>4. turn \in [1 .. K -> [Picture -> Picture]]
    <2>1. ASSUME NEW i \in 1 .. K PROVE i - 1 \in 0 .. K - 1
      BY <1>1
    <2> QED
      BY <1>3, <2>1
  <1>5. PICK f \in [0 .. K -> Picture] :
          f[0] = first /\ \A i \in 1 .. K : f[i] = turn[i][f[i - 1]]
    <2> HIDE DEF turn, first
    <2>1. \E f : Walk(f, K, Picture, first, turn)
      BY <1>1, <1>2, <1>4, Recursion
    <2> QED
      BY <2>1 DEF Walk
  <1> DEFINE s == [k \in -1 .. K - 1 |-> f[k + 1]]
             g == [k \in -1 .. NumKeyframes - 1 |->
                     IF k = -1 THEN first ELSE Draw(KeyAt(k), s[k - 1].refs, Blank, WholeImage)]
  <1>6. s = g
    <2>1. ASSUME NEW k \in -1 .. K - 1 PROVE s[k] = g[k]
      <3>1. CASE k = -1
        BY <1>1, <1>5, <3>1 DEF K
      <3>2. CASE k # -1
        <4>1. /\ k + 1 \in 1 .. K /\ k \in 0 .. K /\ k - 1 \in -1 .. K - 1
              /\ (k + 1) - 1 = k /\ (k - 1) + 1 = k
          BY <1>1, <3>2
        <4>2. f[k] \in Picture /\ s[k - 1] = f[k] /\ s[k] = f[k + 1]
          BY <4>1
        <4>3. turn[k + 1] = [d \in Picture |-> Draw(KeyAt(k), d.refs, Blank, WholeImage)]
          BY <4>1
        <4>4. f[k + 1] = Draw(KeyAt(k), f[k].refs, Blank, WholeImage)
          <5> HIDE DEF turn
          <5> QED
            BY <1>5, <4>1, <4>2, <4>3
        <4> QED
          BY <3>2, <4>2, <4>4 DEF K
      <3> QED
        BY <3>1, <3>2
    <2> QED
      BY <2>1 DEF K
  <1>7. s \in [-1 .. K - 1 -> Picture]
    <2>1. ASSUME NEW k \in -1 .. K - 1 PROVE k + 1 \in 0 .. K
      BY <1>1
    <2> QED
      BY <2>1
  <1> HIDE DEF turn, s
  <1> DEFINE h == InOrder
  <1>8. h = [k \in -1 .. NumKeyframes - 1 |->
               IF k = -1 THEN Drawing(Blank, EmptyStore)
               ELSE Draw(KeyAt(k), h[k - 1].refs, Blank, WholeImage)]
    BY <1>6, Zenon DEF InOrder
  <1> HIDE DEF h
  <1>9. DOMAIN h = -1 .. K - 1 /\ h[-1] = Drawing(Blank, EmptyStore)
    BY <1>1, <1>8 DEF K
  <1>10. \A k \in 0 .. K - 1 : h[k] = Draw(KeyAt(k), h[k - 1].refs, Blank, WholeImage)
    BY <1>1, <1>8 DEF K
  <1>11. \A k \in -1 .. K - 1 : h[k] \in Picture
    <2> DEFINE T == {n \in 0 .. K : h[n - 1] \in Picture}
    <2>1. 0 \in T
      BY <1>1, <1>2, <1>9
    <2>2. ASSUME NEW n \in 0 .. K - 1, n \in T PROVE n + 1 \in T
      <3>1. n + 1 \in 0 .. K /\ (n + 1) - 1 = n
        BY <1>1
      <3>2. h[n - 1] \in Picture
        BY <2>2
      <3>3. h[n] \in Picture
        BY <1>3, <1>10, <3>2
      <3> QED
        BY <3>1, <3>3
    <2>3. T \in SUBSET Nat
      OBVIOUS
    <2> HIDE DEF T
    <2>4. \A n \in 0 .. K - 1 : n \in T => n + 1 \in T
      BY <2>2
    <2>5. \A n \in 0 .. K : n \in T
      BY <1>1, <2>1, <2>3, <2>4, CountingUp
    <2>6. ASSUME NEW k \in -1 .. K - 1 PROVE h[k] \in Picture
      <3>1. k + 1 \in 0 .. K /\ (k + 1) - 1 = k
        BY <1>1
      <3>2. h[(k + 1) - 1] \in Picture
        BY <2>5, <3>1 DEF T
      <3> QED
        BY <3>1, <3>2
    <2> QED
      BY <2>6
  <1>12. h \in [-1 .. K - 1 -> Picture]
    BY <1>8, <1>9, <1>11 DEF K
  <1> QED
    BY <1>9, <1>10, <1>12 DEF h

-----------------------------------------------------------------------------
(* What a frame does to pixels and slots, of two drawings *)

SlotAgrees(a, b, s, e) ==
  a[s].valid = b[s].valid /\ \A p \in 1 .. e : a[s].px[p] = b[s].px[p]

\* Slot s is saved by one of the first n frames.
SavedBy(n, s) == \E m \in 1 .. n : CanReference(frames[m]) /\ frames[m].save = s

\* What Paint does to a pixel that the canvas has.
Painted(n, under, c, p) ==
  IF p \notin frames[n].region THEN c
  ELSE IF Replaces(frames[n]) THEN <<n>> ELSE Append(under, n)

LEMMA PaintAt ==
  ASSUME NEW n, NEW u, NEW c, NEW r, r.width \in Nat, NEW p \in Pixels
  PROVE  Paint(n, u, c, r)[p] = IF p > r.width THEN c[p]
                                ELSE Painted(n, u[p], c[p], PixelAt(p, r))
  <1> DEFINE in == PixelAt(p, r) \in frames[n].region
             over == Replaces(frames[n])
  <1>1. Paint(n, u, c, r)[p] = CASE p > r.width \/ ~in -> c[p]
                                 [] p <= r.width /\ in /\ over -> <<n>>
                                 [] OTHER -> Append(u[p], n)
    BY DEF Paint
  <1>2. p \in Nat /\ (p <= r.width <=> ~(p > r.width))
    BY PartsTyped DEF Pixels
  <1> HIDE DEF in, over
  <1>3. Paint(n, u, c, r)[p] = IF p > r.width \/ ~in THEN c[p]
                               ELSE IF over THEN <<n>> ELSE Append(u[p], n)
    BY <1>1, <1>2
  <1> QED
    BY <1>3 DEF in, over, Painted

LEMMA PaintAgrees ==
  ASSUME NEW n, NEW r \in Parts, NEW q \in Parts, r.left = 0, q.left = 0,
         NEW e \in 0 .. Width, e <= r.width, e <= q.width,
         NEW u, NEW v, \A p \in 1 .. e : u[p] = v[p],
         NEW c, NEW d, \A p \in 1 .. e : c[p] = d[p]
  PROVE  \A p \in 1 .. e : Paint(n, u, c, r)[p] = Paint(n, v, d, q)[p]
  <1> SUFFICES ASSUME NEW p \in 1 .. e PROVE Paint(n, u, c, r)[p] = Paint(n, v, d, q)[p]
    OBVIOUS
  <1>1. r.width \in Nat /\ q.width \in Nat /\ Width \in Nat
    BY PartsTyped
  <1>2. p \in Pixels /\ ~(p > r.width) /\ ~(p > q.width) /\ p + 0 = p
    BY <1>1 DEF Pixels
  <1>3. PixelAt(p, r) = p /\ PixelAt(p, q) = p /\ p <= r.width /\ p <= q.width
    BY <1>1, <1>2 DEF PixelAt
  <1>4. u[p] = v[p] /\ c[p] = d[p]
    OBVIOUS
  <1>5. Paint(n, u, c, r)[p] = Painted(n, u[p], c[p], p)
    BY <1>1, <1>2, <1>3, PaintAt
  <1>6. Paint(n, v, d, q)[p] = Painted(n, v[p], d[p], p)
    BY <1>1, <1>2, <1>3, PaintAt
  <1> QED
    BY <1>4, <1>5, <1>6

LEMMA PaintCovers ==
  ASSUME NEW n, Covers(frames[n]), NEW r \in Parts, NEW q \in Parts, r.left = 0, q.left = 0,
         NEW e \in 0 .. Width, e <= r.width, e <= q.width, NEW u, NEW v, NEW c, NEW d
  PROVE  \A p \in 1 .. e : Paint(n, u, c, r)[p] = Paint(n, v, d, q)[p]
  <1> SUFFICES ASSUME NEW p \in 1 .. e PROVE Paint(n, u, c, r)[p] = Paint(n, v, d, q)[p]
    OBVIOUS
  <1>1. r.width \in Nat /\ q.width \in Nat /\ Width \in Nat
    BY PartsTyped
  <1>2. p \in Pixels /\ ~(p > r.width) /\ ~(p > q.width) /\ p + 0 = p
    BY <1>1 DEF Pixels
  <1>3. PixelAt(p, r) = p /\ PixelAt(p, q) = p
    BY <1>2 DEF PixelAt
  <1>4. Painted(n, u[p], c[p], p) = <<n>> /\ Painted(n, v[p], d[p], p) = <<n>>
    BY <1>2 DEF Painted, Covers
  <1> QED
    BY <1>1, <1>2, <1>3, <1>4, PaintAt

LEMMA SourceAgrees ==
  ASSUME frames \in Animations, NEW n \in 1 .. L, NEW a \in Store, NEW b \in Store,
         NEW r \in Parts, NEW q \in Parts, r.left = 0, q.left = 0, NEW e \in 0 .. Width,
         SlotAgrees(a, b, frames[n].source, e),
         NEW c, NEW d, \A p \in 1 .. e : c[p] = d[p]
  PROVE  \A p \in 1 .. e : Source(n, a, c, r)[p] = Source(n, b, d, q)[p]
  <1> SUFFICES ASSUME NEW p \in 1 .. e PROVE Source(n, a, c, r)[p] = Source(n, b, d, q)[p]
    OBVIOUS
  <1>1. p \in Pixels /\ p + 0 = p
    BY PartsTyped DEF Pixels
  <1> QED
    BY <1>1 DEF Source, PixelAt, SlotAgrees

LEMMA SaveAgrees ==
  ASSUME frames \in Animations, NEW n \in 1 .. L, NEW a \in Store, NEW b \in Store,
         NEW e \in 0 .. Width, NEW c \in Canvas, NEW d \in Canvas,
         \A p \in 1 .. e : p \in frames[n].region => c[p] = d[p], NEW s \in Slots,
         SlotAgrees(a, b, s, e) \/ (CanReference(frames[n]) /\ frames[n].save = s)
  PROVE  SlotAgrees(Save(n, c, a), Save(n, d, b), s, e)
  <1>1. CASE CanReference(frames[n]) /\ frames[n].save = s
    <2>1. Save(n, c, a)[s] = ImageOf(n, c) /\ Save(n, d, b)[s] = ImageOf(n, d)
      BY <1>1 DEF Save, Store
    <2>2. \A p \in 1 .. e : p \in Pixels
      BY PartsTyped DEF Pixels
    <2> QED
      BY <2>1, <2>2 DEF SlotAgrees, ImageOf
  <1>2. CASE ~(CanReference(frames[n]) /\ frames[n].save = s)
    <2>1. Save(n, c, a)[s] = a[s] /\ Save(n, d, b)[s] = b[s]
      BY <1>2 DEF Save, Store
    <2> QED
      BY <1>2, <2>1 DEF SlotAgrees
  <1> QED
    BY <1>1, <1>2

-----------------------------------------------------------------------------
(* Replays *)

\* The frames before it leave the slots alone that frame n does not save.
LEMMA SavedByNext ==
  ASSUME frames \in Animations, NEW n \in 1 .. L, NEW s
  PROVE  /\ SavedBy(n - 1, s) => SavedBy(n, s)
         /\ SavedBy(n, s) <=> \/ SavedBy(n - 1, s)
                              \/ CanReference(frames[n]) /\ frames[n].save = s
  <1>1. n \in Nat \ {0}
    BY FramesTyped
  <1>2. 1 .. n = (1 .. n - 1) \cup {n}
    BY <1>1
  <1> QED
    BY <1>2 DEF SavedBy

LEMMA SavedByMore ==
  ASSUME NEW m \in Nat, NEW n \in Nat, m <= n, NEW s
  PROVE  SavedBy(m, s) => SavedBy(n, s)
  <1>1. 1 .. m \subseteq 1 .. n
    OBVIOUS
  <1> QED
    BY <1>1 DEF SavedBy

\* Two replays, from any slots, paint the same pixels; a slot holds the same
\* after both of them when it did before, or was saved in between.
LEMMA ReplayAgrees ==
  ASSUME frames \in Animations, NEW a \in Store, NEW b \in Store,
         NEW r \in Parts, NEW q \in Parts, r.left = 0, q.left = 0,
         NEW e \in 0 .. Width, e <= r.width, e <= q.width,
         NEW c \in Canvas, NEW d \in Canvas,
         (\A p \in 1 .. e : c[p] = d[p]) \/ Covers(frames[1])
  PROVE  \A n \in 1 .. L :
           /\ \A p \in 1 .. e : Replay(a, c, r)[n].canvas[p] = Replay(b, d, q)[n].canvas[p]
           /\ \A s \in Slots : SlotAgrees(a, b, s, e) \/ SavedBy(n, s) =>
                SlotAgrees(Replay(a, c, r)[n].refs, Replay(b, d, q)[n].refs, s, e)
  <1> DEFINE f == Replay(a, c, r)
             g == Replay(b, d, q)
             Same(n) == /\ n # 0 \/ ~Covers(frames[1]) =>
                             \A p \in 1 .. e : f[n].canvas[p] = g[n].canvas[p]
                        /\ \A s \in Slots : SlotAgrees(a, b, s, e) \/ SavedBy(n, s) =>
                             SlotAgrees(f[n].refs, g[n].refs, s, e)
             T == {n \in 0 .. L : Same(n)}
  <1>1. L \in Nat
    BY FramesTyped
  <1>2. /\ f \in [0 .. L -> Picture] /\ f[0] = Drawing(c, a)
        /\ \A n \in 1 .. L : f[n] = ReplayFrame(n, f[n - 1], r)
    BY ReplayUnfolds
  <1>3. /\ g \in [0 .. L -> Picture] /\ g[0] = Drawing(d, b)
        /\ \A n \in 1 .. L : g[n] = ReplayFrame(n, g[n - 1], q)
    BY ReplayUnfolds
  <1> HIDE DEF f, g
  <1>4. 0 \in T
    <2>1. f[0].canvas = c /\ g[0].canvas = d /\ f[0].refs = a /\ g[0].refs = b
      BY <1>2, <1>3 DEF Drawing
    <2>2. \A s : ~SavedBy(0, s)
      BY DEF SavedBy
    <2> QED
      BY <1>1, <2>1, <2>2
  <1>5. ASSUME NEW m \in 0 .. L - 1, m \in T PROVE m + 1 \in T
    <2> DEFINE n == m + 1
    <2>1. n \in 1 .. L /\ n \in 0 .. L /\ n - 1 = m /\ m \in 0 .. L
      BY <1>1
    <2>2. f[m] \in Picture /\ g[m] \in Picture /\ Same(m)
      BY <1>2, <1>3, <1>5, <2>1
    <2> HIDE DEF n
    <2>3. f[n] = ReplayFrame(n, f[m], r) /\ g[n] = ReplayFrame(n, g[m], q)
      BY <1>2, <1>3, <2>1
    <2>4. /\ f[m].canvas \in Canvas /\ g[m].canvas \in Canvas
          /\ f[m].refs \in Store /\ g[m].refs \in Store
      BY <2>2 DEF Picture
    <2> DEFINE v == Paint(n, f[m].canvas, f[m].canvas, r)
               w == Paint(n, g[m].canvas, g[m].canvas, q)
    <2>5. /\ f[n].canvas = v /\ f[n].refs = Save(n, v, f[m].refs)
          /\ g[n].canvas = w /\ g[n].refs = Save(n, w, g[m].refs)
      BY <2>1, <2>2, <2>3, ReplayFrameTyped
    <2>6. v \in Canvas /\ w \in Canvas
      BY <2>1, <2>4, PaintTyped
    <2>7. \A p \in 1 .. e : v[p] = w[p]
      <3>1. PICK x, y : x = f[m].canvas /\ y = g[m].canvas
        OBVIOUS
      <3>2. CASE m # 0 \/ ~Covers(frames[1])
        <4>1. \A p \in 1 .. e : x[p] = y[p]
          BY <2>2, <3>1, <3>2
        <4> HIDE DEF Same
        <4>2. \A p \in 1 .. e : Paint(n, x, x, r)[p] = Paint(n, y, y, q)[p]
          BY <4>1, PaintAgrees
        <4> QED
          BY <3>1, <4>2
      <3>3. CASE m = 0 /\ Covers(frames[1])
        <4>1. Covers(frames[n])
          BY <3>3 DEF n
        <4>2. \A p \in 1 .. e : Paint(n, x, x, r)[p] = Paint(n, y, y, q)[p]
          BY <4>1, PaintCovers
        <4> QED
          BY <3>1, <4>2
      <3> QED
        BY <3>2, <3>3
    <2> HIDE DEF v, w
    <2>8. ASSUME NEW s \in Slots, SlotAgrees(a, b, s, e) \/ SavedBy(n, s)
          PROVE  SlotAgrees(f[n].refs, g[n].refs, s, e)
      <3>1. SavedBy(n, s) <=> SavedBy(m, s) \/ (CanReference(frames[n]) /\ frames[n].save = s)
        BY <2>1, SavedByNext
      <3>2. \/ SlotAgrees(f[m].refs, g[m].refs, s, e)
            \/ CanReference(frames[n]) /\ frames[n].save = s
        BY <2>2, <2>8, <3>1
      <3> QED
        BY <2>1, <2>4, <2>5, <2>6, <2>7, <3>2, SaveAgrees
    <2>9. Same(n)
      BY <2>5, <2>7, <2>8
    <2> QED
      BY <2>1, <2>9 DEF n
  <1>6. T \in SUBSET Nat
    OBVIOUS
  <1> HIDE DEF T
  <1>7. \A m \in 0 .. L - 1 : m \in T => m + 1 \in T
    BY <1>5
  <1>8. \A m \in 0 .. L : m \in T
    BY <1>1, <1>4, <1>6, <1>7, CountingUp
  <1>9. \A n \in 1 .. L : n \in 0 .. L /\ n # 0
    BY <1>1
  <1> QED
    BY <1>8, <1>9 DEF T, f, g

\* A replay leaves the slots alone that its frames do not save.
LEMMA ReplayLeaves ==
  ASSUME frames \in Animations, NEW a \in Store, NEW c \in Canvas, NEW r
  PROVE  \A n \in 0 .. L, s \in Slots : ~SavedBy(n, s) => Replay(a, c, r)[n].refs[s] = a[s]
  <1> DEFINE f == Replay(a, c, r)
             T == {n \in 0 .. L : \A s \in Slots : ~SavedBy(n, s) => f[n].refs[s] = a[s]}
  <1>1. L \in Nat
    BY FramesTyped
  <1>2. /\ f \in [0 .. L -> Picture] /\ f[0] = Drawing(c, a)
        /\ \A n \in 1 .. L : f[n] = ReplayFrame(n, f[n - 1], r)
    BY ReplayUnfolds
  <1> HIDE DEF f
  <1>3. 0 \in T
    BY <1>1, <1>2 DEF Drawing
  <1>4. ASSUME NEW m \in 0 .. L - 1, m \in T PROVE m + 1 \in T
    <2> DEFINE n == m + 1
    <2>1. n \in 1 .. L /\ n \in 0 .. L /\ n - 1 = m /\ m \in 0 .. L
      BY <1>1
    <2>2. f[m] \in Picture /\ \A s \in Slots : ~SavedBy(m, s) => f[m].refs[s] = a[s]
      BY <1>2, <1>4, <2>1
    <2> HIDE DEF n
    <2> DEFINE d == Paint(n, f[m].canvas, f[m].canvas, r)
    <2>3. f[n].refs = Save(n, d, f[m].refs)
      BY <1>2, <2>1, <2>2, ReplayFrameTyped
    <2> HIDE DEF d
    <2>4. f[m].refs \in Store
      BY <2>2 DEF Picture
    <2>5. ASSUME NEW s \in Slots, ~SavedBy(n, s) PROVE f[n].refs[s] = a[s]
      <3>1. ~SavedBy(m, s) /\ ~(CanReference(frames[n]) /\ frames[n].save = s)
        BY <2>1, <2>5, SavedByNext
      <3>2. Save(n, d, f[m].refs)[s] = f[m].refs[s]
        BY <2>4, <3>1 DEF Save, Store
      <3> QED
        BY <2>2, <2>3, <3>1, <3>2
    <2> QED
      BY <2>1, <2>5 DEF n
  <1>5. T \in SUBSET Nat
    OBVIOUS
  <1> HIDE DEF T
  <1>6. \A m \in 0 .. L - 1 : m \in T => m + 1 \in T
    BY <1>4
  <1>7. \A m \in 0 .. L : m \in T
    BY <1>1, <1>3, <1>5, <1>6, CountingUp
  <1> QED
    BY <1>7 DEF T, f

\* Under any crop, a replay paints that part of what it paints without one.
LEMMA ReplayCuts ==
  ASSUME frames \in Animations, NEW a \in Store, NEW b \in Store, NEW r \in Parts
  PROVE  \A n \in 0 .. L : Replay(a, Blank, r)[n].canvas = Cut(Replay(b, Blank, WholeImage)[n].canvas, r)
  <1> DEFINE f == Replay(a, Blank, r)
             g == Replay(b, Blank, WholeImage)
             T == {n \in 0 .. L : f[n].canvas = Cut(g[n].canvas, r)}
  <1>1. L \in Nat
    BY FramesTyped
  <1>2. /\ f \in [0 .. L -> Picture] /\ f[0] = Drawing(Blank, a)
        /\ \A n \in 1 .. L : f[n] = ReplayFrame(n, f[n - 1], r)
    BY BlankTyped, ReplayUnfolds
  <1>3. /\ g \in [0 .. L -> Picture] /\ g[0] = Drawing(Blank, b)
        /\ \A n \in 1 .. L : g[n] = ReplayFrame(n, g[n - 1], WholeImage)
    BY BlankTyped, ReplayUnfolds
  <1>4. /\ r.left \in Nat /\ r.width \in Nat /\ r.left + r.width <= Width /\ Width \in Nat
        /\ WholeImage.width = Width /\ WholeImage.left = 0
    BY PartsTyped DEF WholeImage
  <1>5. \A p \in Pixels : p \in Nat /\ (p <= r.width => PixelAt(p, r) \in Pixels)
    BY <1>4 DEF Pixels, PixelAt
  <1> HIDE DEF f, g
  <1>6. 0 \in T
    <2>1. f[0].canvas = Blank /\ g[0].canvas = Blank
      BY <1>2, <1>3 DEF Drawing
    <2>2. Cut(Blank, r) = Blank
      BY <1>5 DEF Cut, Blank
    <2> QED
      BY <1>1, <2>1, <2>2
  <1>7. ASSUME NEW m \in 0 .. L - 1, m \in T PROVE m + 1 \in T
    <2> DEFINE n == m + 1
    <2>1. n \in 1 .. L /\ n \in 0 .. L /\ n - 1 = m /\ m \in 0 .. L
      BY <1>1
    <2>2. f[m] \in Picture /\ g[m] \in Picture /\ f[m].canvas = Cut(g[m].canvas, r)
      BY <1>2, <1>3, <1>7, <2>1
    <2> HIDE DEF n
    <2> DEFINE old == f[m].canvas
               whole == g[m].canvas
               c == Paint(n, old, old, r)
               d == Paint(n, whole, whole, WholeImage)
    <2>3. old \in Canvas /\ whole \in Canvas
      BY <2>2 DEF Picture
    <2>4. f[n].canvas = c /\ g[n].canvas = d
      BY <1>2, <1>3, <2>1, <2>2, ReplayFrameTyped
    <2>5. c \in Canvas
      BY <2>1, <2>3, PaintTyped
    <2>6. ASSUME NEW p \in Pixels PROVE c[p] = Cut(d, r)[p]
      <3>1. c[p] = IF p > r.width THEN old[p] ELSE Painted(n, old[p], old[p], PixelAt(p, r))
        BY <1>4, PaintAt
      <3>2. old[p] = IF p <= r.width THEN whole[PixelAt(p, r)] ELSE <<>>
        BY <2>2 DEF Cut
      <3>3. Cut(d, r)[p] = IF p <= r.width THEN d[PixelAt(p, r)] ELSE <<>>
        BY DEF Cut
      <3>4. CASE p <= r.width
        <4>1. PixelAt(p, r) \in Pixels /\ ~(p > r.width)
          BY <1>4, <1>5, <3>4
        <4> DEFINE i == PixelAt(p, r)
        <4>2. ~(i > Width) /\ PixelAt(i, WholeImage) = i
          <5>1. i \in Nat /\ i <= Width
            BY <1>4, <4>1 DEF Pixels
          <5> HIDE DEF i
          <5> QED
            BY <1>4, <5>1 DEF PixelAt
        <4>3. d[i] = Painted(n, whole[i], whole[i], i)
          <5> HIDE DEF i
          <5>1. i \in Pixels
            BY <4>1 DEF i
          <5> QED
            BY <1>4, <4>2, <5>1, PaintAt
        <4> QED
          BY <3>1, <3>2, <3>3, <3>4, <4>1, <4>3
      <3>5. CASE ~(p <= r.width)
        <4>1. p > r.width
          BY <1>4, <1>5, <3>5
        <4> QED
          BY <3>1, <3>2, <3>3, <3>5, <4>1
      <3> QED
        BY <3>4, <3>5
    <2>7. c = Cut(d, r)
      BY <2>5, <2>6 DEF Canvas, Cut
    <2> QED
      BY <2>1, <2>4, <2>7 DEF n
  <1>8. T \in SUBSET Nat
    OBVIOUS
  <1> HIDE DEF T
  <1>9. \A m \in 0 .. L - 1 : m \in T => m + 1 \in T
    BY <1>7
  <1>10. \A m \in 0 .. L : m \in T
    BY <1>1, <1>6, <1>8, <1>9, CountingUp
  <1> QED
    BY <1>10 DEF T, f, g

-----------------------------------------------------------------------------
(* Rendering a keyframe, next in line or once more *)

LEMMA VardctAgrees ==
  ASSUME frames \in Animations, NEW n \in 1 .. L, NEW a \in Store, NEW b \in Store,
         NEW r \in Parts, NEW q \in Parts, r.left = 0, q.left = 0,
         NEW e \in 0 .. Width, e <= r.width, e <= q.width,
         \A s \in Slots : SlotAgrees(a, b, s, e)
  PROVE  /\ \A p \in 1 .. e : DrawVardct(n, a, Blank, r).canvas[p] = DrawVardct(n, b, Blank, q).canvas[p]
         /\ \A s \in Slots :
              SlotAgrees(DrawVardct(n, a, Blank, r).refs, DrawVardct(n, b, Blank, q).refs, s, e)
  <1>1. PICK u \in Canvas, v \in Canvas : u = Source(n, a, Blank, r) /\ v = Source(n, b, Blank, q)
    BY BlankTyped, SourceTyped
  <1>2. SlotAgrees(a, b, frames[n].source, e)
    BY FramesTyped
  <1>3. \A p \in 1 .. e : u[p] = v[p]
    <2>1. PICK w, x : w = Blank /\ x = Blank
      OBVIOUS
    <2>2. \A p \in 1 .. e : w[p] = x[p]
      BY <2>1
    <2>3. \A p \in 1 .. e : Source(n, a, w, r)[p] = Source(n, b, x, q)[p]
      BY <1>2, <2>2, SourceAgrees
    <2> QED
      BY <1>1, <2>1, <2>3
  <1>4. PICK c \in Canvas, d \in Canvas : c = Paint(n, u, Blank, r) /\ d = Paint(n, v, Blank, q)
    BY BlankTyped, PaintTyped
  <1>5. \A p \in 1 .. e : c[p] = d[p]
    <2>1. PICK w, x : w = Blank /\ x = Blank
      OBVIOUS
    <2>2. \A p \in 1 .. e : w[p] = x[p]
      BY <2>1
    <2>3. \A p \in 1 .. e : Paint(n, u, w, r)[p] = Paint(n, v, x, q)[p]
      BY <1>3, <2>2, PaintAgrees
    <2> QED
      BY <1>4, <2>1, <2>3
  <1>6. /\ DrawVardct(n, a, Blank, r).canvas = c /\ DrawVardct(n, a, Blank, r).refs = Save(n, c, a)
        /\ DrawVardct(n, b, Blank, q).canvas = d /\ DrawVardct(n, b, Blank, q).refs = Save(n, d, b)
    BY <1>1, <1>4, BlankTyped, DrawVardctTyped
  <1>7. \A s \in Slots : SlotAgrees(Save(n, c, a), Save(n, d, b), s, e)
    BY <1>5, SaveAgrees
  <1> QED
    BY <1>5, <1>6, <1>7

\* A keyframe that does not feed on the slot it saves is the same when rendered
\* once more, and so are the slots.
LEMMA VardctAgain ==
  ASSUME frames \in Animations, NEW n \in 1 .. L, NEW b \in Store, NEW r \in Parts,
         frames[n].encoding = "vardct", ~FeedsItself(frames[n]),
         NEW c \in Store, c = DrawVardct(n, b, Blank, r).refs
  PROVE  /\ DrawVardct(n, c, Blank, r).canvas = DrawVardct(n, b, Blank, r).canvas
         /\ DrawVardct(n, c, Blank, r).refs = c
  <1> DEFINE u == Source(n, b, Blank, r)
             v == Source(n, c, Blank, r)
             d == Paint(n, u, Blank, r)
  <1>1. u \in Canvas /\ v \in Canvas /\ Blank \in Canvas
    BY SourceTyped, BlankTyped
  <1>2. d \in Canvas /\ Paint(n, v, Blank, r) \in Canvas
    BY <1>1, PaintTyped
  <1>3. c = Save(n, d, b) /\ DrawVardct(n, b, Blank, r).canvas = d
    BY BlankTyped, DrawVardctTyped
  <1>4. /\ DrawVardct(n, c, Blank, r).canvas = Paint(n, v, Blank, r)
        /\ DrawVardct(n, c, Blank, r).refs = Save(n, Paint(n, v, Blank, r), c)
    BY BlankTyped, DrawVardctTyped
  <1>5. frames[n].save \in Slots /\ frames[n].source \in Slots
    BY FramesTyped
  <1> HIDE DEF d, u, v
  <1>6. Paint(n, v, Blank, r) = d
    <2>1. CASE Replaces(frames[n])
      <3>1. \A p \in Pixels : Paint(n, v, Blank, r)[p] = d[p]
        <4>1. ASSUME NEW p \in Pixels PROVE Paint(n, v, Blank, r)[p] = d[p]
          <5>1. r.width \in Nat
            BY PartsTyped
          <5>2. Paint(n, v, Blank, r)[p]
                  = IF p > r.width THEN Blank[p] ELSE Painted(n, v[p], Blank[p], PixelAt(p, r))
            BY <5>1, PaintAt
          <5>3. Paint(n, u, Blank, r)[p]
                  = IF p > r.width THEN Blank[p] ELSE Painted(n, u[p], Blank[p], PixelAt(p, r))
            BY <5>1, PaintAt
          <5>4. \A w, x, b0, i : Painted(n, w, b0, i) = Painted(n, x, b0, i)
            BY <2>1 DEF Painted
          <5> QED
            BY <5>2, <5>3, <5>4 DEF d
        <4> QED
          BY <4>1
      <3> QED
        BY <1>2, <3>1 DEF Canvas
    <2>2. CASE ~CanReference(frames[n])
      BY <1>3, <2>2 DEF Save, u, v, d
    <2>3. CASE frames[n].source # frames[n].save
      <3>1. c[frames[n].source] = b[frames[n].source]
        BY <1>3, <1>5, <2>3 DEF Save, Store
      <3>2. v = u
        BY <3>1 DEF u, v, Source
      <3> QED
        BY <3>2 DEF d
    <2> QED
      BY <2>1, <2>2, <2>3 DEF FeedsItself
  <1>7. Save(n, d, c) = c
    BY <1>3, <1>5 DEF Save, Store
  <1> QED
    BY <1>3, <1>4, <1>6, <1>7

LEMMA NextAgrees ==
  ASSUME frames \in Animations, NEW k \in 0 .. K - 1, NEW a \in Store,
         NEW r \in Parts, r.left = 0, NEW e \in 0 .. Width, e <= r.width,
         \A s \in Slots : \/ SlotAgrees(a, InOrder[k - 1].refs, s, e)
                          \/ /\ frames[KeyAt(k)].encoding = "modular"
                             /\ SavedBy(KeyAt(k), s)
  PROVE  /\ \A p \in 1 .. e : Draw(KeyAt(k), a, Blank, r).canvas[p] = InOrder[k].canvas[p]
         /\ \A s \in Slots : SlotAgrees(Draw(KeyAt(k), a, Blank, r).refs, InOrder[k].refs, s, e)
  <1>1. PICK n \in 1 .. L : n = KeyAt(k)
    BY KeyframesInOrder
  <1>2. /\ WholeImage \in Parts /\ WholeImage.left = 0 /\ WholeImage.width = Width
        /\ e <= Width
    BY PartsTyped DEF WholeImage
  <1>3. PICK b \in Store : b = InOrder[k - 1].refs
    <2>1. k - 1 \in -1 .. K - 1
      BY KeyframesFinite
    <2> QED
      BY <2>1, InOrderUnfolds DEF Picture
  <1>4. InOrder[k] = Draw(n, b, Blank, WholeImage)
    BY <1>1, <1>3, InOrderUnfolds
  <1>5. CASE frames[n].encoding = "modular"
    <2>1. Draw(n, a, Blank, r) = Replay(a, Blank, r)[n] /\ InOrder[k] = Replay(b, Blank, WholeImage)[n]
      BY <1>4, <1>5 DEF Draw
    <2>2. Blank \in Canvas
      BY BlankTyped
    <2>3. \A s \in Slots : SlotAgrees(a, b, s, e) \/ SavedBy(n, s)
      BY <1>1, <1>3
    <2> QED
      BY <1>1, <1>2, <2>1, <2>2, <2>3, ReplayAgrees
  <1>6. CASE frames[n].encoding # "modular"
    <2>1. Draw(n, a, Blank, r) = DrawVardct(n, a, Blank, r) /\ InOrder[k] = DrawVardct(n, b, Blank, WholeImage)
      BY <1>4, <1>6 DEF Draw
    <2>2. \A s \in Slots : SlotAgrees(a, b, s, e)
      BY <1>1, <1>3, <1>6
    <2> QED
      BY <1>1, <1>2, <2>1, <2>2, VardctAgrees
  <1> QED
    BY <1>5, <1>6

LEMMA AgainAgrees ==
  ASSUME frames \in Animations, NEW k \in 0 .. K - 1, NEW a \in Store,
         ~FeedsItself(frames[KeyAt(k)]),
         NEW r \in Parts, r.left = 0, NEW e \in 0 .. Width, e <= r.width,
         frames[KeyAt(k)].encoding = "vardct" =>
           \A s \in Slots : SlotAgrees(a, InOrder[k].refs, s, e)
  PROVE  /\ \A p \in 1 .. e : Draw(KeyAt(k), a, Blank, r).canvas[p] = InOrder[k].canvas[p]
         /\ \A s \in Slots : SlotAgrees(a, InOrder[k].refs, s, e) =>
                             SlotAgrees(Draw(KeyAt(k), a, Blank, r).refs, InOrder[k].refs, s, e)
  <1>1. PICK n \in 1 .. L : n = KeyAt(k)
    BY KeyframesInOrder
  <1>2. /\ WholeImage \in Parts /\ WholeImage.left = 0 /\ WholeImage.width = Width
        /\ e <= Width
    BY PartsTyped DEF WholeImage
  <1>3. PICK b \in Store, c \in Store : b = InOrder[k - 1].refs /\ c = InOrder[k].refs
    <2>1. k - 1 \in -1 .. K - 1 /\ k \in -1 .. K - 1
      BY KeyframesFinite
    <2> QED
      BY <2>1, InOrderUnfolds DEF Picture
  <1>4. InOrder[k] = Draw(n, b, Blank, WholeImage)
    BY <1>1, <1>3, InOrderUnfolds
  <1>5. CASE frames[n].encoding = "modular"
    <2>1. Draw(n, a, Blank, r) = Replay(a, Blank, r)[n] /\ InOrder[k] = Replay(b, Blank, WholeImage)[n]
      BY <1>4, <1>5 DEF Draw
    <2>2. n \in 0 .. L /\ Blank \in Canvas
      BY FramesTyped, BlankTyped
    <2>3. /\ \A p \in 1 .. e : Draw(n, a, Blank, r).canvas[p] = InOrder[k].canvas[p]
          /\ \A s \in Slots : SavedBy(n, s) => SlotAgrees(Draw(n, a, Blank, r).refs, c, s, e)
      BY <1>2, <1>3, <2>1, <2>2, ReplayAgrees
    <2>4. \A s \in Slots : ~SavedBy(n, s) => Draw(n, a, Blank, r).refs[s] = a[s]
      BY <2>1, <2>2, ReplayLeaves
    <2>5. \A s \in Slots : ~SavedBy(n, s) /\ SlotAgrees(a, c, s, e) =>
                           SlotAgrees(Draw(n, a, Blank, r).refs, c, s, e)
      BY <2>4 DEF SlotAgrees
    <2> QED
      BY <1>1, <1>3, <2>3, <2>5
  <1>6. CASE frames[n].encoding # "modular"
    <2>1. frames[n].encoding = "vardct"
      BY <1>6, FramesTyped
    <2>2. /\ Draw(n, a, Blank, r) = DrawVardct(n, a, Blank, r) /\ InOrder[k] = DrawVardct(n, b, Blank, WholeImage)
      BY <1>4, <1>6 DEF Draw
    <2>3. /\ DrawVardct(n, c, Blank, WholeImage).canvas = InOrder[k].canvas
          /\ DrawVardct(n, c, Blank, WholeImage).refs = c
      BY <1>1, <1>2, <1>3, <2>1, <2>2, VardctAgain
    <2>4. \A s \in Slots : SlotAgrees(a, c, s, e)
      BY <1>1, <1>3, <2>1
    <2>5. /\ \A p \in 1 .. e :
               DrawVardct(n, a, Blank, r).canvas[p] = DrawVardct(n, c, Blank, WholeImage).canvas[p]
          /\ \A s \in Slots :
               SlotAgrees(DrawVardct(n, a, Blank, r).refs, DrawVardct(n, c, Blank, WholeImage).refs, s, e)
      BY <1>2, <2>4, VardctAgrees
    <2> QED
      BY <1>1, <1>3, <2>2, <2>3, <2>5
  <1> QED
    BY <1>5, <1>6

LEMMA SlotAgreesThen ==
  ASSUME NEW a, NEW b, NEW c, NEW s, NEW e, SlotAgrees(a, b, s, e), SlotAgrees(b, c, s, e)
  PROVE  SlotAgrees(a, c, s, e)
  BY DEF SlotAgrees

\* What the canvas held before gets into no slot unless the keyframe reads it.
LEMMA CanvasUnread ==
  ASSUME frames \in Animations, NEW n \in 1 .. L, NEW a \in Store, NEW c \in Canvas,
         NEW d \in Canvas, c = d \/ ~ReadsCanvas(n, a),
         NEW r \in Parts, r.left = 0, NEW e \in 0 .. Width, e <= r.width
  PROVE  \A s \in Slots : SlotAgrees(Draw(n, a, c, r).refs, Draw(n, a, d, r).refs, s, e)
  <1>1. \A s \in Slots : SlotAgrees(a, a, s, e)
    BY DEF SlotAgrees
  <1>2. CASE frames[n].encoding = "modular"
    <2>1. Draw(n, a, c, r) = Replay(a, c, r)[n] /\ Draw(n, a, d, r) = Replay(a, d, r)[n]
      BY <1>2 DEF Draw
    <2>2. (\A p \in 1 .. e : c[p] = d[p]) \/ Covers(frames[1])
      BY <1>2 DEF ReadsCanvas
    <2> QED
      BY <1>1, <2>1, <2>2, ReplayAgrees
  <1>3. CASE frames[n].encoding # "modular"
    <2> DEFINE u == Source(n, a, c, r)
               v == Source(n, a, d, r)
               x == Paint(n, u, c, r)
               y == Paint(n, v, d, r)
    <2>1. u \in Canvas /\ v \in Canvas
      BY SourceTyped
    <2>2. x \in Canvas /\ y \in Canvas
      <3> HIDE DEF u, v
      <3> QED
        BY <2>1, PaintTyped
    <2>3. /\ Draw(n, a, c, r).refs = Save(n, x, a)
          /\ Draw(n, a, d, r).refs = Save(n, y, a)
      BY <1>3, DrawVardctTyped DEF Draw
    <2>4. CASE ~CanReference(frames[n])
      BY <1>1, <2>3, <2>4 DEF Save
    <2>5. CASE c = d
      <3>1. x = y
        BY <2>5
      <3> HIDE DEF x, y
      <3> QED
        BY <2>3, <3>1 DEF SlotAgrees
    <2>6. CASE Replaces(frames[n]) \/ a[frames[n].source].valid
      <3>1. Replaces(frames[n]) \/ u = v
        BY <2>6 DEF Source
      <3> HIDE DEF u, v
      <3>2. ASSUME NEW p \in 1 .. e, p \in frames[n].region PROVE x[p] = y[p]
        <4>1. r.width \in Nat /\ Width \in Nat
          BY PartsTyped
        <4>2. p \in Pixels /\ ~(p > r.width) /\ p + 0 = p
          BY <4>1 DEF Pixels
        <4>3. PixelAt(p, r) = p
          BY <4>2 DEF PixelAt
        <4>4. Painted(n, u[p], c[p], p) = Painted(n, v[p], d[p], p)
          BY <3>1, <3>2 DEF Painted
        <4>5. x[p] = Painted(n, u[p], c[p], p)
          BY <4>1, <4>2, <4>3, PaintAt
        <4>6. y[p] = Painted(n, v[p], d[p], p)
          BY <4>1, <4>2, <4>3, PaintAt
        <4> QED
          BY <4>4, <4>5, <4>6
      <3> HIDE DEF x, y
      <3>3. \A s \in Slots : SlotAgrees(Save(n, x, a), Save(n, y, a), s, e)
        BY <1>1, <2>2, <3>2, SaveAgrees
      <3> QED
        BY <2>3, <3>3
    <2> QED
      BY <1>3, <2>4, <2>5, <2>6 DEF ReadsCanvas
  <1> QED
    BY <1>2, <1>3

-----------------------------------------------------------------------------
(* The inductive invariant.  A keyframe in line is rendered from slots that   *)
(* hold what those before it saved, or will be saved before they are read.    *)

HoldsChain(a, chain, e) ==
  \A s \in Slots : \/ SlotAgrees(a, InOrder[chain].refs, s, e)
                   \/ ReplayAhead(chain) /\ SavedBy(KeyAt(FirstOfChain(chain)), s)

NextOrAgain(k, chain, r, e) ==
  /\ r.left = 0 /\ e <= r.width
  /\ \/ k = FirstOfChain(chain)
     \/ k = chain /\ ~FeedsItself(frames[KeyAt(k)])

PicturePlays(sh) ==
  sh.k # None => \A p \in 1 .. sh.exact : sh.px[p] = InOrder[sh.k].canvas[p]
PictureIsCut(sh) ==
  sh.k # None /\ frames[KeyAt(sh.k)].encoding = "modular" =>
    sh.px = Cut(InOrder[sh.k].canvas, sh.crop)

ChainInv == exact > 0 => HoldsChain(refs, chain_upto, exact)
InLineInv == call = "rendering" /\ exact > 0 => NextOrAgain(at, chain_upto, crop, exact)

\* Only while keyframes are caught up on is there a canvas that was drawn on.
SurfaceInv ==
  /\ surface \in Canvas
  /\ surface # Blank => call = "rendering" /\ at < target /\ at # chain_upto

AnimationInv ==
  /\ AnimationTypeOK /\ refs \in Store /\ SurfaceInv
  /\ ChainInv /\ InLineInv /\ PicturePlays(shown) /\ PictureIsCut(shown)

\* All this is said of the animation, which stays.
LEMMA AnimationStays ==
  ASSUME frames' = frames
  PROVE  /\ NumKeyframes' = NumKeyframes /\ InOrder' = InOrder
         /\ ChainInv' <=> (exact' > 0 => HoldsChain(refs', chain_upto', exact'))
         /\ InLineInv' <=>
              (call' = "rendering" /\ exact' > 0 =>
                 NextOrAgain(at', chain_upto', crop', exact'))
         /\ PicturePlays(shown)' <=> PicturePlays(shown')
         /\ PictureIsCut(shown)' <=> PictureIsCut(shown')
  <1>1. NumKeyframes' = NumKeyframes
    BY DEF NumKeyframes, Keyframes, IsKeyframe
  <1>2. InOrder' = InOrder
    BY DEF InOrder, Draw, DrawVardct, Replay, ReplayFrame, Paint, Replaces, ResetsCanvas, Save,
           ImageOf, CanReference, Source, KeyAt, NumKeyframes, Keyframes, IsKeyframe, Drawing,
           PixelAt, Blank
  <1>3. \A k : KeyAt(k)' = KeyAt(k)
    BY DEF KeyAt, Keyframes, IsKeyframe
  <1>4. PicturePlays(shown)' <=> PicturePlays(shown')
    BY <1>2 DEF PicturePlays
  <1>5. PictureIsCut(shown)' <=> PictureIsCut(shown')
    BY <1>2 DEF PictureIsCut, Cut, PixelAt, KeyAt, Keyframes, IsKeyframe
  <1>6. ChainInv' <=> (exact' > 0 => HoldsChain(refs', chain_upto', exact'))
    BY <1>2 DEF ChainInv, HoldsChain, SlotAgrees, ReplayAhead, SavedBy, FirstOfChain, KeyAt,
                NumKeyframes, Keyframes, IsKeyframe, Renderable, Composed, Unsupported,
                CanReference
  <1>7. InLineInv' <=> (call' = "rendering" /\ exact' > 0 =>
                          NextOrAgain(at', chain_upto', crop', exact'))
    BY DEF InLineInv, NextOrAgain, FirstOfChain, FeedsItself, KeyAt, Keyframes, IsKeyframe,
           Replaces, ResetsCanvas, CanReference
  <1> QED
    BY <1>1, <1>2, <1>4, <1>5, <1>6, <1>7

LEMMA FirstNext ==
  ASSUME NEW chain \in None .. K - 1
  PROVE  FirstOfChain(chain) = chain + 1
  BY DEF FirstOfChain, None

LEMMA TypedOnce ==
  ASSUME AnimationTypeOK
  PROVE  /\ frames \in Animations /\ crop \in Parts /\ K \in Nat \ {0}
         /\ chain_upto \in -1 .. K - 1 /\ target \in 0 .. K - 1 /\ at \in 0 .. target
         /\ at \in 0 .. K - 1 /\ exact \in 0 .. Width /\ Width \in Nat /\ calls \in 0 .. MaxCalls
         /\ KeyAt(at) \in 1 .. L /\ KeyAt(at) \in 0 .. L
         /\ frames[KeyAt(at)].encoding \in {"vardct", "modular"}
  <1>1. frames \in Animations
    BY DEF AnimationTypeOK
  <1>2. K \in Nat \ {0}
    BY <1>1, KeyframesFinite
  <1>3. /\ crop \in Crops \cup {WholeImage} /\ target \in 0 .. K - 1 /\ at \in 0 .. target
        /\ chain_upto \in -1 .. K - 1 /\ exact \in 0 .. Width /\ calls \in 0 .. MaxCalls
    BY DEF AnimationTypeOK, None, K
  <1>4. at \in 0 .. K - 1
    BY <1>2, <1>3
  <1>5. KeyAt(at) \in 1 .. L /\ L \in Nat
    BY <1>1, <1>4, KeyframesInOrder, FramesTyped
  <1>6. KeyAt(at) \in 0 .. L
    BY <1>5
  <1> QED
    BY <1>1, <1>2, <1>3, <1>4, <1>5, <1>6, PartsTyped, FramesTyped

\* Behind a VarDCT keyframe no modular one can be rendered.
LEMMA NoReplayBehindVardct ==
  ASSUME frames \in Animations, NEW c \in 0 .. K - 1, frames[KeyAt(c)].encoding = "vardct"
  PROVE  ~ReplayAhead(c)
  <1> SUFFICES ASSUME ReplayAhead(c) PROVE FALSE
    OBVIOUS
  <1>1. K \in Nat
    BY KeyframesFinite
  <1>2. FirstOfChain(c) = c + 1
    BY FirstNext, <1>1 DEF None, FirstOfChain
  <1>3. c + 1 < K
    BY <1>2 DEF ReplayAhead, K
  <1>4. frames[KeyAt(c + 1)].encoding = "modular" /\ Renderable(KeyAt(c + 1))
    BY <1>2 DEF ReplayAhead
  <1>5. c + 1 \in 0 .. K - 1 /\ c < c + 1
    BY <1>1, <1>3
  <1>6. KeyAt(c) < KeyAt(c + 1) /\ KeyAt(c) \in 1 .. L /\ KeyAt(c + 1) \in 1 .. L
    BY <1>5, KeyframesInOrder
  <1>7. L \in Nat
    BY FramesTyped
  <1>8. KeyAt(c) \in 1 .. KeyAt(c + 1)
    BY <1>6, <1>7
  <1>9. Unsupported(KeyAt(c), KeyAt(c + 1))
    BY <1>4 DEF Unsupported
  <1> QED
    BY <1>4, <1>8, <1>9 DEF Renderable, Composed

\* Rendering in line continues the chain, and draws what playing in order does.
LEMMA RenderedInLine ==
  ASSUME AnimationInv, call = "rendering", Renderable(KeyAt(at))
  PROVE  LET d == Draw(KeyAt(at), refs, Blank, crop)
         IN  /\ d \in Picture
             /\ exact > 0 => /\ HoldsChain(d.refs, at, exact)
                             /\ \A p \in 1 .. exact : d.canvas[p] = InOrder[at].canvas[p]
             /\ frames[KeyAt(at)].encoding = "modular" =>
                  d.canvas = Cut(InOrder[at].canvas, crop)
  <1> DEFINE n == KeyAt(at)
             d == Draw(n, refs, Blank, crop)
  <1>1. /\ frames \in Animations /\ crop \in Parts /\ K \in Nat \ {0}
        /\ chain_upto \in -1 .. K - 1 /\ at \in 0 .. K - 1 /\ exact \in 0 .. Width
        /\ n \in 1 .. L /\ n \in 0 .. L /\ frames[n].encoding \in {"vardct", "modular"}
        /\ refs \in Store
    BY TypedOnce DEF AnimationInv
  <1>2. d \in Picture
    BY <1>1, BlankTyped, DrawTyped
  <1>3. ASSUME exact > 0
        PROVE  /\ HoldsChain(d.refs, at, exact)
               /\ \A p \in 1 .. exact : d.canvas[p] = InOrder[at].canvas[p]
    <2>1. /\ HoldsChain(refs, chain_upto, exact)
          /\ NextOrAgain(at, chain_upto, crop, exact)
      BY <1>3 DEF AnimationInv, ChainInv, InLineInv
    <2>2. crop.left = 0 /\ exact <= crop.width
      BY <2>1 DEF NextOrAgain
    <2>3. FirstOfChain(chain_upto) = chain_upto + 1
      BY <1>1, FirstNext DEF None
    <2>4. CASE at = FirstOfChain(chain_upto)
      <3>1. at - 1 = chain_upto
        BY <1>1, <2>3, <2>4
      <3>2. ReplayAhead(chain_upto) => frames[n].encoding = "modular"
        BY <2>4 DEF ReplayAhead
      <3>3. \A s \in Slots : \/ SlotAgrees(refs, InOrder[at - 1].refs, s, exact)
                             \/ frames[n].encoding = "modular" /\ SavedBy(n, s)
        BY <2>1, <2>4, <3>1, <3>2 DEF HoldsChain
      <3>4. /\ \A p \in 1 .. exact : d.canvas[p] = InOrder[at].canvas[p]
            /\ \A s \in Slots : SlotAgrees(d.refs, InOrder[at].refs, s, exact)
        BY <1>1, <2>2, <3>3, NextAgrees
      <3> QED
        BY <3>4 DEF HoldsChain
    <2>5. CASE at = chain_upto /\ ~FeedsItself(frames[n])
      <3>1. frames[n].encoding = "vardct" =>
              \A s \in Slots : SlotAgrees(refs, InOrder[at].refs, s, exact)
        BY <1>1, <2>1, <2>5, NoReplayBehindVardct DEF HoldsChain
      <3>2. /\ \A p \in 1 .. exact : d.canvas[p] = InOrder[at].canvas[p]
            /\ \A s \in Slots : SlotAgrees(refs, InOrder[at].refs, s, exact) =>
                                SlotAgrees(d.refs, InOrder[at].refs, s, exact)
        BY <1>1, <2>2, <2>5, <3>1, AgainAgrees
      <3> QED
        BY <2>1, <2>5, <3>2 DEF HoldsChain
    <2> QED
      BY <2>1, <2>4, <2>5 DEF NextOrAgain
  <1>4. ASSUME frames[n].encoding = "modular" PROVE d.canvas = Cut(InOrder[at].canvas, crop)
    <2>1. PICK b \in Store : b = InOrder[at - 1].refs
      <3>1. at - 1 \in -1 .. K - 1
        BY <1>1
      <3> QED
        BY <1>1, <3>1, InOrderUnfolds DEF Picture
    <2>2. d = Replay(refs, Blank, crop)[n]
      BY <1>4 DEF Draw
    <2>3. InOrder[at] = Replay(b, Blank, WholeImage)[n]
      BY <1>1, <1>4, <2>1, InOrderUnfolds DEF Draw
    <2> QED
      BY <1>1, <2>2, <2>3, ReplayCuts
  <1> QED
    BY <1>2, <1>3, <1>4

-----------------------------------------------------------------------------
(* The steps *)

LEMMA AnimationInitInv == AnimationInit => AnimationInv
  <1> SUFFICES ASSUME AnimationInit PROVE AnimationInv
    OBVIOUS
  <1>1. /\ frames \in Animations /\ crop = WholeImage /\ refs = EmptyStore
        /\ chain_upto = -1 /\ target = 0 /\ at = 0 /\ surface = Blank /\ call = "idle"
        /\ shown.k = -1 /\ shown.crop = WholeImage /\ calls = 0 /\ exact = Width
    BY DEF AnimationInit, None
  <1>2. K \in Nat \ {0} /\ Width \in Nat /\ MaxCalls \in Nat
    BY <1>1, KeyframesFinite, PartsTyped, CallsAssumption
  <1>3. refs \in Store
    BY <1>1, BlankTyped
  <1>4. AnimationTypeOK
    <2>1. \A s \in Slots : refs[s].valid \in BOOLEAN /\ DOMAIN refs[s].px = Pixels
      BY <1>3 DEF Store, Image, Canvas
    <2>2. /\ chain_upto \in None .. K - 1 /\ target \in 0 .. K - 1 /\ at \in 0 .. target
          /\ shown.k \in None .. K - 1 /\ calls \in 0 .. MaxCalls /\ exact \in 0 .. Width
      BY <1>1, <1>2 DEF None
    <2>3. DOMAIN surface = Pixels
      BY <1>1 DEF Blank
    <2> QED
      BY <1>1, <2>1, <2>2, <2>3 DEF AnimationTypeOK, K
  <1>5. InOrder[chain_upto].refs = refs
    BY <1>1, InOrderUnfolds DEF Drawing
  <1>6. ChainInv
    BY <1>5 DEF ChainInv, HoldsChain, SlotAgrees
  <1>7. SurfaceInv
    BY <1>1, BlankTyped DEF SurfaceInv
  <1> QED
    BY <1>1, <1>3, <1>4, <1>6, <1>7 DEF AnimationInv, InLineInv, PicturePlays, PictureIsCut, None

LEMMA StoreIsTyped ==
  ASSUME NEW a \in Store
  PROVE  \A s \in Slots : a[s].valid \in BOOLEAN /\ DOMAIN a[s].px = Pixels
  BY DEF Store, Image, Canvas

\* What is left to show of a step.
LEMMA StepKeeps ==
  ASSUME AnimationInv, frames' = frames,
         refs' \in Store, crop' \in Crops \cup {WholeImage},
         chain_upto' \in -1 .. K - 1, target' \in 0 .. K - 1, at' \in 0 .. target',
         surface' \in Canvas,
         surface' # Blank => call' = "rendering" /\ at' < target' /\ at' # chain_upto',
         call' \in {"idle", "rendering"}, calls' \in 0 .. MaxCalls, exact' \in 0 .. Width,
         shown'.k \in -1 .. K - 1, shown'.crop \in Crops \cup {WholeImage},
         exact' > 0 => HoldsChain(refs', chain_upto', exact'),
         call' = "rendering" /\ exact' > 0 => NextOrAgain(at', chain_upto', crop', exact'),
         PicturePlays(shown'), PictureIsCut(shown')
  PROVE  AnimationInv'
  <1>1. AnimationTypeOK'
    <2>1. \A s \in Slots : refs'[s].valid \in BOOLEAN /\ DOMAIN refs'[s].px = Pixels
      BY StoreIsTyped
    <2>2. NumKeyframes' = NumKeyframes
      BY AnimationStays
    <2>3. DOMAIN surface' = Pixels
      BY DEF Canvas
    <2> QED
      BY <2>1, <2>2, <2>3 DEF AnimationInv, AnimationTypeOK, None, K
  <1>2. ChainInv' /\ InLineInv' /\ PicturePlays(shown)' /\ PictureIsCut(shown)'
    BY AnimationStays
  <1>3. (refs \in Store)'
    BY DEF Store, Image, Canvas
  <1>4. SurfaceInv'
    BY DEF SurfaceInv, Canvas, Blank
  <1> QED
    BY <1>1, <1>2, <1>3, <1>4 DEF AnimationInv

\* What is left to show when the pictures handed out stay.
LEMMA ShownStays ==
  ASSUME AnimationInv, UNCHANGED <<frames, shown>>,
         refs' \in Store, crop' \in Crops \cup {WholeImage},
         chain_upto' \in -1 .. K - 1, target' \in 0 .. K - 1, at' \in 0 .. target',
         surface' \in Canvas,
         surface' # Blank => call' = "rendering" /\ at' < target' /\ at' # chain_upto',
         call' \in {"idle", "rendering"}, calls' \in 0 .. MaxCalls, exact' \in 0 .. Width,
         exact' > 0 => HoldsChain(refs', chain_upto', exact'),
         call' = "rendering" /\ exact' > 0 => NextOrAgain(at', chain_upto', crop', exact')
  PROVE  AnimationInv'
  <1>1. /\ shown'.k \in -1 .. K - 1 /\ shown'.crop \in Crops \cup {WholeImage}
        /\ PicturePlays(shown') /\ PictureIsCut(shown')
    BY DEF AnimationInv, AnimationTypeOK, None, K
  <1> QED
    BY <1>1, StepKeeps

LEMMA SetCropStep ==
  ASSUME AnimationInv, NEW r \in Crops, SetCrop(r)
  PROVE  AnimationInv'
  <1>1. /\ call' = "idle" /\ crop' = r
        /\ UNCHANGED <<frames, refs, chain_upto, target, at, surface, shown, calls, exact>>
    BY DEF SetCrop
  <1>2. /\ chain_upto \in -1 .. K - 1 /\ target \in 0 .. K - 1 /\ at \in 0 .. target
        /\ calls \in 0 .. MaxCalls /\ exact \in 0 .. Width /\ refs \in Store
    BY TypedOnce DEF AnimationInv
  <1>3. exact > 0 => HoldsChain(refs, chain_upto, exact)
    BY DEF AnimationInv, ChainInv
  <1>4. surface \in Canvas /\ surface = Blank
    BY DEF SetCrop, AnimationInv, SurfaceInv
  <1> QED
    BY <1>1, <1>2, <1>3, <1>4, ShownStays

LEMMA SlotAgreesLess ==
  ASSUME NEW a, NEW b, NEW s, NEW e \in Nat, NEW d \in Nat, d <= e, SlotAgrees(a, b, s, e)
  PROVE  SlotAgrees(a, b, s, d)
  <1>1. \A p \in 1 .. d : p \in 1 .. e
    OBVIOUS
  <1> QED
    BY <1>1 DEF SlotAgrees

LEMMA RenderCallStep ==
  ASSUME AnimationInv, NEW k \in 0 .. NumKeyframes - 1, RenderCall(k)
  PROVE  AnimationInv'
  <1>1. /\ frames \in Animations /\ crop \in Parts /\ K \in Nat \ {0} /\ k \in 0 .. K - 1
        /\ chain_upto \in -1 .. K - 1 /\ exact \in 0 .. Width /\ Width \in Nat
        /\ calls \in 0 .. MaxCalls /\ refs \in Store /\ crop \in Crops \cup {WholeImage}
    BY TypedOnce DEF AnimationInv, AnimationTypeOK, K
  <1>2. /\ refs' = IF Behind(k) THEN EmptyStore ELSE refs
        /\ chain_upto' = IF Behind(k) THEN None ELSE chain_upto
        /\ target' = k /\ at' = CatchUpFrom(k, chain_upto') /\ call' = "rendering"
        /\ surface' = Blank /\ calls' = calls + 1 /\ calls < MaxCalls
        /\ exact' = Exact(k, chain_upto')
        /\ UNCHANGED <<frames, crop, shown>>
    BY DEF RenderCall
  <1>3. refs' \in Store
    BY <1>1, <1>2, BlankTyped
  <1>4. PICK c \in -1 .. K - 1 : c = chain_upto'
    BY <1>1, <1>2 DEF None
  <1>5. FirstOfChain(c) = c + 1
    BY FirstNext DEF None
  <1>6. PICK a \in 0 .. k : a = at'
    BY <1>1, <1>2, <1>4, <1>5 DEF CatchUpFrom
  <1>7. calls' \in 0 .. MaxCalls
    BY <1>1, <1>2, CallsAssumption
  <1> DEFINE before == IF Behind(k) THEN Width ELSE exact
  <1>8. crop.left \in Nat /\ crop.width \in Nat /\ crop.width <= Width /\ before \in 0 .. Width
    BY <1>1, PartsTyped
  <1>9. exact' = IF OutOfLine(k, c) \/ crop.left # 0 THEN 0
                 ELSE IF crop.width < before THEN crop.width ELSE before
    BY <1>2, <1>4 DEF Exact
  <1> HIDE DEF before
  <1>10. PICK e \in 0 .. Width : e = exact' /\ e <= before /\ (e > 0 => e <= crop.width)
    BY <1>1, <1>8, <1>9
  <1>11. ASSUME e > 0 PROVE HoldsChain(refs', c, e)
    <2>1. CASE Behind(k)
      <3>1. refs' = EmptyStore /\ c = -1
        BY <1>2, <1>4, <2>1 DEF None
      <3>2. InOrder[c].refs = EmptyStore
        BY <1>1, <3>1, InOrderUnfolds DEF Drawing
      <3> QED
        BY <3>1, <3>2 DEF HoldsChain, SlotAgrees
    <2>2. CASE ~Behind(k)
      <3>1. refs' = refs /\ c = chain_upto
        BY <1>2, <1>4, <2>2
      <3>2. before = exact
        BY <2>2 DEF before
      <3>3. e <= exact /\ exact > 0 /\ e \in Nat /\ exact \in Nat
        BY <1>1, <1>10, <1>11, <3>2
      <3>4. HoldsChain(refs, c, exact)
        BY <3>1, <3>3 DEF AnimationInv, ChainInv
      <3> QED
        BY <3>1, <3>3, <3>4, SlotAgreesLess DEF HoldsChain
    <2> QED
      BY <2>1, <2>2
  <1>12. ASSUME e > 0 PROVE NextOrAgain(a, c, crop, e)
    <2>1. ~OutOfLine(k, c) /\ crop.left = 0
      BY <1>9, <1>10, <1>12
    <2>2. a = CatchUpFrom(k, c)
      BY <1>2, <1>4, <1>6
    <2>3. c <= k
      <3>1. CASE Behind(k)
        BY <1>1, <1>2, <1>4, <3>1 DEF None
      <3>2. CASE ~Behind(k)
        BY <1>1, <1>2, <1>4, <3>2 DEF Behind, None
      <3> QED
        BY <3>1, <3>2
    <2>4. CASE a = FirstOfChain(c)
      BY <1>10, <1>12, <2>1, <2>4 DEF NextOrAgain
    <2>5. CASE a # FirstOfChain(c)
      <3>1. CatchUpFrom(k, c) = k /\ a = k
        BY <2>2, <2>5 DEF CatchUpFrom
      <3>2. ~(FirstOfChain(c) < k)
        BY <2>1, <3>1 DEF OutOfLine
      <3>3. k = c
        BY <1>1, <1>5, <2>3, <2>5, <3>1, <3>2
      <3>4. ~FeedsItself(frames[KeyAt(k)])
        BY <2>1, <3>3 DEF OutOfLine
      <3> QED
        BY <1>10, <1>12, <2>1, <3>1, <3>3, <3>4 DEF NextOrAgain
    <2> QED
      BY <2>4, <2>5
  <1>13. /\ exact' > 0 => HoldsChain(refs', chain_upto', exact')
         /\ exact' > 0 => NextOrAgain(at', chain_upto', crop', exact')
    BY <1>2, <1>4, <1>6, <1>10, <1>11, <1>12
  <1>14. /\ chain_upto' \in -1 .. K - 1 /\ target' \in 0 .. K - 1 /\ at' \in 0 .. target'
         /\ call' \in {"idle", "rendering"} /\ exact' \in 0 .. Width
         /\ crop' \in Crops \cup {WholeImage}
    BY <1>1, <1>2, <1>4, <1>6, <1>10
  <1> QED
    BY <1>2, <1>3, <1>7, <1>13, <1>14, BlankTyped, ShownStays

LEMMA CatchUpStep ==
  ASSUME AnimationInv, call = "rendering", CatchUp
  PROVE  AnimationInv'
  <1> DEFINE n == KeyAt(at)
             d == Draw(n, refs, surface, crop)
             e == Draw(n, refs, Blank, crop)
  <1>1. /\ frames \in Animations /\ K \in Nat \ {0} /\ exact \in 0 .. Width /\ Width \in Nat
        /\ target \in 0 .. K - 1 /\ at \in 0 .. target /\ at \in 0 .. K - 1
        /\ calls \in 0 .. MaxCalls /\ crop \in Crops \cup {WholeImage} /\ crop \in Parts
        /\ n \in 1 .. L /\ refs \in Store /\ surface \in Canvas
    BY TypedOnce DEF AnimationInv, AnimationTypeOK, SurfaceInv
  <1>2. /\ at < target /\ Renderable(n) /\ refs' = d.refs
        /\ chain_upto' = at /\ at' = at + 1
        /\ surface' = IF at' < target THEN d.canvas ELSE Blank
        /\ exact' = IF surface # Blank /\ ReadsCanvas(n, refs) THEN 0 ELSE exact
        /\ UNCHANGED <<frames, crop, target, calls, call, shown>>
    BY DEF CatchUp, Rendered
  <1>3. d \in Picture /\ e \in Picture
    BY <1>1, BlankTyped, DrawTyped
  <1>4. /\ exact > 0 => HoldsChain(e.refs, at, exact)
        /\ exact > 0 => NextOrAgain(at, chain_upto, crop, exact)
    BY <1>2, RenderedInLine DEF AnimationInv, InLineInv
  <1>5. FirstOfChain(at) = at + 1
    BY <1>1, FirstNext DEF None, FirstOfChain
  <1>6. ASSUME exact' > 0
        PROVE  HoldsChain(d.refs, at, exact) /\ NextOrAgain(at + 1, at, crop, exact)
    <2>1. exact' = exact /\ exact > 0 /\ (surface = Blank \/ ~ReadsCanvas(n, refs))
      BY <1>1, <1>2, <1>6
    <2>2. crop.left = 0 /\ exact <= crop.width
      BY <1>4, <2>1 DEF NextOrAgain
    <2>3. NextOrAgain(at + 1, at, crop, exact)
      BY <1>5, <2>2 DEF NextOrAgain
    <2>4. \A s \in Slots : SlotAgrees(d.refs, e.refs, s, exact)
      BY <1>1, <2>1, <2>2, BlankTyped, CanvasUnread
    <2> HIDE DEF d, e
    <2>5. HoldsChain(d.refs, at, exact)
      BY <1>4, <2>1, <2>4, SlotAgreesThen DEF HoldsChain
    <2> QED
      BY <2>3, <2>5
  <1> HIDE DEF n, d, e
  <1>7. refs' \in Store /\ surface' \in Canvas /\ exact' \in 0 .. Width
    BY <1>1, <1>2, <1>3, BlankTyped DEF Picture
  <1>8. at + 1 \in 0 .. target /\ at \in -1 .. K - 1 /\ at + 1 # at
    BY <1>1, <1>2
  <1>9. surface' # Blank => call' = "rendering" /\ at' < target' /\ at' # chain_upto'
    BY <1>2, <1>8
  <1>10. exact' > 0 => exact' = exact
    BY <1>1, <1>2
  <1>11. /\ exact' > 0 => HoldsChain(refs', chain_upto', exact')
         /\ exact' > 0 => NextOrAgain(at', chain_upto', crop', exact')
    BY <1>2, <1>6, <1>10
  <1>12. /\ chain_upto' \in -1 .. K - 1 /\ target' \in 0 .. K - 1 /\ at' \in 0 .. target'
         /\ call' \in {"idle", "rendering"} /\ calls' \in 0 .. MaxCalls
         /\ crop' \in Crops \cup {WholeImage}
    BY <1>1, <1>2, <1>8
  <1> QED
    BY <1>2, <1>7, <1>9, <1>11, <1>12, ShownStays

LEMMA ShowStep ==
  ASSUME AnimationInv, call = "rendering", Show
  PROVE  AnimationInv'
  <1>1. /\ frames \in Animations /\ K \in Nat \ {0} /\ exact \in 0 .. Width
        /\ target \in 0 .. K - 1 /\ at \in 0 .. target /\ at \in 0 .. K - 1
        /\ calls \in 0 .. MaxCalls /\ crop \in Crops \cup {WholeImage}
    BY TypedOnce DEF AnimationInv, AnimationTypeOK
  <1> DEFINE d == Draw(KeyAt(at), refs, Blank, crop)
             sh == [k |-> target, px |-> d.canvas, crop |-> crop, exact |-> exact]
  <1>0. surface = Blank /\ Blank \in Canvas
    BY <1>1, BlankTyped DEF Show, AnimationInv, SurfaceInv
  <1>2. /\ at = target /\ Renderable(KeyAt(at)) /\ refs' = d.refs
        /\ chain_upto' = at /\ shown' = sh /\ call' = "idle"
        /\ UNCHANGED <<frames, crop, target, calls, exact, at, surface>>
    BY <1>0 DEF Show, Rendered
  <1>3. /\ d \in Picture
        /\ exact > 0 => HoldsChain(d.refs, at, exact)
        /\ exact > 0 => \A p \in 1 .. exact : d.canvas[p] = InOrder[at].canvas[p]
        /\ frames[KeyAt(at)].encoding = "modular" => d.canvas = Cut(InOrder[at].canvas, crop)
    BY <1>2, RenderedInLine
  <1> HIDE DEF d
  <1>4. sh.k = at /\ sh.px = d.canvas /\ sh.crop = crop /\ sh.exact = exact
    BY <1>2
  <1>5. PicturePlays(sh)
    <2>1. \A p \in 1 .. exact : d.canvas[p] = InOrder[at].canvas[p]
      BY <1>1, <1>3
    <2> HIDE DEF sh
    <2> QED
      BY <1>4, <2>1 DEF PicturePlays
  <1>6. PictureIsCut(sh)
    <2> HIDE DEF sh
    <2> QED
      BY <1>3, <1>4 DEF PictureIsCut
  <1>7. refs' \in Store /\ at \in -1 .. K - 1
    BY <1>1, <1>2, <1>3 DEF Picture
  <1> HIDE DEF sh
  <1>8. /\ exact' > 0 => HoldsChain(refs', chain_upto', exact')
        /\ PicturePlays(shown') /\ PictureIsCut(shown')
        /\ shown'.k \in -1 .. K - 1 /\ shown'.crop \in Crops \cup {WholeImage}
    BY <1>1, <1>2, <1>3, <1>4, <1>5, <1>6, <1>7
  <1> QED
    BY <1>0, <1>1, <1>2, <1>7, <1>8, StepKeeps

LEMMA FailShowingStep ==
  ASSUME AnimationInv, call = "rendering", FailShowing
  PROVE  AnimationInv'
  <1>1. /\ frames \in Animations /\ K \in Nat \ {0} /\ exact \in 0 .. Width
        /\ target \in 0 .. K - 1 /\ at \in 0 .. target /\ at \in -1 .. K - 1
        /\ calls \in 0 .. MaxCalls /\ crop \in Crops \cup {WholeImage}
    BY TypedOnce DEF AnimationInv, AnimationTypeOK
  <1>0. surface = Blank /\ Blank \in Canvas
    BY <1>1, BlankTyped DEF FailShowing, AnimationInv, SurfaceInv
  <1>2. /\ Renderable(KeyAt(at)) /\ refs' = Draw(KeyAt(at), refs, Blank, crop).refs
        /\ chain_upto' = at /\ call' = "idle"
        /\ UNCHANGED <<frames, crop, target, calls, exact, at, surface, shown>>
    BY <1>0 DEF FailShowing, Rendered
  <1>3. /\ refs' \in Store
        /\ exact > 0 => HoldsChain(refs', at, exact)
    BY <1>2, RenderedInLine DEF Picture
  <1> QED
    BY <1>0, <1>1, <1>2, <1>3, ShownStays

\* A call that fails leaves slots that are right, or that the next one in line
\* puts right.
LEMMA FailureKeeps ==
  ASSUME AnimationInv, call' = "idle", surface' = Blank,
         UNCHANGED <<frames, crop, chain_upto, target, at, shown, calls>>,
         refs' \in Store, exact' \in 0 .. Width, exact' > 0 => exact' = exact,
         exact' > 0 =>
           \A s \in Slots :
             \/ refs'[s] = refs[s]
             \/ ReplayAhead(chain_upto) /\ SavedBy(KeyAt(FirstOfChain(chain_upto)), s)
  PROVE  AnimationInv'
  <1>1. /\ target \in 0 .. K - 1 /\ at \in 0 .. target /\ chain_upto \in -1 .. K - 1
        /\ calls \in 0 .. MaxCalls /\ crop \in Crops \cup {WholeImage}
    BY TypedOnce DEF AnimationInv, AnimationTypeOK
  <1>2. ASSUME exact' > 0 PROVE HoldsChain(refs', chain_upto, exact)
    <2>1. HoldsChain(refs, chain_upto, exact)
      BY <1>2 DEF AnimationInv, ChainInv
    <2> QED
      BY <1>2, <2>1 DEF HoldsChain, SlotAgrees
  <1>3. exact' > 0 => HoldsChain(refs', chain_upto', exact')
    BY <1>2
  <1> QED
    BY <1>1, <1>3, BlankTyped, ShownStays

LEMMA StoreBeforeTyped ==
  ASSUME AnimationInv, NEW m \in Composed(KeyAt(at))
  PROVE  /\ StoreBefore(m, KeyAt(at), refs, surface) \in Store /\ m \in 1 .. L
         /\ frames[KeyAt(at)].encoding = "vardct" =>
              m = KeyAt(at) /\ StoreBefore(m, KeyAt(at), refs, surface) = refs
         /\ frames[KeyAt(at)].encoding = "modular" =>
              \A s \in Slots : ~SavedBy(KeyAt(at), s) =>
                               StoreBefore(m, KeyAt(at), refs, surface)[s] = refs[s]
  <1> DEFINE n == KeyAt(at)
  <1>1. /\ frames \in Animations /\ n \in 1 .. L /\ refs \in Store /\ L \in Nat
        /\ surface \in Canvas
        /\ frames[n].encoding \in {"vardct", "modular"}
    BY TypedOnce, FramesTyped DEF AnimationInv, SurfaceInv
  <1> HIDE DEF n
  <1>2. CASE frames[n].encoding = "vardct"
    BY <1>1, <1>2 DEF Composed, StoreBefore, n
  <1>3. CASE frames[n].encoding = "modular"
    <2>1. m \in 1 .. n
      BY <1>3 DEF Composed, n
    <2>2. /\ m \in 1 .. L /\ m - 1 \in 0 .. L /\ m - 1 \in Nat /\ n \in Nat /\ m - 1 <= n
      BY <1>1, <2>1
    <2>3. StoreBefore(m, n, refs, surface) = Replay(refs, surface, crop)[m - 1].refs
      BY <1>3 DEF StoreBefore
    <2>4. StoreBefore(m, n, refs, surface) \in Store
      BY <1>1, <2>2, <2>3, ReplayUnfolds DEF Picture
    <2>5. ASSUME NEW s \in Slots, ~SavedBy(n, s) PROVE StoreBefore(m, n, refs, surface)[s] = refs[s]
      <3>1. ~SavedBy(m - 1, s)
        BY <2>2, <2>5, SavedByMore
      <3> QED
        BY <1>1, <2>2, <2>3, <3>1, ReplayLeaves
    <2> QED
      BY <1>3, <2>2, <2>4, <2>5 DEF n
  <1> QED
    BY <1>1, <1>2, <1>3

LEMMA FailBeforeStep ==
  ASSUME AnimationInv, NEW m \in 1 .. Len(frames), FailBefore(m)
  PROVE  AnimationInv'
  <1> DEFINE n == KeyAt(at)
  <1>1. /\ m \in Composed(n) /\ refs' = StoreBefore(m, n, refs, surface) /\ call' = "idle" /\ surface' = Blank
        /\ exact' = IF refs' = refs \/ RetryRepairs THEN exact ELSE 0
        /\ UNCHANGED <<frames, crop, chain_upto, target, at, shown, calls>>
    BY DEF FailBefore, ExactAfterFailure
  <1>2. exact \in 0 .. Width /\ Width \in Nat /\ frames[n].encoding \in {"vardct", "modular"}
    BY TypedOnce DEF AnimationInv
  <1>3. /\ refs' \in Store /\ exact' \in 0 .. Width /\ (exact' > 0 => exact' = exact)
    BY <1>1, <1>2, StoreBeforeTyped
  <1>4. ASSUME exact' > 0, NEW s \in Slots
        PROVE  \/ refs'[s] = refs[s]
               \/ ReplayAhead(chain_upto) /\ SavedBy(KeyAt(FirstOfChain(chain_upto)), s)
    <2>1. refs' = refs \/ RetryRepairs
      BY <1>1, <1>4
    <2>2. CASE RetryRepairs
      <3>1. at = FirstOfChain(chain_upto) /\ ReplayAhead(chain_upto)
        BY <2>2 DEF RetryRepairs
      <3>2. frames[n].encoding = "modular"
        BY <3>1 DEF ReplayAhead
      <3>3. ~SavedBy(n, s) => refs'[s] = refs[s]
        BY <1>1, <3>2, StoreBeforeTyped
      <3> QED
        BY <3>1, <3>3
    <2> QED
      BY <2>1, <2>2
  <1> QED
    BY <1>1, <1>3, <1>4, FailureKeeps

LEMMA FailSavingStep ==
  ASSUME AnimationInv, NEW m \in 1 .. Len(frames), FailSaving(m)
  PROVE  AnimationInv'
  <1> DEFINE n == KeyAt(at)
             store == StoreBefore(m, n, refs, surface)
  <1>1. /\ m \in Composed(n) /\ refs' = LoseSlot(m, store) /\ call' = "idle" /\ surface' = Blank
        /\ CanReference(frames[m])
        /\ exact' = IF refs' = refs \/ RetryRepairs THEN exact ELSE 0
        /\ UNCHANGED <<frames, crop, chain_upto, target, at, shown, calls>>
    BY DEF FailSaving, ExactAfterFailure
  <1>2. /\ exact \in 0 .. Width /\ Width \in Nat /\ frames \in Animations
        /\ n \in 1 .. L /\ L \in Nat
    BY TypedOnce, FramesTyped DEF AnimationInv
  <1>3. store \in Store /\ m \in 1 .. L
    BY <1>1, StoreBeforeTyped
  <1>4. /\ refs' \in Store /\ exact' \in 0 .. Width /\ (exact' > 0 => exact' = exact)
    <2> HIDE DEF store
    <2>1. LoseSlot(m, store) \in Store
      BY <1>2, <1>3, BlankTyped, SaveTyped
    <2> QED
      BY <1>1, <1>2, <2>1
  <1>5. ASSUME exact' > 0, NEW s \in Slots
        PROVE  \/ refs'[s] = refs[s]
               \/ ReplayAhead(chain_upto) /\ SavedBy(KeyAt(FirstOfChain(chain_upto)), s)
    <2>1. refs' = refs \/ RetryRepairs
      BY <1>1, <1>5
    <2>2. CASE RetryRepairs
      <3>1. at = FirstOfChain(chain_upto) /\ ReplayAhead(chain_upto)
        BY <2>2 DEF RetryRepairs
      <3>2. frames[n].encoding = "modular"
        BY <3>1 DEF ReplayAhead
      <3>3. ASSUME ~SavedBy(n, s) PROVE refs'[s] = refs[s]
        <4>1. store[s] = refs[s]
          BY <1>1, <3>2, <3>3, StoreBeforeTyped
        <4>2. m \in 1 .. n
          BY <1>1, <3>2 DEF Composed
        <4>3. frames[m].save # s
          BY <1>1, <3>3, <4>2 DEF SavedBy
        <4>4. LoseSlot(m, store)[s] = store[s]
          <5> HIDE DEF store
          <5> QED
            BY <1>3, <4>3 DEF LoseSlot, Store
        <4> QED
          BY <1>1, <4>1, <4>4
      <3> QED
        BY <3>1, <3>3
    <2> QED
      BY <2>1, <2>2
  <1> HIDE DEF store
  <1> QED
    BY <1>1, <1>4, <1>5, FailureKeeps

LEMMA FailComposedStep ==
  ASSUME AnimationInv, FailComposed
  PROVE  AnimationInv'
  <1> DEFINE n == KeyAt(at)
             d == Draw(n, refs, surface, crop)
  <1>1. /\ call = "rendering" /\ frames[n].encoding = "modular" /\ Renderable(n)
        /\ refs' = d.refs /\ call' = "idle" /\ surface' = Blank
        /\ UNCHANGED <<frames, crop, chain_upto, target, at, shown, calls, exact>>
    BY DEF FailComposed
  <1>2. /\ exact \in 0 .. Width /\ Width \in Nat /\ frames \in Animations /\ refs \in Store
        /\ n \in 1 .. L /\ n \in 0 .. L /\ at \in 0 .. K - 1 /\ K \in Nat
        /\ chain_upto \in -1 .. K - 1 /\ target \in 0 .. K - 1 /\ at \in 0 .. target
        /\ calls \in 0 .. MaxCalls /\ crop \in Crops \cup {WholeImage} /\ surface \in Canvas
        /\ (at = chain_upto => surface = Blank)
    BY TypedOnce DEF AnimationInv, AnimationTypeOK, SurfaceInv
  <1>3. /\ d \in Picture
        /\ (exact > 0 /\ at = chain_upto => HoldsChain(d.refs, at, exact))
    BY <1>1, <1>2, DrawTyped, RenderedInLine
  <1>4. refs' \in Store
    BY <1>1, <1>3 DEF Picture
  <1>5. \A s \in Slots : ~SavedBy(n, s) => d.refs[s] = refs[s]
    BY <1>1, <1>2, ReplayLeaves DEF Draw
  <1> HIDE DEF d
  <1>6. ASSUME exact > 0 PROVE HoldsChain(d.refs, chain_upto, exact)
    <2>1. /\ HoldsChain(refs, chain_upto, exact)
          /\ NextOrAgain(at, chain_upto, crop, exact)
      BY <1>1, <1>6 DEF AnimationInv, ChainInv, InLineInv
    <2>2. CASE at = chain_upto
      BY <1>3, <1>6, <2>2
    <2>3. CASE at = FirstOfChain(chain_upto)
      <3>1. ReplayAhead(chain_upto)
        <4>1. at < NumKeyframes
          BY <1>2 DEF K
        <4> QED
          BY <1>1, <2>3, <4>1 DEF ReplayAhead
      <3>2. ASSUME NEW s \in Slots, ~SavedBy(n, s), SlotAgrees(refs, InOrder[chain_upto].refs, s, exact)
            PROVE  SlotAgrees(d.refs, InOrder[chain_upto].refs, s, exact)
        BY <1>5, <3>2 DEF SlotAgrees
      <3> QED
        BY <2>1, <2>3, <3>1, <3>2 DEF HoldsChain
    <2> QED
      BY <2>1, <2>2, <2>3 DEF NextOrAgain
  <1>7. exact' > 0 => HoldsChain(refs', chain_upto', exact')
    BY <1>1, <1>6
  <1> QED
    BY <1>1, <1>2, <1>4, <1>7, BlankTyped, ShownStays

LEMMA AnimationStepInv == AnimationInv /\ [AnimationNext]_animationVars => AnimationInv'
  <1> SUFFICES ASSUME AnimationInv, [AnimationNext]_animationVars PROVE AnimationInv'
    OBVIOUS
  <1>1. ASSUME NEW k \in 0 .. NumKeyframes - 1, RenderCall(k) PROVE AnimationInv'
    BY <1>1, RenderCallStep DEF K
  <1>2. ASSUME NEW r \in Crops, SetCrop(r) PROVE AnimationInv'
    BY <1>2, SetCropStep
  <1>3. CASE CatchUp
    BY <1>3, CatchUpStep DEF CatchUp, Rendered
  <1>4. CASE Show
    BY <1>4, ShowStep DEF Show, Rendered
  <1>5. CASE FailComposed
    BY <1>5, FailComposedStep
  <1>6. CASE FailShowing
    BY <1>6, FailShowingStep DEF FailShowing, Rendered
  <1>7. ASSUME NEW m \in 1 .. Len(frames), FailBefore(m) PROVE AnimationInv'
    BY <1>7, FailBeforeStep
  <1>8. ASSUME NEW m \in 1 .. Len(frames), FailSaving(m) PROVE AnimationInv'
    BY <1>8, FailSavingStep
  <1>9. CASE UNCHANGED animationVars
    <2>1. UNCHANGED <<frames, crop, refs, chain_upto, target, at, surface, call, shown, calls, exact>>
      BY <1>9 DEF animationVars
    <2>2. /\ target \in 0 .. K - 1 /\ at \in 0 .. target /\ chain_upto \in -1 .. K - 1
          /\ calls \in 0 .. MaxCalls /\ crop \in Crops \cup {WholeImage}
          /\ exact \in 0 .. Width /\ refs \in Store /\ call \in {"idle", "rendering"}
      BY TypedOnce DEF AnimationInv, AnimationTypeOK
    <2>3. /\ exact > 0 => HoldsChain(refs, chain_upto, exact)
          /\ call = "rendering" /\ exact > 0 => NextOrAgain(at, chain_upto, crop, exact)
      BY DEF AnimationInv, ChainInv, InLineInv
    <2>4. surface \in Canvas /\ (surface # Blank => call = "rendering" /\ at < target /\ at # chain_upto)
      BY DEF AnimationInv, SurfaceInv
    <2> QED
      BY <2>1, <2>2, <2>3, <2>4, ShownStays
  <1> QED
    BY <1>1, <1>2, <1>3, <1>4, <1>5, <1>6, <1>7, <1>8, <1>9 DEF AnimationNext

LEMMA AlwaysAnimationInv == AnimationSpec => []AnimationInv
  <1> QED
    BY AnimationInitInv, AnimationStepInv, PTL DEF AnimationSpec

-----------------------------------------------------------------------------
(* The theorems *)

\* jxl_decoder_render_keyframe leaves animation_refs, animation_chain_upto and
\* the keyframes it walks through within the animation, however it ends.
THEOREM AnimationTypeCorrect == AnimationSpec => []AnimationTypeOK
  <1>1. AnimationInv => AnimationTypeOK
    BY DEF AnimationInv
  <1> QED
    BY <1>1, AlwaysAnimationInv, PTL

\* Asked for in any order, again, and after calls that failed, a keyframe
\* rendered in line (ensure_animation_refs) is the one of the animation played
\* in order, in every pixel that the crops set so far have, unless one that was
\* caught up on took the canvas of another for an empty slot.
THEOREM AlwaysPlaysInOrder == AnimationSpec => []PlaysInOrder
  <1>1. AnimationInv => PlaysInOrder
    BY DEF AnimationInv, PicturePlays, PlaysInOrder
  <1> QED
    BY <1>1, AlwaysAnimationInv, PTL

\* animation_chain_upto always says of animation_refs what they hold, except
\* behind a replay that the next keyframe in line does again to its end, and
\* behind a keyframe that read the canvas (temp) of those caught up on before it.
THEOREM AlwaysRefsFollowChain == AnimationSpec => []RefsFollowChain
  <1>1. AnimationInv => RefsFollowChain
    BY DEF AnimationInv, ChainInv, HoldsChain, SlotAgrees, RefsFollowChain
  <1> QED
    BY <1>1, AlwaysAnimationInv, PTL

\* jxl_modular_encode_keyframe replays a modular keyframe from the codestream:
\* whatever was rendered or failed before, it is the crop's part of the picture
\* of the animation played in order.
THEOREM AlwaysModularHistoryFree == AnimationSpec => []ModularHistoryFree
  <1>1. AnimationInv => ModularHistoryFree
    BY DEF AnimationInv, PictureIsCut, ModularHistoryFree
  <1> QED
    BY <1>1, AlwaysAnimationInv, PTL
=============================================================================
