--------------------------- MODULE MCFrameAssembly ---------------------------
(* Frames of one section, of five in every order, and of ten in a few       *)
(* orders, with empty sections in front, inside and at the end, and what    *)
(* follows the frame: nothing, the next frame, or a codestream cut off.     *)
EXTENDS FrameAssembly

\* The frame that starts at base, its table up to start, these sizes, and extra
\* bytes of the codestream behind it (missing, if negative).
FrameOf(shape, order, sizes, base, start, extra) ==
  LET n == Len(sizes)
      begins[i \in 0 .. n] == IF i = 0 THEN start ELSE begins[i - 1] + sizes[i]
  IN  [lf |-> shape[1], groups |-> shape[2], passes |-> shape[3],
       order |-> [k \in 0 .. n - 1 |-> order[k + 1]],
       sizes |-> [k \in 0 .. n - 1 |-> sizes[k + 1]],
       begins |-> begins, base |-> base, start |-> start, end |-> begins[n] + extra]

Orders(n) == {p \in [1 .. n -> 0 .. n - 1] : {p[i] : i \in 1 .. n} = 0 .. n - 1}

Single == {FrameOf(<<1, 1, 1>>, <<0>>, <<m>>, 2, 4, x) : m \in {0, 3}, x \in {0, 1}}
Passes == {FrameOf(<<1, 1, 2>>, o, z, 3, 5, 1) :
             o \in Orders(5), z \in {<<1, 0, 2, 1, 0>>, <<0, 2, 1, 0, 2>>}}
Groups == {FrameOf(<<2, 3, 2>>, o, <<1, 0, 2, 0, 1, 1, 0, 1, 1, 0>>, 2, 3, 0) :
             o \in {<<0, 1, 2, 3, 4, 5, 6, 7, 8, 9>>, <<9, 8, 7, 6, 5, 4, 3, 2, 1, 0>>,
                    <<3, 0, 1, 2, 7, 4, 9, 6, 5, 8>>}}
CutOff == {FrameOf(<<1, 1, 2>>, <<2, 0, 1, 4, 3>>, <<1, 1, 1, 1, 1>>, 2, 4, -1)}
TooLarge == {FrameOf(<<3, 3, 2>>, [i \in 1 .. 11 |-> 11 - i], [i \in 1 .. 11 |-> 1], 2, 4, 0)}

MCFrames == Single \cup Passes \cup Groups \cup CutOff \cup TooLarge
=============================================================================
