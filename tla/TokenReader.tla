----------------------------- MODULE TokenReader -----------------------------
(***************************************************************************)
(* The values of a modular sub-image, pixel after pixel and channel after  *)
(* channel (modular/subimage_decode.c, channel_decode.c,                   *)
(* channel_decode_slow.c), read from LZ77 symbols (coding/cdecoder.c).     *)
(* There are three ways to read one: from the decoder's LZ77 state; from a *)
(* copy of it, hoisted out of the inner loop of a row; and, if every run   *)
(* repeats the last value, from a run length alone (RLE).                  *)
(***************************************************************************)
EXTENDS Integers, Sequences, FiniteSetsExt

CONSTANTS
  WindowSize,     \* 2^20 in the code
  Capacities,     \* sizes the window is allocated with: 64, 128, ... 2^20
  Special,        \* the table of special distances, <<offset, rows>>
  MinLength,      \* lz_min_length
  MaxLength,      \* UINT32_MAX
  Images          \* [tokens, channels, ans, rle]: what a bitstream holds; tokens
                  \* [run, v, n, d], channels [kind, width, height]

Kinds == {"fast", "plain", "slow"}      \* of the channel's tree

ASSUME WindowAssumption ==
  /\ WindowSize \in Nat \ {0} /\ Capacities \subseteq Nat
  /\ \A o \in 0 .. WindowSize - 1 :
       \E c \in Capacities : /\ c > o /\ c <= WindowSize
                             /\ \A e \in Capacities : e > o => c <= e

ASSUME LengthAssumption == MinLength \in Nat \ {0} /\ MaxLength \in Nat /\ MinLength <= MaxLength

\* The second special distance is that of the value before.
ASSUME SpecialAssumption ==
  /\ Special \in Seq(Int \X Int) /\ Len(Special) >= 2
  /\ Special[2] = <<1, 0>>

\* RLE mode: the histogram of the distances has one symbol, 1.
ASSUME ImagesAssumption ==
  \A i \in Images :
    /\ i.tokens \in Seq([run : BOOLEAN, v : Nat, n : Nat, d : Nat])
    /\ i.channels \in Seq([kind : Kinds, width : Nat, height : Nat])
    /\ i.ans \in BOOLEAN /\ i.rle \in BOOLEAN
    /\ i.rle => \A k \in 1 .. Len(i.tokens) : i.tokens[k].run => i.tokens[k].d = 1

\* One of finitely many channels is the widest.
ChannelWidths(i) == {0} \cup {i.channels[k].width : k \in 1 .. Len(i.channels)}
ASSUME WidestAssumption ==
  \A i \in Images : \E w \in ChannelWidths(i) : \A u \in ChannelWidths(i) : w >= u

VARIABLES
  image,          \* what is read (never changes)
  lz,             \* the decoder's [left, from, count]: num_to_copy, copy_pos, num_decoded
  slot,           \* the hoisted copy of them
  hoisted,
  window,
  rle,            \* [left, last]: repeat and last_raw or last_i16
  at,             \* [ch, x, y], the pixel that is next
  taken,          \* tokens read
  out,            \* the values read: a history
  result          \* "OK", "done" or an error

tokenVars == <<image, lz, slot, hoisted, window, rle, at, taken, out, result>>

Stale == -1                             \* never written
Copying(left, from, count) == [left |-> left, from |-> from, count |-> count]
Repeating(left, last) == [left |-> left, last |-> last]
At(ch, x, y) == [ch |-> ch, x |-> x, y |-> y]

Channel == image.channels[at.ch]
Empty(c) == c.width = 0 \/ c.height = 0
AllFast ==
  \A k \in 1 .. Len(image.channels) : Empty(image.channels[k]) \/ image.channels[k].kind = "fast"
Multiplier == Max(ChannelWidths(image))        \* dist_multiplier

TokenInit ==
  /\ image \in Images
  /\ lz = Copying(0, 0, 0) /\ slot = lz /\ hoisted = FALSE
  /\ window = [o \in {} |-> Stale]
  /\ rle = Repeating(0, 0)
  /\ at = At(1, 0, 0) /\ taken = 0 /\ out = <<>> /\ result = "OK"

InChannel ==
  /\ result = "OK" /\ at.ch <= Len(image.channels)
  /\ ~Empty(Channel) /\ at.y < Channel.height
NextPixel ==
  IF at.x + 1 < Channel.width THEN At(at.ch, at.x + 1, at.y) ELSE At(at.ch, 0, at.y + 1)

\* The slow path, beyond two rows and between two columns at either edge.
RightStart == IF Channel.width < 4 THEN Channel.width ELSE Channel.width - 2
MustHoist ==
  /\ InChannel /\ Channel.kind = "slow" /\ image.ans
  /\ at.y >= 2 /\ at.x \in 2 .. RightStart - 1

HoistBegin ==
  /\ MustHoist /\ ~hoisted
  /\ hoisted' = TRUE /\ slot' = lz
  /\ UNCHANGED <<image, lz, window, rle, at, taken, out, result>>

CommitAnsOnly == lz
Committed == slot
HoistCommit ==
  /\ hoisted /\ result = "OK" /\ ~MustHoist
  /\ hoisted' = FALSE /\ lz' = Committed
  /\ UNCHANGED <<image, slot, window, rle, at, taken, out, result>>

Cur == IF hoisted THEN slot ELSE lz
Becomes(s) ==
  IF hoisted THEN slot' = s /\ UNCHANGED lz ELSE lz' = s /\ UNCHANGED slot

Error(e) == result' = e /\ UNCHANGED <<out, at>>
Hand(v) == out' = Append(out, v) /\ at' = NextPixel /\ UNCHANGED result

\* jxl_coding_decoder_lz77_store_at, with the first size that has a place o.
Fits(o) == o \in DOMAIN window
Enlarged(o) ==
  CHOOSE c \in Capacities : c > o /\ \A e \in Capacities : e > o => c <= e
CopiedBelow(o, c) == [i \in 0 .. c - 1 |-> IF i + 1 < o THEN window[i] ELSE Stale]
Copied(o, c) == [i \in 0 .. c - 1 |-> IF i < o THEN window[i] ELSE Stale]
Room(o) == IF Fits(o) THEN window ELSE Copied(o, Enlarged(o))

\* s with v behind it; or no memory for it.
Store(s, v) ==
  LET o == s.count % WindowSize
      w == Room(o)
  IN  \/ /\ Becomes(Copying(s.left, s.from, s.count + 1))
         /\ window' = [i \in DOMAIN w |-> IF i = o THEN v ELSE w[i]]
         /\ Hand(v)
      \/ ~Fits(o) /\ Becomes(s) /\ UNCHANGED window /\ Error("OUT_OF_MEMORY")

\* Where a run begins.
Far(d) ==
  IF Multiplier = 0 THEN d
  ELSE IF d < Len(Special)
       THEN LET near == Special[d + 1][1] + Multiplier * Special[d + 1][2] - 1
            IN  IF near > 0 THEN near ELSE 0
       ELSE d - Len(Special)
Least(m, n) == IF m < n THEN m ELSE n
Distance(d, count) == Least(Least(WindowSize - 1, Far(d)) + 1, count)

\* The next value of a run that began at from.
Repeated(s) ==
  Store(Copying(s.left - 1, s.from + 1, s.count), window[s.from % WindowSize])

ByLz77 == InChannel /\ hoisted = MustHoist /\ ~(image.rle /\ Channel.kind = "fast")
More == taken < Len(image.tokens)
Token == image.tokens[taken + 1]
Excessive(t) == t.n > MaxLength - MinLength

CopyValue ==
  /\ ByLz77 /\ Cur.left > 0 /\ Repeated(Cur)
  /\ UNCHANGED <<image, hoisted, rle, taken>>

ReadLiteral ==
  /\ ByLz77 /\ Cur.left = 0 /\ More /\ ~Token.run
  /\ Store(Cur, Token.v) /\ taken' = taken + 1
  /\ UNCHANGED <<image, hoisted, rle>>

ReadRun ==
  /\ ByLz77 /\ Cur.left = 0 /\ More /\ Token.run /\ Cur.count > 0 /\ ~Excessive(Token)
  /\ Repeated(Copying(Token.n + MinLength, Cur.count - Distance(Token.d, Cur.count), Cur.count))
  /\ taken' = taken + 1
  /\ UNCHANGED <<image, hoisted, rle>>

\* A run with nothing before it, one that is too long, and the end of the
\* stream, behind the length of a run too, which is stored then.  The callers
\* read no more.
RefuseToken ==
  /\ ByLz77 /\ Cur.left = 0
  /\ \/ ~More /\ Error("EOF") /\ Becomes(Copying(MinLength, Cur.from, Cur.count))
     \/ ~More /\ Error("EOF") /\ Becomes(Cur)
     \/ /\ More /\ Token.run /\ Becomes(Cur)
        /\ IF Cur.count = 0 THEN Error("UNEXPECTED_LZ77_REPEAT")
           ELSE Excessive(Token) /\ Error("INVALID_LZ77_SYMBOL")
  /\ UNCHANGED <<image, hoisted, window, rle, taken>>

ByRle == InChannel /\ image.rle /\ Channel.kind = "fast"

RepeatValue ==
  /\ ByRle /\ rle.left > 0
  /\ rle' = Repeating(rle.left - 1, rle.last) /\ Hand(rle.last)
  /\ UNCHANGED <<image, lz, slot, hoisted, window, taken>>

\* The symbol t. Prefix codes are read by the trusted path, which checks
\* nothing: a length wraps around, and so does one less than 0.
RleSymbol(t) ==
  IF ~t.run THEN rle' = Repeating(0, t.v) /\ Hand(t.v)
  ELSE IF image.ans
       THEN /\ ~Excessive(t)
            /\ rle' = Repeating(t.n + MinLength - 1, rle.last) /\ Hand(rle.last)
       ELSE /\ rle' = Repeating((t.n + MinLength - 1) % (MaxLength + 1), rle.last)
            /\ Hand(rle.last)

ReadRle ==
  /\ ByRle /\ rle.left = 0 /\ More
  /\ RleSymbol(Token) /\ taken' = taken + 1
  /\ UNCHANGED <<image, lz, slot, hoisted, window>>

RefuseRle ==
  /\ ByRle /\ rle.left = 0 /\ image.ans
  /\ IF More THEN Excessive(Token) /\ Token.run /\ Error("INVALID_LZ77_SYMBOL") ELSE Error("EOF")
  /\ UNCHANGED <<image, lz, slot, hoisted, window, rle, taken>>

\* Behind the end there are zeros, and the symbol they stand for.
ReadBehindEnd ==
  /\ ByRle /\ rle.left = 0 /\ ~image.ans /\ ~More
  /\ \E t \in {[run |-> FALSE, v |-> 0, n |-> 0, d |-> 0], [run |-> TRUE, v |-> 0, n |-> 0, d |-> 1]} :
       RleSymbol(t)
  /\ taken' = taken + 1
  /\ UNCHANGED <<image, lz, slot, hoisted, window>>

\* One RLE state for all channels if all are fast, else one for each.
NextChannel ==
  /\ result = "OK" /\ at.ch <= Len(image.channels)
  /\ ~InChannel /\ ~hoisted
  /\ at' = At(at.ch + 1, 0, 0)
  /\ rle' = IF AllFast THEN rle ELSE Repeating(0, 0)
  /\ UNCHANGED <<image, lz, slot, hoisted, window, taken, out, result>>

Finish ==
  /\ result = "OK" /\ at.ch > Len(image.channels)
  /\ result' = "done"
  /\ UNCHANGED <<image, lz, slot, hoisted, window, rle, at, taken, out>>

TokenNext ==
  \/ HoistBegin \/ HoistCommit
  \/ CopyValue \/ ReadLiteral \/ ReadRun \/ RefuseToken
  \/ RepeatValue \/ ReadRle \/ RefuseRle \/ ReadBehindEnd
  \/ NextChannel \/ Finish

TokenSpec == TokenInit /\ [][TokenNext]_tokenVars

-----------------------------------------------------------------------------
(* Properties *)

UsesRle == image.rle /\ \E k \in 1 .. Len(image.channels) : image.channels[k].kind = "fast"
\* The mode is not changed between the channels of a sub-image.
Unmixed == \A i \in Images : i.rle =>
             \/ \A k \in 1 .. Len(i.channels) : i.channels[k].kind = "fast"
             \/ \A k \in 1 .. Len(i.channels) : i.channels[k].kind # "fast"

\* However the window has grown and wrapped around, and whether the state is
\* the decoder's or hoisted, the window holds the last WindowSize values, each
\* where a run will look for it, and num_decoded counts them all.
WindowIsHistory ==
  (result = "OK" /\ ~UsesRle) =>
    /\ Cur.count = Len(out)
    /\ \A p \in 0 .. Len(out) - 1 :
         p + WindowSize >= Len(out) =>
           p % WindowSize \in DOMAIN window /\ window[p % WindowSize] = out[p + 1]

\* A trusted stream went wrong: a run that repeats nothing or is too long, or
\* the end.
Garbled ==
  UsesRle /\ \/ taken > Len(image.tokens)
             \/ \E k \in 1 .. Len(image.tokens) :
                  k <= taken /\ image.tokens[k].run /\ (k = 1 \/ Excessive(image.tokens[k]))

\* All three ways read the same values: those of LZ77 without a window, a
\* hoisted state or a run length.
Symbols ==
  [k \in 1 .. Len(image.tokens) |->
     LET t == image.tokens[k]
     IN  IF t.run THEN [n |-> t.n + MinLength, v |-> 0, back |-> Far(t.d) + 1]
         ELSE [n |-> 0, v |-> t.v, back |-> 0]]
RunLeft == IF UsesRle THEN rle.left ELSE Cur.left
RunBack ==
  IF RunLeft = 0 THEN 0
  ELSE IF UsesRle THEN 1 ELSE Cur.count - Cur.from
Outcome ==
  IF Garbled THEN "garbage" ELSE IF result \in {"OK", "done"} THEN result ELSE "error"
Lz == INSTANCE Lz77 WITH
  Reach <- WindowSize, Longest <- MaxLength,
  symbols <- Symbols, trusting <- UsesRle, next <- taken,
  left <- RunLeft, back <- RunBack, result <- Outcome
ReadsLz77 == Lz!Spec

\* "Rust only uses RLE reads on the all-fast-lossless path; otherwise LZ
\* varints" (channel_decode.c:859): otherwise every value goes through the
\* decoder's window.
VarintsUnlessAllFast == ~AllFast => Cur.count = Len(out)
=============================================================================
