---------------------------- MODULE MCTokenReader ----------------------------
EXTENDS TokenReader

\* Streams of up to three symbols: values, runs of the value before, of the row
\* above, from beyond the window and too long ones; for a channel with a hoisted
\* loop, channels without one, and channels that are read as runs.
MCSpecial == <<<<0, 1>>, <<1, 0>>, <<-1, 1>>>>
Lit(v) == [run |-> FALSE, v |-> v, n |-> 0, d |-> 0]
Rep(n, d) == [run |-> TRUE, v |-> 0, n |-> n, d |-> d]
Streams(S) == UNION {[1 .. m -> S] : m \in 0 .. 3}
LzTokens == {Lit(1), Lit(2), Rep(0, 1), Rep(1, 2), Rep(5, 4), Rep(9, 0), Rep(19, 1)}
RleTokens == {Lit(1), Lit(2), Rep(0, 1), Rep(3, 1), Rep(19, 1)}

Chan(k, w, h) == [kind |-> k, width |-> w, height |-> h]
Hoisting == <<Chan("slow", 3, 3), Chan("slow", 5, 3)>>
Plain == <<Chan("plain", 2, 1), Chan("slow", 0, 3), Chan("slow", 1, 3)>>
Fast == <<Chan("fast", 2, 2), Chan("fast", 1, 2)>>
Mixed == <<Chan("fast", 2, 2), Chan("slow", 1, 2)>>

MCImages ==
  [tokens : Streams(LzTokens), channels : {Hoisting}, ans : BOOLEAN, rle : {FALSE}]
  \cup [tokens : Streams(LzTokens), channels : {Plain, Mixed}, ans : {FALSE}, rle : {FALSE}]
  \cup [tokens : Streams(RleTokens), channels : {Plain}, ans : {FALSE}, rle : {TRUE}]
  \cup [tokens : Streams(RleTokens), channels : {Fast}, ans : BOOLEAN, rle : {TRUE}]
=============================================================================
