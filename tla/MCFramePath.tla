------------------------------ MODULE MCFramePath ------------------------------
(* What becomes of a frame: its sections are put together from the bytes fed, *)
(* keyframes are rendered from it, and at the other end it is written into    *)
(* boxes.  One machine runs; the others rest in their first state.            *)
EXTENDS MCFrameAssembly, MCAnimation, MCEncoderOutput

VARIABLE machine        \* the one that runs

RestFrame == FrameOf(<<1, 1, 1>>, <<0>>, <<0>>, 2, 4, 0)
RestAnimation == <<V("replace", {1, 2}, 0, 1), M("add", {1}, 1, 1), End(V("add", {1, 2}, 1, 0))>>

FramesInit ==
  /\ machine \in {"assembly", "animation", "output"}
  /\ Init /\ (machine # "assembly" => frame = RestFrame)
  /\ AnimationInit /\ (machine # "animation" => frames = RestAnimation)
  /\ OutputInit /\ (machine # "output" => setup = [container |-> FALSE, store |-> FALSE,
                                                   large |-> FALSE])

EncoderWorks == machine = "output" /\ Working /\ UNCHANGED <<machine, vars, animationVars>>
ApplicationAsks == machine = "output" /\ Asking /\ UNCHANGED <<machine, vars, animationVars>>

FramesNext ==
  /\ UNCHANGED machine
  /\ \/ machine = "assembly" /\ Next /\ UNCHANGED <<animationVars, outputVars>>
     \/ machine = "animation" /\ AnimationNext /\ UNCHANGED <<vars, outputVars>>
     \/ machine = "output" /\ OutputNext /\ UNCHANGED <<vars, animationVars>>

everyVar == <<machine, vars, animationVars, outputVars>>

\* The encoder's fairness is that of OutputFairSpec.
FramesSpec ==
  /\ FramesInit /\ [][FramesNext]_everyVar
  /\ WF_everyVar(EncoderWorks) /\ WF_everyVar(ApplicationAsks)
===============================================================================
