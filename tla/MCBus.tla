-------------------------------- MODULE MCBus --------------------------------
(* Model checking the link layer against arbitrary traffic on the line. *)
EXTENDS Bus, TLC

\* The contents are interchangeable: safety only.
Symmetry == Permutations(Contents)

\* What the next steps depend on: all but the history, which no liveness
\* property names.
WithoutHistory == <<state, curVars, sendAck, nextByteIndex, retryVars, rxVars, irq, pc>>
=============================================================================
