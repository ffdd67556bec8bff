-------------------------------- MODULE MCBcu --------------------------------
(* Model checking the main loop with a few telegrams from remote devices. *)
EXTENDS Bcu, TLC
=============================================================================
