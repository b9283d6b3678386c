----------------------------- MODULE MCInterrupts -----------------------------
(***************************************************************************)
(* An instance of Interrupts.  What memory holds for k_reenter may be 0, as *)
(* on an emulator, or such that the first or the second activation on       *)
(* kernel_main takes itself for one of the first level.                     *)
(***************************************************************************)
EXTENDS Interrupts

MCLeftover == {-2, -1, 0}
=============================================================================
