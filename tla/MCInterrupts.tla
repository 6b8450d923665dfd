---------------------------- MODULE MCInterrupts ----------------------------
(***************************************************************************)
(* Interrupts needs no bounds: pending interrupts, the controller's buffer *)
(* and temp are finite, so every sequence of ticks, key presses and        *)
(* spurious vectors is explored.                                           *)
(***************************************************************************)
EXTENDS Interrupts
=============================================================================
