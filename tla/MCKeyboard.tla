------------------------------ MODULE MCKeyboard -----------------------------
(***************************************************************************)
(* One keyboard with every kind of key, few of each so that all orders of  *)
(* presses, repeats and releases stay in reach.                            *)
(***************************************************************************)
EXTENDS Keyboard

MCKeys ==
  {"shift_l", "shift_r", "ctrl_r", "caps_lock", "a", "left", "pause"}
LockKeys == {"shift_l", "caps_lock", "a"}
=============================================================================
