------------------------------ MODULE MCConsole ------------------------------
(***************************************************************************)
(* A screen of two by two and a half characters: like 1440 x 900 at 8 x 16 *)
(* it is not a whole number of rows high.                                  *)
(***************************************************************************)
EXTENDS Console

MCMessages ==
  {<<"glyph", "glyph">>, <<"newline">>, <<"backspace">>, <<"high", "glyph">>}
MCInterrupts ==
  {[text |-> <<"glyph", "newline">>, printed |-> TRUE],
   [text |-> <<"glyph">>, printed |-> FALSE],
   [text |-> <<"backspace">>, printed |-> FALSE],
   [text |-> <<"high">>, printed |-> TRUE]}
=============================================================================
