------------------------------- MODULE Keyboard ------------------------------
(***************************************************************************)
(* The keyboard driver (kernel/device/keyboard.c): keyboard_intr_handler   *)
(* turns the scan codes (set 1) that a keyboard sends into characters and  *)
(* the state of the control keys.                                          *)
(*                                                                         *)
(* Outside src/: the keyboard.  It sends the bytes of a key event together *)
(* and in order; a held key repeats its make code; the grey keys wrap      *)
(* their code in a fake shift; Pause sends make and break at once.  Each   *)
(* byte carries, for the properties only, what the keys meant when it was  *)
(* sent.                                                                   *)
(***************************************************************************)
EXTENDS Integers, Sequences, FiniteSets

CONSTANTS
  Keys,    \* the keys of the keyboard at hand
  MaxWire  \* bound: bytes under way before another key event

KeyNames == {"shift_l", "shift_r", "ctrl_l", "ctrl_r", "alt_l", "alt_r",
             "caps_lock", "a", "1", "left", "pause"}

ASSUME KeysAssumption == Keys \subseteq KeyNames /\ MaxWire \in Nat

VARIABLES
  ctrl_status, alt_status, shift_status, caps_status, ext_status,
  echo,    \* what the last character was printed from, or Nothing
  held,    \* the keys that are down
  caps_on, \* Caps Lock has been pressed an odd number of times
  unsure,  \* the modifiers no driver of one flag could tell: see Overlaps
  wire     \* the bytes sent and not yet read

flags == <<ctrl_status, alt_status, shift_status, caps_status>>
keys == <<held, caps_on, unsure>>
vars == <<flags, ext_status, echo, keys, wire>>

EXT_CODE == 224
SHIFT_L_MAKE == 42
SHIFT_R_MAKE == 54
ALT_L_MAKE == 56
ALT_R_MAKE == EXT_CODE * 256 + 56
CTRL_L_MAKE == 29
CTRL_R_MAKE == EXT_CODE * 256 + 29
CAPS_LOCK_MAKE == 58

\* keymap has an entry for each code up to Caps Lock; these have no character.
Keymap == 0 .. CAPS_LOCK_MAKE
NoCharacter ==
  {0, CTRL_L_MAKE, SHIFT_L_MAKE, SHIFT_R_MAKE, ALT_L_MAKE, CAPS_LOCK_MAKE}
Nothing == [key |-> 0, up |-> FALSE, shift |-> "up", caps |-> FALSE]

-----------------------------------------------------------------------------
(* Slips of the code that the checks must notice.                          *)

\* The upper end of keymap is not tested.
HasEntryNoEnd(code) == code > 0

\* A break code is compared by its low byte, the prefix forgotten.
BrokenLowByte(code) == (code % 256) - 128

\* ext_status is not cleared by the byte it applies to.
ExtAfterKept(byte) == ext_status

-----------------------------------------------------------------------------
(* The keyboard.                                                           *)

Make == [k \in KeyNames |->
  CASE k = "shift_l" -> <<42>>  [] k = "shift_r" -> <<54>>
    [] k = "ctrl_l" -> <<29>>   [] k = "ctrl_r" -> <<EXT_CODE, 29>>
    [] k = "alt_l" -> <<56>>    [] k = "alt_r" -> <<EXT_CODE, 56>>
    [] k = "caps_lock" -> <<58>>
    [] k = "a" -> <<30>>        [] k = "1" -> <<2>>
    [] k = "left" -> <<EXT_CODE, 42, EXT_CODE, 75>>
    [] k = "pause" -> <<225, 29, 69, 225, 157, 197>>]

Break == [k \in KeyNames |->
  CASE k = "left" -> <<EXT_CODE, 203, EXT_CODE, 170>>
    [] k = "pause" -> <<>>
    [] OTHER -> LET m == Make[k]
                IN [m EXCEPT ![Len(m)] = m[Len(m)] + 128]]

\* With Ctrl down the Pause key is Break and sends other codes.
Typed(k, ks) == IF k = "pause" /\ {"ctrl_l", "ctrl_r"} \cap ks # {}
                THEN <<EXT_CODE, 70, EXT_CODE, 198>> ELSE Make[k]

Modifiers == {"shift", "ctrl", "alt"}
KeysOf == [m \in Modifiers |-> CASE m = "shift" -> {"shift_l", "shift_r"}
                                 [] m = "ctrl" -> {"ctrl_l", "ctrl_r"}
                                 [] m = "alt" -> {"alt_l", "alt_r"}]
Down(m, ks) == KeysOf[m] \cap ks # {}

\* A modifier is unsure once both its keys are down together, until neither is.
Overlaps(ks) ==
  {m \in Modifiers : \/ KeysOf[m] \subseteq ks
                     \/ m \in unsure /\ Down(m, ks)}

Meaning(ks, doubt) == IF "shift" \in doubt THEN "unsure"
                      ELSE IF Down("shift", ks) THEN "down" ELSE "up"

Tagged(bytes, ks, doubt, caps) ==
  [i \in 1 .. Len(bytes) |->
     [byte |-> bytes[i], shift |-> Meaning(ks, doubt), caps |-> caps,
      second |-> i > 1 /\ bytes[i - 1] = EXT_CODE]]

Send(bytes, ks, doubt, caps) ==
  /\ Len(wire) <= MaxWire
  /\ wire' = wire \o Tagged(bytes, ks, doubt, caps)
  /\ held' = ks /\ unsure' = doubt /\ caps_on' = caps
  /\ UNCHANGED <<flags, ext_status, echo>>

Press(k) ==
  /\ k \notin held
  /\ LET ks == held \cup {k}
     IN Send(Typed(k, ks), ks, Overlaps(ks), (k = "caps_lock") # caps_on)

Repeat(k) ==
  /\ k \in held \ {"pause"}
  /\ Send(Make[k], held, unsure, caps_on)

Release(k) ==
  /\ k \in held
  /\ LET ks == held \ {k} IN Send(Break[k], ks, Overlaps(ks), caps_on)

-----------------------------------------------------------------------------
(* keyboard_intr_handler reads one byte and runs to its end.               *)

Init ==
  /\ ctrl_status = FALSE /\ alt_status = FALSE /\ shift_status = FALSE
  /\ caps_status = FALSE /\ ext_status = FALSE
  /\ echo = Nothing /\ wire = <<>> /\ caps_on = FALSE
  /\ held \in SUBSET Keys            \* keys may be down when the driver starts
  /\ unsure = {m \in Modifiers : Down(m, held)}

Code(byte) == IF ext_status THEN EXT_CODE * 256 + byte ELSE byte
Broken(code) == code - 128
ExtAfter(byte) == FALSE
HasEntry(code) == code > 0 /\ code < 59

IsLetter(code) == code \in (16 .. 25) \cup (30 .. 38) \cup (44 .. 50)
Up(code) == IF IsLetter(code) THEN shift_status # caps_status ELSE shift_status

Reads(e) ==
  wire # <<>> /\ e = Head(wire) /\ wire' = Tail(wire) /\ UNCHANGED keys

ReadPrefix ==
  \E e \in {Head(wire)} :
    /\ Reads(e) /\ e.byte = EXT_CODE
    /\ ext_status' = TRUE
    /\ UNCHANGED <<flags, echo>>

ReadBreak ==
  \E e \in {Head(wire)} :
    /\ Reads(e) /\ e.byte # EXT_CODE /\ e.byte >= 128
    /\ ext_status' = ExtAfter(e.byte)
    /\ LET code == Broken(Code(e.byte))
       IN /\ ctrl_status' =
               (ctrl_status /\ code \notin {CTRL_L_MAKE, CTRL_R_MAKE})
          /\ shift_status' =
               (shift_status /\ code \notin {SHIFT_L_MAKE, SHIFT_R_MAKE})
          /\ alt_status' = (alt_status /\ code \notin {ALT_L_MAKE, ALT_R_MAKE})
    /\ UNCHANGED <<caps_status, echo>>

\* The prefix is dropped before keymap and the control keys are consulted.
ReadMake ==
  \E e \in {Head(wire)} :
    /\ Reads(e) /\ e.byte < 128
    /\ HasEntry(Code(e.byte)) \/ Code(e.byte) \in {ALT_R_MAKE, CTRL_R_MAKE}
    /\ ext_status' = ExtAfter(e.byte)
    /\ LET key == Code(e.byte) % 256
       IN IF key \notin NoCharacter
          THEN /\ echo' = [key |-> key, up |-> Up(Code(e.byte)),
                           shift |-> e.shift, caps |-> e.caps]
               /\ UNCHANGED flags
          ELSE /\ ctrl_status' = (ctrl_status \/ key = CTRL_L_MAKE)
               /\ shift_status' =
                    (shift_status \/ key \in {SHIFT_L_MAKE, SHIFT_R_MAKE})
               /\ alt_status' = (alt_status \/ key = ALT_L_MAKE)
               /\ UNCHANGED <<caps_status, echo>>

ReadOther ==
  \E e \in {Head(wire)} :
    /\ Reads(e) /\ e.byte < 128
    /\ ~HasEntry(Code(e.byte)) /\ Code(e.byte) \notin {ALT_R_MAKE, CTRL_R_MAKE}
    /\ ext_status' = ExtAfter(e.byte)
    /\ UNCHANGED <<flags, echo>>

keyboard_intr_handler ==
  wire # <<>> /\ (ReadPrefix \/ ReadBreak \/ ReadMake \/ ReadOther)

Next ==
  \/ \E k \in Keys : Press(k) \/ Repeat(k) \/ Release(k)
  \/ keyboard_intr_handler

Spec == Init /\ [][Next]_vars

-----------------------------------------------------------------------------
(* Properties.                                                             *)

\* Types; in particular a character is only ever looked up inside keymap.
TypeOK ==
  /\ {ctrl_status, alt_status, shift_status, caps_status, ext_status}
       \subseteq BOOLEAN
  /\ echo.key \in Keymap /\ echo.up \in BOOLEAN
  /\ held \subseteq Keys /\ caps_on \in BOOLEAN /\ unsure \subseteq Modifiers

Status == [shift |-> shift_status, ctrl |-> ctrl_status, alt |-> alt_status]

\* Once every byte is read, a control key's flag is up only if one of its keys
\* is down, and exactly then if its two keys were not used together: fake
\* shifts, Pause, repeats and keys held since before the start do not disturb
\* the flags.
ModifiersAgree ==
  wire = <<>> => \A m \in Modifiers :
    /\ Status[m] => Down(m, held)
    /\ m \notin unsure => (Status[m] <=> Down(m, held))

\* The handler never mistakes the second byte of a pair for a code of its own,
\* nor a plain code for the second byte.
Aligned == ext_status <=> wire # <<>> /\ Head(wire).second

\* A character has the case its key had when it was typed, however late its
\* byte is read (letters while Caps Lock is on aside).
ShiftHonoured ==
  echo.shift # "unsure" /\ ~(IsLetter(echo.key) /\ echo.caps)
    => (echo.up <=> echo.shift = "down")

\* "Letters are affected by SHIFT and CAPS_LOCK together" (keyboard.c:112).
CapsHonoured ==
  IsLetter(echo.key) /\ echo.shift # "unsure"
    => (echo.up <=> (echo.shift = "down") # echo.caps)
=============================================================================
