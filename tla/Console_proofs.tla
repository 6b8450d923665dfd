---------------------------- MODULE Console_proofs ---------------------------
(***************************************************************************)
(* The console under interrupts, for every screen, font, text and handler. *)
(* A handler may move the cursor between any two accesses of the kernel's  *)
(* own call; the proof rests on what the kernel then still holds in        *)
(* registers having been on the screen.                                    *)
(***************************************************************************)
EXTENDS Console, TLAPS

\* A character of the text is being put.
Inside == {"draw", "adv_load", "adv_store", "adv_test", "nl_x", "nl_load",
           "nl_store", "nl_test", "nl_zero", "bs_x", "bs_y", "bs_erase",
           "bs_store_x", "bs_store_y"}
Erasing == {"bs_erase", "bs_store_x", "bs_store_y"}

\* What the kernel holds in registers across an interrupt was on the screen
\* when it was read, or was computed from that.
Registers ==
  /\ pc \in {"adv_store", "bs_y"} => rx < WIDTH
  /\ pc = "nl_store" => ry < HEIGHT
  /\ pc \in Erasing => rx + FONT_WIDTH <= WIDTH /\ ry < HEIGHT

Places ==
  /\ x \in Nat /\ y \in Nat /\ rx \in Nat /\ ry \in Nat /\ top \in Nat
  /\ pc \in Steps /\ row \in 0 .. FONT_HEIGHT
  /\ pc = "draw" => row < FONT_HEIGHT
  /\ CursorOnScreen /\ WritesMapped /\ Registers

Texts ==
  /\ print_buffer \in [1 .. BufferSize -> Chars \cup {NUL}]
  /\ msg \in Seq(Chars) /\ Len(msg) < BufferSize /\ i \in 1 .. Len(msg) + 1
  /\ pc \in Inside => i <= Len(msg)
  /\ rest \in Seq(Chars)

IInv == Places /\ Texts

-----------------------------------------------------------------------------
(* Pixels. *)

\* The last pixel of a character that starts less than one character outside
\* the screen is mapped.
LEMMA WrittenMapped ==
  ASSUME NEW px \in Nat, px < WIDTH + FONT_WIDTH,
         NEW py \in Nat, py < HEIGHT + 2 * FONT_HEIGHT - 1,
         top \in Nat, top <= Mapped
  PROVE  Written(px, py) \in Nat /\ Written(px, py) <= Mapped
<1> DEFINE h == HEIGHT + 2 * FONT_HEIGHT
<1>1. /\ WIDTH \in Nat /\ FONT_WIDTH \in Nat /\ h \in Nat /\ Mapped \in Nat
      /\ h * WIDTH + 2 * FONT_WIDTH <= Mapped /\ py + 2 <= h
  BY FontAssumption, MappedAssumption
<1> HIDE DEF h
<1>2. \A a, b, c \in Nat : a <= b => a * c <= b * c
  OBVIOUS
<1>3. (py + 2) * WIDTH <= h * WIDTH
  BY <1>1, <1>2
<1>4. (py + 2) * WIDTH = py * WIDTH + 2 * WIDTH /\ py * WIDTH \in Nat /\ h * WIDTH \in Nat
  BY <1>1
<1>5. py * WIDTH + px + FONT_WIDTH <= Mapped /\ py * WIDTH + px + FONT_WIDTH \in Nat
  BY <1>1, <1>3, <1>4
<1> QED
  BY <1>5 DEF Written

LEMMA ScreenMapped == WIDTH * HEIGHT \in Nat /\ WIDTH * HEIGHT <= Mapped
<1> DEFINE h == HEIGHT + 2 * FONT_HEIGHT
<1>1. /\ WIDTH \in Nat /\ HEIGHT \in Nat /\ FONT_WIDTH \in Nat /\ h \in Nat /\ Mapped \in Nat
      /\ h * WIDTH + 2 * FONT_WIDTH <= Mapped /\ HEIGHT <= h
  BY FontAssumption, MappedAssumption
<1> HIDE DEF h
<1>2. \A a, b, c \in Nat : a <= b => a * c <= b * c
  OBVIOUS
<1>3. HEIGHT * WIDTH <= h * WIDTH /\ HEIGHT * WIDTH = WIDTH * HEIGHT
      /\ HEIGHT * WIDTH \in Nat /\ h * WIDTH \in Nat
  BY <1>1, <1>2
<1> QED
  BY <1>1, <1>3

-----------------------------------------------------------------------------
(* The cursor, the registers and the pixels. *)

LEMMA KernelPlaces ==
  ASSUME IInv, KernelStep
  PROVE  Places'
<1> USE FontAssumption DEF IInv, Places, CursorOnScreen, WritesMapped, Registers, Steps,
        Erasing, cursor, locals, Kernel
<1>1. CASE CallPrint
  BY <1>1 DEF CallPrint
<1>2. CASE Format
  BY <1>2 DEF Format
<1>3. CASE Fetch
  BY <1>3 DEF Fetch, FetchStep
<1>4. CASE Draw
  <2>1. /\ pc = "draw" /\ top' = Written(x, y + row) /\ row' = row + 1
        /\ pc' = IF row + 1 < FONT_HEIGHT THEN "draw" ELSE "adv_load"
        /\ x' = x /\ y' = y /\ rx' = rx /\ ry' = ry
    BY <1>4 DEF Draw
  <2>2. x < WIDTH + FONT_WIDTH /\ y + row \in Nat /\ y + row < HEIGHT + 2 * FONT_HEIGHT - 1
    BY <2>1
  <2>3. top' \in Nat /\ top' <= Mapped
    BY <2>1, <2>2, WrittenMapped
  <2> QED BY <2>1, <2>3, MappedAssumption
<1>5. CASE AdvLoad
  BY <1>5 DEF AdvLoad
<1>6. CASE AdvStore
  BY <1>6 DEF AdvStore
<1>7. CASE AdvTest
  BY <1>7 DEF AdvTest, PastEdge
<1>8. CASE NlX
  BY <1>8 DEF NlX
<1>9. CASE NlLoad
  BY <1>9 DEF NlLoad
<1>10. CASE NlStore
  BY <1>10 DEF NlStore
<1>11. CASE NlTest
  BY <1>11 DEF NlTest, PastEnd
<1>12. CASE NlZero
  BY <1>12 DEF NlZero
<1>13. CASE BsX
  BY <1>13 DEF BsX
<1>14. CASE BsY
  BY <1>14 DEF BsY, BackWraps
<1>15. CASE BsErase
  <2>1. /\ pc = "bs_erase" /\ pc' = "bs_store_x" /\ top' = Written(rx, ry + FONT_HEIGHT - 1)
        /\ x' = x /\ y' = y /\ rx' = rx /\ ry' = ry /\ row' = row
    BY <1>15 DEF BsErase
  <2>2. rx < WIDTH + FONT_WIDTH /\ ry + FONT_HEIGHT - 1 \in Nat
        /\ ry + FONT_HEIGHT - 1 < HEIGHT + 2 * FONT_HEIGHT - 1
    BY <2>1
  <2>3. top' \in Nat /\ top' <= Mapped
    BY <2>1, <2>2, WrittenMapped
  <2> QED BY <2>1, <2>3, MappedAssumption
<1>16. CASE BsStoreX
  BY <1>16 DEF BsStoreX
<1>17. CASE BsStoreY
  BY <1>17 DEF BsStoreY
<1>18. CASE Clear
  BY <1>18, ScreenMapped, MappedAssumption DEF Clear
<1>19. CASE ClearX
  BY <1>19 DEF ClearX
<1>20. CASE ClearY
  BY <1>20 DEF ClearY
<1> QED
  BY <1>1, <1>2, <1>3, <1>4, <1>5, <1>6, <1>7, <1>8, <1>9, <1>10, <1>11, <1>12, <1>13,
     <1>14, <1>15, <1>16, <1>17, <1>18, <1>19, <1>20 DEF KernelStep

\* A handler's put_char finds the cursor at most one character off the screen
\* and leaves it on it or where it was.
LEMMA HandlerPlaces ==
  ASSUME IInv, HandlerGlyph \/ HandlerNewline \/ HandlerBackspace \/ HandlerHigh
  PROVE  Places'
<1> USE FontAssumption DEF IInv, Places, Steps, Erasing, cursor, locals
<1>1. /\ pc' = pc /\ row' = row /\ rx' = rx /\ ry' = ry
  BY DEF HandlerGlyph, HandlerNewline, HandlerBackspace, HandlerHigh, Handler
<1>2. Registers'
  BY <1>1 DEF Registers
<1>3. x < WIDTH + FONT_WIDTH /\ y < HEIGHT + FONT_HEIGHT
  BY DEF CursorOnScreen
<1>4. NextLine(y) \in Nat /\ NextLine(y) < HEIGHT
  BY DEF NextLine, PastEnd
<1>5. top \in Nat /\ top <= Mapped /\ Mapped \in Nat
  BY MappedAssumption DEF WritesMapped
<1>6. CASE HandlerGlyph
  <2>1. /\ top' = Written(x, y + FONT_HEIGHT - 1)
        /\ IF PastEdge(x + FONT_WIDTH) THEN x' = 0 /\ y' = NextLine(y)
           ELSE x' = x + FONT_WIDTH /\ y' = y
    BY <1>6 DEF HandlerGlyph
  <2>2. y + FONT_HEIGHT - 1 \in Nat /\ y + FONT_HEIGHT - 1 < HEIGHT + 2 * FONT_HEIGHT - 1
    BY <1>3
  <2>3. top' \in Nat /\ top' <= Mapped
    BY <1>3, <1>5, <2>1, <2>2, WrittenMapped
  <2>4. x' \in Nat /\ y' \in Nat /\ CursorOnScreen'
    BY <1>1, <1>3, <1>4, <2>1 DEF PastEdge, CursorOnScreen
  <2> QED BY <1>1, <1>2, <1>5, <2>3, <2>4 DEF WritesMapped
<1>7. CASE HandlerNewline
  <2>1. x' = 0 /\ y' = NextLine(y) /\ top' = top
    BY <1>7 DEF HandlerNewline
  <2> QED BY <1>1, <1>2, <1>4, <1>5, <2>1 DEF WritesMapped, CursorOnScreen
<1>8. CASE HandlerBackspace
  <2>1. CASE /\ ~BackWraps(x) /\ x' = x - FONT_WIDTH /\ y' = y
             /\ top' = Written(x - FONT_WIDTH, y + FONT_HEIGHT - 1)
    <3>1. /\ x - FONT_WIDTH \in Nat /\ x - FONT_WIDTH < WIDTH
          /\ y + FONT_HEIGHT - 1 \in Nat /\ y + FONT_HEIGHT - 1 < HEIGHT + 2 * FONT_HEIGHT - 1
      BY <1>3, <2>1 DEF BackWraps
    <3>2. x - FONT_WIDTH < WIDTH + FONT_WIDTH
      BY <3>1
    <3>3. top' \in Nat /\ top' <= Mapped
      BY <1>5, <2>1, <3>1, <3>2, WrittenMapped
    <3>4. CursorOnScreen'
      BY <1>1, <2>1, <3>1 DEF CursorOnScreen
    <3> QED BY <1>1, <1>2, <1>5, <2>1, <3>1, <3>3, <3>4 DEF WritesMapped
  <2>2. CASE /\ y >= FONT_HEIGHT /\ x' = WIDTH - FONT_WIDTH /\ y' = y - FONT_HEIGHT
             /\ top' = Written(WIDTH - FONT_WIDTH, y - 1)
    <3>1. /\ WIDTH - FONT_WIDTH \in Nat /\ WIDTH - FONT_WIDTH < WIDTH
          /\ y - FONT_HEIGHT \in Nat /\ y - FONT_HEIGHT < HEIGHT
          /\ y - 1 \in Nat /\ y - 1 < HEIGHT + 2 * FONT_HEIGHT - 1
      BY <1>3, <2>2
    <3>2. WIDTH - FONT_WIDTH < WIDTH + FONT_WIDTH
      BY <3>1
    <3>3. top' \in Nat /\ top' <= Mapped
      BY <1>5, <2>2, <3>1, <3>2, WrittenMapped
    <3>4. CursorOnScreen'
      BY <1>1, <2>2, <3>1 DEF CursorOnScreen
    <3> QED BY <1>1, <1>2, <1>5, <2>2, <3>1, <3>3, <3>4 DEF WritesMapped
  <2>3. CASE x' = x /\ y' = y /\ top' = top
    BY <1>1, <1>2, <2>3 DEF WritesMapped, CursorOnScreen
  <2> QED BY <1>8, <2>1, <2>2, <2>3 DEF HandlerBackspace
<1>9. CASE HandlerHigh
  <2>1. x' = x /\ y' = y /\ top' = top
    BY <1>9 DEF HandlerHigh
  <2> QED BY <1>1, <1>2, <2>1 DEF WritesMapped, CursorOnScreen
<1> QED
  BY <1>6, <1>7, <1>8, <1>9

-----------------------------------------------------------------------------
(* The text. *)

\* What every step of the kernel but CallPrint and Format does to the text: it
\* leaves it, and moves on to the next character only from a character.
LEMMA TextsStay ==
  ASSUME IInv, print_buffer' = print_buffer, msg' = msg, rest' = rest,
         \/ i' = i /\ (pc' \in Inside => pc \in Inside \/ i <= Len(msg))
         \/ i' = i + 1 /\ i <= Len(msg) /\ pc' \notin Inside
  PROVE  Texts'
BY DEF IInv, Texts

LEMMA KernelTexts ==
  ASSUME IInv, KernelStep
  PROVE  Texts'
<1> USE DEF Kernel, cursor, locals
<1>1. CASE CallPrint
  <2>1. /\ msg' \in Seq(Chars) /\ Len(msg') < BufferSize
    BY <1>1, TextAssumption DEF CallPrint
  <2>2. print_buffer' = print_buffer /\ rest' = rest /\ i' = 1 /\ pc' = "format"
    BY <1>1 DEF CallPrint
  <2> QED BY <2>1, <2>2 DEF IInv, Texts, Inside
<1>2. CASE Format
  <2> DEFINE ch == IF i <= Len(msg) THEN msg[i] ELSE NUL
  <2>1. /\ print_buffer' = [print_buffer EXCEPT ![i] = ch]
        /\ i' = IF i <= Len(msg) THEN i + 1 ELSE 1
        /\ msg' = msg /\ rest' = rest /\ pc' \in {"format", "fetch"}
    BY <1>2 DEF Format
  <2>2. ch \in Chars \cup {NUL}
    BY DEF IInv, Texts
  <2> HIDE DEF ch
  <2>3. print_buffer' \in [1 .. BufferSize -> Chars \cup {NUL}]
    BY <2>1, <2>2, Zenon DEF IInv, Texts
  <2>4. i' \in 1 .. Len(msg) + 1
    BY <2>1 DEF IInv, Texts
  <2>5. pc' \notin Inside
    BY <2>1 DEF Inside
  <2> QED BY <2>1, <2>3, <2>4, <2>5 DEF IInv, Texts
<1>3. CASE Fetch
  BY <1>3, TextsStay DEF Fetch, FetchStep, Inside
<1>4. CASE Draw
  BY <1>4, TextsStay DEF Draw, Inside
<1>5. CASE AdvLoad \/ AdvStore
  BY <1>5, TextsStay DEF AdvLoad, AdvStore, Inside
<1>6. CASE AdvTest
  <2>1. i <= Len(msg)
    BY <1>6 DEF AdvTest, IInv, Texts, Inside
  <2> QED BY <1>6, <2>1, TextsStay DEF AdvTest, Inside
<1>7. CASE NlX \/ NlLoad \/ NlStore
  BY <1>7, TextsStay DEF NlX, NlLoad, NlStore, Inside
<1>8. CASE NlTest
  <2>1. i <= Len(msg)
    BY <1>8 DEF NlTest, IInv, Texts, Inside
  <2> QED BY <1>8, <2>1, TextsStay DEF NlTest, Inside
<1>9. CASE NlZero
  <2>1. i <= Len(msg)
    BY <1>9 DEF NlZero, IInv, Texts, Inside
  <2> QED BY <1>9, <2>1, TextsStay DEF NlZero, Inside
<1>10. CASE BsX \/ BsErase \/ BsStoreX
  BY <1>10, TextsStay DEF BsX, BsErase, BsStoreX, Inside
<1>11. CASE BsY
  <2>1. i <= Len(msg)
    BY <1>11 DEF BsY, IInv, Texts, Inside
  <2> QED BY <1>11, <2>1, TextsStay DEF BsY, Inside
<1>12. CASE BsStoreY
  <2>1. i <= Len(msg)
    BY <1>12 DEF BsStoreY, IInv, Texts, Inside
  <2> QED BY <1>12, <2>1, TextsStay DEF BsStoreY, Inside
<1>13. CASE Clear \/ ClearX \/ ClearY
  BY <1>13, TextsStay DEF Clear, ClearX, ClearY, Inside
<1> QED
  BY <1>1, <1>2, <1>3, <1>4, <1>5, <1>6, <1>7, <1>8, <1>9, <1>10, <1>11, <1>12, <1>13
  DEF KernelStep

\* A handler may replace the text under the kernel's print, never lengthen it.
LEMMA InterruptKeeps ==
  ASSUME IInv, NEW h \in Interrupts, Interrupt(h)
  PROVE  IInv'
<1>1. h.text \in Seq(Chars) /\ Len(h.text) < BufferSize
  BY TextAssumption
<1>2. /\ x' = x /\ y' = y /\ top' = top /\ pc' = pc /\ msg' = msg /\ i' = i
      /\ row' = row /\ rx' = rx /\ ry' = ry /\ rest' = h.text
  BY DEF Interrupt, cursor, locals
<1>3. Places'
  BY <1>2 DEF IInv, Places, CursorOnScreen, WritesMapped, Registers
<1>4. print_buffer' \in [1 .. BufferSize -> Chars \cup {NUL}]
  <2> DEFINE b(j) == IF j <= Len(h.text) THEN h.text[j]
                     ELSE IF j = Len(h.text) + 1 THEN NUL ELSE print_buffer[j]
  <2>1. CASE h.printed
    <3>1. print_buffer' = [j \in 1 .. BufferSize |-> b(j)]
      BY <2>1 DEF Interrupt
    <3>2. ASSUME NEW j \in 1 .. BufferSize
          PROVE  b(j) \in Chars \cup {NUL}
      <4>1. j <= Len(h.text) => h.text[j] \in Chars
        BY <1>1
      <4>2. print_buffer[j] \in Chars \cup {NUL}
        BY DEF IInv, Texts
      <4> QED BY <4>1, <4>2
    <3> HIDE DEF b
    <3> QED BY <3>1, <3>2
  <2>2. CASE ~h.printed
    BY <2>2 DEF Interrupt, IInv, Texts
  <2> QED BY <2>1, <2>2
<1> QED
  BY <1>1, <1>2, <1>3, <1>4 DEF IInv, Texts

LEMMA HandlerTexts ==
  ASSUME IInv, HandlerGlyph \/ HandlerNewline \/ HandlerBackspace \/ HandlerHigh
  PROVE  Texts'
<1>1. /\ print_buffer' = print_buffer /\ pc' = pc /\ msg' = msg /\ i' = i
      /\ rest # <<>> /\ rest' = Tail(rest)
  BY DEF HandlerGlyph, HandlerNewline, HandlerBackspace, HandlerHigh, Handler, locals
<1>2. rest' \in Seq(Chars)
  BY <1>1 DEF IInv, Texts
<1> QED
  BY <1>1, <1>2 DEF IInv, Texts

-----------------------------------------------------------------------------
(* The theorems. *)

LEMMA InitIInv == Init => IInv
<1> SUFFICES ASSUME Init
             PROVE  IInv
  OBVIOUS
<1>1. Places
  BY FontAssumption, MappedAssumption
  DEF Init, Places, CursorOnScreen, WritesMapped, Registers, Steps, Erasing
<1>2. Texts
  BY TextAssumption DEF Init, Texts, Inside
<1> QED
  BY <1>1, <1>2 DEF IInv

LEMMA StepIInv == IInv /\ [Next]_vars => IInv'
<1> SUFFICES ASSUME IInv, [Next]_vars
             PROVE  IInv'
  OBVIOUS
<1>1. CASE KernelStep
  BY <1>1, KernelPlaces, KernelTexts DEF IInv
<1>2. ASSUME NEW h \in Interrupts, Interrupt(h)
      PROVE  IInv'
  BY <1>2, InterruptKeeps
<1>3. CASE HandlerGlyph \/ HandlerNewline \/ HandlerBackspace \/ HandlerHigh
  BY <1>3, HandlerPlaces, HandlerTexts DEF IInv
<1>4. CASE UNCHANGED vars
  BY <1>4 DEF vars, cursor, locals, IInv, Places, Texts, CursorOnScreen, WritesMapped, Registers
<1> QED
  BY <1>1, <1>2, <1>3, <1>4 DEF Next

LEMMA Inductive == Spec => []IInv
<1> QED
  BY InitIInv, StepIInv, PTL DEF Spec

\* print never touches print_buffer outside the text and its NUL, also when a
\* handler prints over it half way.
THEOREM BufferKept == Spec => []TypeOK
<1>1. IInv => TypeOK
  BY DEF IInv, Places, Texts, TypeOK
<1> QED
  BY <1>1, Inductive, PTL

\* Whatever coordinates the kernel stores back after a handler moved the
\* cursor, the cursor leaves the screen only until the test behind the store.
THEOREM CursorKept == Spec => []CursorOnScreen
<1>1. IInv => CursorOnScreen
  BY DEF IInv, Places
<1> QED
  BY <1>1, Inductive, PTL

\* Every pixel written, by the kernel or by a handler, is mapped.
THEOREM PixelsMapped == Spec => []WritesMapped
<1>1. IInv => WritesMapped
  BY DEF IInv, Places
<1> QED
  BY <1>1, Inductive, PTL
=============================================================================
