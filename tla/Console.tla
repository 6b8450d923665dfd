------------------------------- MODULE Console -------------------------------
(***************************************************************************)
(* The console (kernel/console/console.c) with interrupts on: the kernel   *)
(* prints while interrupt handlers print on the same cursor and through    *)
(* the same print_buffer.  The Makefile asks for no optimisation, so each  *)
(* use of the cursor is a load or a store of its own and a handler may run *)
(* between any two; a handler itself runs with interrupts off, so its      *)
(* put_char is one step.  Fonts and colours are left out: a write is the   *)
(* pixel it goes to.  Only general_IRQ_handler calls print_color (intr.c:  *)
(* 148, 154), so only as a handler's print: that it reads a character of   *)
(* print_buffer up to three times (console.c:132) then makes no difference.*)
(***************************************************************************)
EXTENDS Integers, Sequences

CONSTANTS
  WIDTH, HEIGHT,           \* the screen, in pixels
  FONT_WIDTH, FONT_HEIGHT, \* one character, in pixels
  Mapped,                  \* pixels the loader maps behind SCREEN_BUFFER
  BufferSize,              \* bound: bytes of print_buffer in use
  Messages,                \* what the kernel prints
  Interrupts               \* what handlers print: text, and whether by print

Chars == {"glyph", "newline", "backspace", "high"}
NUL == "nul"   \* drawn like a glyph when put_char is given it

ASSUME FontAssumption ==
  /\ FONT_WIDTH \in Nat \ {0} /\ FONT_HEIGHT \in Nat \ {0}
  /\ WIDTH \in Nat \ {0} /\ HEIGHT \in Nat \ {0}
  /\ WIDTH >= FONT_WIDTH

\* 1440 x 900 pixels, 8 x 16 a character: 1342096 <= 3 * 2 MB / 4.
ASSUME MappedAssumption ==
  /\ Mapped \in Nat
  /\ (HEIGHT + 2 * FONT_HEIGHT) * WIDTH + 2 * FONT_WIDTH <= Mapped

ASSUME TextAssumption ==
  /\ BufferSize \in Nat \ {0}
  /\ Messages \subseteq {m \in Seq(Chars) : Len(m) < BufferSize}
  /\ Interrupts \subseteq
       [text : {m \in Seq(Chars) : Len(m) < BufferSize}, printed : BOOLEAN]

VARIABLES
  x, y,         \* console.cursor
  print_buffer, \* console.print_buffer
  top,          \* one more than the highest pixel written so far
  pc,           \* where the kernel's call is
  msg, i,       \* the call's format, and its index into it or the buffer
  row,          \* the pixel row put_char_color is at
  rx, ry,       \* a register or local holding a coordinate
  rest          \* what the running handler has still to print

cursor == <<x, y>>
locals == <<msg, i, row, rx, ry>>
vars == <<x, y, print_buffer, top, pc, msg, i, row, rx, ry, rest>>

-----------------------------------------------------------------------------
(* Slips of the code that the checks must notice.                          *)

\* next_line tests the row it leaves.
PastEndLate(py) == py > HEIGHT + 2 * FONT_HEIGHT

\* next_cursor lets the last glyph hang over the edge.
PastEdgeLate(px) == px > WIDTH

\* back_cursor steps back without looking.
BackStaysLeft(px) == FALSE

-----------------------------------------------------------------------------
Init ==
  /\ x = 0 /\ y = 0 /\ top = 0
  /\ print_buffer = [j \in 1 .. BufferSize |-> NUL]
  /\ pc = "idle" /\ msg = <<>> /\ i = 1 /\ row = 0 /\ rx = 0 /\ ry = 0
  /\ rest = <<>>

\* One pixel row of a character at column px, pixel row py is written.
Written(px, py) ==
  LET end == py * WIDTH + px + FONT_WIDTH
  IN IF end > top THEN end ELSE top

PastEnd(py) == py >= HEIGHT
PastEdge(px) == px >= WIDTH
BackWraps(px) == px < FONT_WIDTH

Shown(ch) == ch \in {"glyph", NUL}

(* The kernel's calls, one memory access at a time.                        *)

Kernel(from, to) == rest = <<>> /\ pc = from /\ pc' = to /\ UNCHANGED rest

CallPrint ==
  /\ Kernel("idle", "format")
  /\ msg' \in Messages /\ i' = 1
  /\ UNCHANGED <<cursor, print_buffer, top, row, rx, ry>>

\* vsprintf copies the text and ends it.
Format ==
  /\ Kernel("format", IF i <= Len(msg) THEN "format" ELSE "fetch")
  /\ print_buffer' = [print_buffer EXCEPT ![i] =
                        IF i <= Len(msg) THEN msg[i] ELSE NUL]
  /\ i' = IF i <= Len(msg) THEN i + 1 ELSE 1
  /\ UNCHANGED <<cursor, top, msg, row, rx, ry>>

FetchStep(to) ==
  Kernel("fetch", to) /\ UNCHANGED <<cursor, print_buffer, top, msg, rx, ry>>

\* The loop of print: put_char of the next character, at most len of them.
Fetch ==
  \/ i > Len(msg) /\ FetchStep("idle") /\ UNCHANGED <<i, row>>
  \/ /\ i <= Len(msg)
     /\ LET ch == print_buffer[i] IN
        \/ Shown(ch) /\ FetchStep("draw") /\ row' = 0 /\ i' = i
        \/ ch = "newline" /\ FetchStep("nl_x") /\ UNCHANGED <<row, i>>
        \/ ch = "backspace" /\ FetchStep("bs_x") /\ UNCHANGED <<row, i>>
        \/ ch = "high" /\ FetchStep("fetch") /\ i' = i + 1 /\ row' = row

\* put_char_color reads the cursor again for every pixel.
Draw ==
  /\ Kernel("draw", IF row + 1 < FONT_HEIGHT THEN "draw" ELSE "adv_load")
  /\ top' = Written(x, y + row)
  /\ row' = row + 1
  /\ UNCHANGED <<cursor, print_buffer, msg, i, rx, ry>>

(* next_cursor *)
AdvLoad ==
  /\ Kernel("adv_load", "adv_store") /\ rx' = x
  /\ UNCHANGED <<cursor, print_buffer, top, msg, i, row, ry>>
AdvStore ==
  /\ Kernel("adv_store", "adv_test") /\ x' = rx + FONT_WIDTH
  /\ UNCHANGED <<y, print_buffer, top, locals>>
AdvTest ==
  /\ Kernel("adv_test", IF PastEdge(x) THEN "nl_x" ELSE "fetch")
  /\ i' = IF PastEdge(x) THEN i ELSE i + 1
  /\ UNCHANGED <<cursor, print_buffer, top, msg, row, rx, ry>>

(* next_line *)
NlX ==
  /\ Kernel("nl_x", "nl_load") /\ x' = 0
  /\ UNCHANGED <<y, print_buffer, top, locals>>
NlLoad ==
  /\ Kernel("nl_load", "nl_store") /\ ry' = y
  /\ UNCHANGED <<cursor, print_buffer, top, msg, i, row, rx>>
NlStore ==
  /\ Kernel("nl_store", "nl_test") /\ y' = ry + FONT_HEIGHT
  /\ UNCHANGED <<x, print_buffer, top, locals>>
NlTest ==
  /\ Kernel("nl_test", IF PastEnd(y) THEN "nl_zero" ELSE "fetch")
  /\ i' = IF PastEnd(y) THEN i ELSE i + 1
  /\ UNCHANGED <<cursor, print_buffer, top, msg, row, rx, ry>>
NlZero ==
  /\ Kernel("nl_zero", "fetch") /\ y' = 0 /\ i' = i + 1
  /\ UNCHANGED <<x, print_buffer, top, msg, row, rx, ry>>

(* back_cursor: two loads, the erasing, two stores.  A leaf, it keeps       *)
(* delete_x and delete_y below rsp, at rbp-4 and rbp-8; the interrupt frame *)
(* is aligned and ends at rbp-9, so it spoils only the loop counters below  *)
(* them, and the erasing starts its rows again.                             *)
BsX ==
  /\ Kernel("bs_x", "bs_y") /\ rx' = x
  /\ UNCHANGED <<cursor, print_buffer, top, msg, i, row, ry>>
BsY ==
  /\ \/ /\ ~BackWraps(rx)
        /\ Kernel("bs_y", "bs_erase") /\ rx' = rx - FONT_WIDTH /\ ry' = y
        /\ UNCHANGED i
     \/ /\ BackWraps(rx) /\ y >= FONT_HEIGHT
        /\ Kernel("bs_y", "bs_erase")
        /\ rx' = WIDTH - FONT_WIDTH /\ ry' = y - FONT_HEIGHT
        /\ UNCHANGED i
     \/ /\ BackWraps(rx) /\ y < FONT_HEIGHT
        /\ Kernel("bs_y", "fetch") /\ i' = i + 1 /\ UNCHANGED <<rx, ry>>
  /\ UNCHANGED <<cursor, print_buffer, top, msg, row>>
BsErase ==
  /\ Kernel("bs_erase", "bs_store_x")
  /\ top' = Written(rx, ry + FONT_HEIGHT - 1)
  /\ UNCHANGED <<cursor, print_buffer, locals>>
BsStoreX ==
  /\ Kernel("bs_store_x", "bs_store_y") /\ x' = rx
  /\ UNCHANGED <<y, print_buffer, top, locals>>
BsStoreY ==
  /\ Kernel("bs_store_y", "fetch") /\ y' = ry /\ i' = i + 1
  /\ UNCHANGED <<x, print_buffer, top, msg, row, rx, ry>>

(* clear_console *)
Clear ==
  /\ Kernel("idle", "clear_x")
  /\ top' = IF WIDTH * HEIGHT > top THEN WIDTH * HEIGHT ELSE top
  /\ UNCHANGED <<cursor, print_buffer, locals>>
ClearX ==
  /\ Kernel("clear_x", "clear_y") /\ x' = 0
  /\ UNCHANGED <<y, print_buffer, top, locals>>
ClearY ==
  /\ Kernel("clear_y", "idle") /\ y' = 0
  /\ UNCHANGED <<x, print_buffer, top, locals>>

KernelStep ==
  \/ CallPrint \/ Format \/ Fetch \/ Draw \/ AdvLoad \/ AdvStore \/ AdvTest
  \/ NlX \/ NlLoad \/ NlStore \/ NlTest \/ NlZero
  \/ BsX \/ BsY \/ BsErase \/ BsStoreX \/ BsStoreY
  \/ Clear \/ ClearX \/ ClearY

-----------------------------------------------------------------------------
(* A handler: print (the timer's, the general one) or put_char (the        *)
(* keyboard's), undisturbed.                                               *)

Interrupt(h) ==
  /\ rest = <<>> /\ h.text # <<>> /\ rest' = h.text
  /\ print_buffer' =
       IF h.printed
       THEN [j \in 1 .. BufferSize |->
               IF j <= Len(h.text) THEN h.text[j]
               ELSE IF j = Len(h.text) + 1 THEN NUL ELSE print_buffer[j]]
       ELSE print_buffer
  /\ UNCHANGED <<cursor, top, pc, locals>>

Handler(ch) ==
  /\ rest # <<>> /\ Head(rest) = ch /\ rest' = Tail(rest)
  /\ UNCHANGED <<print_buffer, pc, locals>>

NextLine(py) == IF PastEnd(py + FONT_HEIGHT) THEN 0 ELSE py + FONT_HEIGHT

HandlerGlyph ==
  /\ Handler("glyph")
  /\ top' = Written(x, y + FONT_HEIGHT - 1)
  /\ IF PastEdge(x + FONT_WIDTH)
     THEN x' = 0 /\ y' = NextLine(y)
     ELSE x' = x + FONT_WIDTH /\ y' = y

HandlerNewline ==
  Handler("newline") /\ x' = 0 /\ y' = NextLine(y) /\ UNCHANGED top

HandlerBackspace ==
  /\ Handler("backspace")
  /\ \/ /\ ~BackWraps(x)
        /\ x' = x - FONT_WIDTH /\ y' = y
        /\ top' = Written(x - FONT_WIDTH, y + FONT_HEIGHT - 1)
     \/ /\ BackWraps(x) /\ y >= FONT_HEIGHT
        /\ x' = WIDTH - FONT_WIDTH /\ y' = y - FONT_HEIGHT
        /\ top' = Written(WIDTH - FONT_WIDTH, y - 1)
     \/ BackWraps(x) /\ y < FONT_HEIGHT /\ UNCHANGED <<cursor, top>>

HandlerHigh == Handler("high") /\ UNCHANGED <<cursor, top>>

Next ==
  \/ KernelStep
  \/ \E h \in Interrupts : Interrupt(h)
  \/ HandlerGlyph \/ HandlerNewline \/ HandlerBackspace \/ HandlerHigh

Spec == Init /\ [][Next]_vars

-----------------------------------------------------------------------------
(* Properties.                                                             *)

Steps == {"idle", "format", "fetch", "draw", "adv_load", "adv_store",
          "adv_test", "nl_x", "nl_load", "nl_store", "nl_test", "nl_zero",
          "bs_x", "bs_y", "bs_erase", "bs_store_x", "bs_store_y", "clear_x",
          "clear_y"}

\* Types; print never reads or writes outside the part of print_buffer that
\* its text and its NUL take.
TypeOK ==
  /\ x \in Nat /\ y \in Nat /\ rx \in Nat /\ ry \in Nat /\ top \in Nat
  /\ pc \in Steps /\ row \in 0 .. FONT_HEIGHT
  /\ print_buffer \in [1 .. BufferSize -> Chars \cup {NUL}]
  /\ msg \in Seq(Chars) /\ Len(msg) < BufferSize /\ i \in 1 .. Len(msg) + 1
  /\ rest \in Seq(Chars)

\* However handlers move the cursor under a print of the kernel, stale
\* registers included, it leaves the screen only for the moment between the
\* store in next_cursor or next_line and the test behind it, and then by one
\* character.
CursorOnScreen ==
  /\ x < WIDTH \/ (x < WIDTH + FONT_WIDTH /\ pc \in {"adv_test", "nl_x"})
  /\ y < HEIGHT
       \/ (y < HEIGHT + FONT_HEIGHT /\ pc \in {"nl_test", "nl_zero"})

\* No write of any interleaving leaves the pages the loader has mapped behind
\* the frame buffer.
WritesMapped == top <= Mapped
=============================================================================
