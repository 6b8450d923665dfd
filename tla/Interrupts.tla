------------------------------ MODULE Interrupts -----------------------------
(***************************************************************************)
(* Bringing up interrupts (kernel/main.c, interrupt/intr.c, apic.c,        *)
(* idt.asm, device/timer.c, keyboard.c): the kernel runs init_intr,        *)
(* enable_intr and init_device while the local APIC delivers what the      *)
(* timer and the keyboard raise.  One CPU; a handler runs on the kernel's  *)
(* own stack with IF clear (the gates are interrupt gates), so it is never *)
(* interrupted, but the kernel may be between any two of its steps.        *)
(*                                                                         *)
(* Outside src/: an I/O APIC pin ignores an edge while it is masked; the   *)
(* keyboard controller raises an edge when a byte enters its empty output  *)
(* buffer and none while the byte stays unread; the local APIC may answer  *)
(* with the spurious vector; a push of the interrupt frame overwrites the  *)
(* stack below rsp.                                                        *)
(***************************************************************************)
EXTENDS Naturals

CONSTANT SpuriousHappens  \* does the local APIC ever answer with 0xFF?

ASSUME SpuriousAssumption == SpuriousHappens \in BOOLEAN

VARIABLES
  pc,       \* the next step of the kernel's start-up
  cur,      \* the vector whose entry code is running, or NONE
  stage,    \* where in isr_common_handler: "dispatch", "eoi", "iretq"
  IF_flag,  \* IF in RFLAGS: INTR_OFF or INTR_ON
  irr,      \* vectors the local APIC holds pending
  isr,      \* vectors it has delivered and seen no EOI for
  masked,   \* the pins whose RTE has mask = 1
  handlers, \* IRQ_handle_table
  slot,     \* register_handler's argument, spilled below rsp
  temp,     \* temp, the general handler's count
  obf,      \* the keyboard controller's output buffer: "empty" or "full"
  state     \* "running", "hung" in while(1), "wild" outside the kernel's code

main_vars == <<pc, masked, handlers, slot>>
cpu_vars == <<cur, stage, IF_flag>>
intr_vars == <<pc, cur, stage, IF_flag, irr, isr, masked, handlers, slot,
               temp, obf, state>>

TIMER == 32
KEYBOARD == 33
SPURIOUS == 255
NONE == 256  \* no vector: the kernel itself runs
Vectors == {TIMER, KEYBOARD, SPURIOUS}
DeviceVectors == {TIMER, KEYBOARD}  \* the pins are named by their vector

Steps == {"init_apic", "init_handler", "init_ioapic", "enable_intr",
          "spill_8254", "store_8254", "rte_timer", "spill_timer",
          "store_timer", "rte_keyboard", "spill_keyboard", "store_keyboard",
          "hello", "idle"}
Storing == {"store_8254", "store_timer", "store_keyboard"}

-----------------------------------------------------------------------------
(* Slips of the code that the checks must notice.                          *)

\* The keyboard handler returns without reading its port.
KeyboardHandlerDeaf == obf' = obf

\* The gate is a trap gate: IF stays as it is.
EntryFlagTrap == IF_flag

\* isr_common_handler forgets the EOI.
RetiredNone == {}

\* init_8254 programs the chip and leaves the table alone.
HandlerAt8254None == "general"

\* iretq without the flags of the interrupted code.
ReturnFlagOff == "INTR_OFF"

-----------------------------------------------------------------------------
\* Nothing in the repository clears IF before: this is the BIOS that entered the
\* boot sector with interrupts disabled (enable_intr takes either, intr.c:212).
\* With IF set the machine has no gates for an interrupt before init_apic masks
\* the 8259 (apic.c:65); up to the end of init_memory that is Boot's fault
\* "interrupt".
IntrInit ==
  /\ pc = "init_apic" /\ cur = NONE /\ stage = "dispatch"
  /\ IF_flag = "INTR_OFF"
  /\ irr = {} /\ isr = {} /\ masked = DeviceVectors
  /\ handlers = [v \in Vectors |-> "null"]
  /\ slot = "null" /\ temp = 0
  /\ obf \in {"empty", "full"}  \* a key may have been pressed since the BIOS
  /\ state = "running"

(* The kernel's own steps, taken while no handler runs.                    *)

Main(from, to) ==
  /\ state = "running" /\ cur = NONE /\ pc = from
  /\ pc' = to
  /\ UNCHANGED <<irr, temp, obf, state, cur, stage>>

\* The EOI retires the highest vector in service.
Retired == {v \in isr : \A w \in isr : w <= v}

\* init_apic enables the local APIC and writes an EOI.
InitApic ==
  /\ Main("init_apic", "init_handler")
  /\ isr' = isr \ Retired
  /\ UNCHANGED <<IF_flag, masked, handlers, slot>>

InitHandlerTable == [v \in Vectors |-> "general"]

\* init_tss, init_idt and init_handler.
InitHandler ==
  /\ Main("init_handler", "init_ioapic")
  /\ handlers' = InitHandlerTable
  /\ UNCHANGED <<IF_flag, isr, masked, slot>>

InitIoapic ==
  /\ Main("init_ioapic", "enable_intr")
  /\ masked' = DeviceVectors
  /\ UNCHANGED <<IF_flag, isr, handlers, slot>>

EnableIntr ==
  /\ Main("enable_intr", "spill_8254")
  /\ IF_flag' = "INTR_ON"
  /\ UNCHANGED <<isr, masked, handlers, slot>>

\* register_handler is a leaf: as the Makefile builds it (no -O and no
\* -mno-red-zone) it stores its argument below rsp ...
Spill(h, from, to) ==
  /\ Main(from, to)
  /\ slot' = h
  /\ UNCHANGED <<IF_flag, isr, masked, handlers>>

\* ... reads it back and writes the table.
Store(v, from, to) ==
  /\ Main(from, to)
  /\ handlers' = [handlers EXCEPT ![v] = slot]
  /\ slot' = "null"
  /\ UNCHANGED <<IF_flag, isr, masked>>

RegisterRte(v, from, to) ==
  /\ Main(from, to)
  /\ masked' = masked \ {v}
  /\ UNCHANGED <<IF_flag, isr, handlers, slot>>

\* print("Hello OS!\n"), then while(1).
Hello ==
  /\ Main("hello", "idle")
  /\ UNCHANGED <<IF_flag, isr, masked, handlers, slot>>

HandlerAt8254 == "timer"

InitTimer ==
  \/ Spill(HandlerAt8254, "spill_8254", "store_8254")
  \/ Store(TIMER, "store_8254", "rte_timer")
  \/ RegisterRte(TIMER, "rte_timer", "spill_timer")
  \/ Spill("timer", "spill_timer", "store_timer")
  \/ Store(TIMER, "store_timer", "rte_keyboard")

InitKeyboard ==
  \/ RegisterRte(KEYBOARD, "rte_keyboard", "spill_keyboard")
  \/ Spill("keyboard", "spill_keyboard", "store_keyboard")
  \/ Store(KEYBOARD, "store_keyboard", "hello")

MainStep ==
  \/ InitApic \/ InitHandler \/ InitIoapic \/ EnableIntr
  \/ InitTimer \/ InitKeyboard \/ Hello

-----------------------------------------------------------------------------
(* The CPU takes an interrupt.                                             *)

EntryFlag == "INTR_OFF"

\* What the frame pushed below rsp leaves of a spilled argument.
Pushed == IF pc \in Storing THEN "wild" ELSE slot

Enter(v) ==
  /\ state = "running" /\ IF_flag = "INTR_ON"
  /\ cur' = v /\ stage' = "dispatch" /\ IF_flag' = EntryFlag
  /\ slot' = Pushed
  /\ UNCHANGED <<pc, masked, handlers, temp, obf, state>>

\* The highest pending vector; both devices are of one priority class.
Deliver(v) ==
  /\ v \in irr /\ \A w \in irr : w <= v
  /\ isr = {}
  /\ irr' = irr \ {v} /\ isr' = isr \cup {v}
  /\ Enter(v)

\* The spurious vector sets no bit of the in-service register.
Spurious ==
  /\ SpuriousHappens
  /\ Enter(SPURIOUS)
  /\ UNCHANGED <<irr, isr>>

Running(at, next) ==
  /\ state = "running" /\ cur # NONE /\ stage = at
  /\ stage' = next
  /\ UNCHANGED <<main_vars, irr>>

\* isr_dispatch calls the table's entry.
TimerHandler ==
  /\ Running("dispatch", "eoi") /\ handlers[cur] = "timer"
  /\ UNCHANGED <<cur, IF_flag, isr, temp, obf, state>>

KeyboardHandler == obf' = "empty"

KeyboardIntrHandler ==
  /\ Running("dispatch", "eoi") /\ handlers[cur] = "keyboard"
  /\ KeyboardHandler
  /\ UNCHANGED <<cur, IF_flag, isr, temp, state>>

Hangs == temp = 5

\* general_IRQ_handler prints and counts; the sixth call never returns.
GeneralIRQHandler ==
  /\ Running("dispatch", "eoi") /\ handlers[cur] = "general"
  /\ temp' = temp + 1
  /\ state' = IF Hangs THEN "hung" ELSE state
  /\ UNCHANGED <<cur, IF_flag, isr, obf>>

\* The entry is no handler of the kernel.
WildCall ==
  /\ Running("dispatch", "dispatch") /\ handlers[cur] \in {"wild", "null"}
  /\ state' = "wild"
  /\ UNCHANGED <<cur, IF_flag, isr, temp, obf>>

Eoi ==
  /\ Running("eoi", "iretq")
  /\ isr' = isr \ Retired
  /\ UNCHANGED <<cur, IF_flag, temp, obf, state>>

ReturnFlag == "INTR_ON"

Iretq ==
  /\ Running("iretq", "dispatch")
  /\ cur' = NONE /\ IF_flag' = ReturnFlag
  /\ UNCHANGED <<isr, temp, obf, state>>

CpuStep ==
  \/ \E v \in DeviceVectors : Deliver(v)
  \/ TimerHandler \/ KeyboardIntrHandler \/ GeneralIRQHandler \/ WildCall
  \/ Eoi \/ Iretq

-----------------------------------------------------------------------------
(* The devices.                                                            *)

Edge(v) == irr' = irr \cup ({v} \ masked)

TimerTick ==
  /\ Edge(TIMER)
  /\ UNCHANGED <<main_vars, cpu_vars, isr, temp, obf, state>>

KeyByte ==
  /\ obf = "empty" /\ obf' = "full"
  /\ Edge(KEYBOARD)
  /\ UNCHANGED <<main_vars, cpu_vars, isr, temp, state>>

IntrNext == MainStep \/ CpuStep \/ Spurious \/ TimerTick \/ KeyByte

IntrSpec == IntrInit /\ [][IntrNext]_intr_vars

(* The CPU always goes on with what it runs.  A handler takes far less     *)
(* than the 10 ms between two ticks, so neither the kernel's next step nor *)
(* the timer's vector, when nothing higher is pending, is starved although *)
(* interrupts disable them again and again: strong fairness.               *)
FairSpec ==
  IntrSpec /\ WF_intr_vars(CpuStep) /\ SF_intr_vars(MainStep) /\ SF_intr_vars(Deliver(TIMER))
-----------------------------------------------------------------------------
(* Properties.                                                             *)

IntrTypeOK ==
  /\ pc \in Steps /\ cur \in Vectors \cup {NONE}
  /\ stage \in {"dispatch", "eoi", "iretq"}
  /\ IF_flag \in {"INTR_OFF", "INTR_ON"}
  /\ irr \subseteq DeviceVectors /\ isr \subseteq DeviceVectors
  /\ masked \subseteq DeviceVectors
  /\ handlers \in [Vectors -> {"null", "general", "timer", "keyboard", "wild"}]
  /\ slot \in {"null", "timer", "keyboard", "wild"}
  /\ temp \in 0 .. 6 /\ obf \in {"empty", "full"}
  /\ state \in {"running", "hung", "wild"}

\* The vector in service is the one whose handler runs, with IF clear: entry
\* code, EOI and iretq (idt.asm) keep the local APIC and the CPU in step, so
\* no handler is interrupted and none leaves its priority class blocked.
InServiceIsRunning ==
  /\ isr \subseteq {cur}
  /\ cur # NONE => IF_flag = "INTR_OFF"
  /\ isr # {} => stage \in {"dispatch", "eoi"}

\* The table has an entry for every vector that is ever delivered, and the
\* timer never reaches the general handler: init_8254 registers it before
\* init_timer opens its pin.
DispatchDefined ==
  cur # NONE =>
    /\ handlers[cur] # "null"
    /\ cur = TIMER => handlers[TIMER] # "general"

\* A byte waits that no handler will read and no edge will announce.
Deaf == obf = "full" /\ KEYBOARD \notin irr /\ cur # KEYBOARD

\* Keys are lost only during start-up: once init_keyboard has returned, a
\* keyboard that can still be heard is never lost (the handler always empties
\* port 0x60 before its EOI).
HearsAfterInit ==
  [][(pc \in {"hello", "idle"} /\ ~Deaf) => ~Deaf']_intr_vars

\* The kernel reaches its idle loop although interrupts keep arriving,
\* unless it has hung or left its code.
StartsUp == <>(pc = "idle" \/ state # "running")

KeyboardPauses == []<>(cur = NONE /\ KEYBOARD \notin irr)

\* Every tick the local APIC has accepted is handled: EOI and iretq open the
\* way for the next one.  Only keys that never pause, whose vector is higher,
\* could hold it back.
TicksServed ==
  KeyboardPauses => (TIMER \in irr ~> TIMER \notin irr \/ state # "running")

\* Every byte that can be heard is read.
KeysRead ==
  obf = "full" /\ ~Deaf ~> obf = "empty" \/ Deaf \/ state # "running"

\* isr_dispatch "calls the registered handler" (the comment at intr.c:197):
\* after init_keyboard and init_timer, the entries are those registered.
HandlersInstalled ==
  pc \in {"hello", "idle"} =>
    handlers[TIMER] = "timer" /\ handlers[KEYBOARD] = "keyboard"
=============================================================================
