---------------------------- MODULE Drivers_proofs ---------------------------
(***************************************************************************)
(* Proofs about Interrupts and about Keyboard, which share no state here.  *)
(*                                                                         *)
(* Interrupts: IntrInv adds to the properties what each step of the        *)
(* start-up leaves behind in the table and in the RTEs.                    *)
(*                                                                         *)
(* Keyboard: the driver follows the keys, for every set of keys and any    *)
(* number of bytes under way.  The argument looks at what the bytes not    *)
(* yet read will do: After(.., n) is what a flag is once n of them are     *)
(* read, and it is this, not the flag, that agrees with the keys.          *)
(***************************************************************************)
EXTENDS Interrupts, Keyboard, Integers, SequenceTheorems, TLAPS

-----------------------------------------------------------------------------
(* Interrupts. *)

Early == {"init_apic", "init_handler", "init_ioapic", "enable_intr"}
TimerReady == {"rte_timer", "spill_timer", "store_timer", "rte_keyboard",
               "spill_keyboard", "store_keyboard", "hello", "idle"}
TimerOpen == TimerReady \ {"rte_timer"}

\* Nothing is delivered before enable_intr, nor before the table is filled.
Quiet ==
  /\ pc \in Early => IF_flag = "INTR_OFF" /\ cur = NONE
  /\ pc \notin {"init_apic", "init_handler"} =>
       \A v \in Vectors : handlers[v] # "null"

\* The argument under way, and that state and temp agree.
SlotOK ==
  /\ pc \in {"store_8254", "store_timer"} => slot \in {"timer", "wild"}
  /\ pc = "store_keyboard" => slot \in {"keyboard", "wild"}
  /\ state = "running" => temp \in 0 .. 5

\* The timer's vector is seen only once its handler is in the table.
TimerOK ==
  /\ pc \in TimerReady => handlers[TIMER] \in {"timer", "wild"}
  /\ pc \notin TimerOpen => TIMER \in masked
  /\ TIMER \in masked => TIMER \notin irr /\ cur # TIMER

\* A keyboard interrupt that has been answered leaves nothing unannounced.
KeyboardOK ==
  /\ pc \in {"hello", "idle"} => handlers[KEYBOARD] \in {"keyboard", "wild"}
  /\ pc \in {"spill_keyboard", "store_keyboard", "hello", "idle"} =>
       KEYBOARD \notin masked
  /\ (cur = KEYBOARD /\ stage # "dispatch" /\ pc \in {"hello", "idle"}
     /\ obf = "full")
       => KEYBOARD \in irr

IntrInv ==
  IntrTypeOK /\ InServiceIsRunning /\ Quiet /\ SlotOK /\ TimerOK /\ KeyboardOK

LEMMA InitIntrInv == IntrInit => IntrInv
  BY DEF IntrInit, IntrInv, IntrTypeOK, InServiceIsRunning, Quiet, SlotOK, TimerOK,
         KeyboardOK, Steps, Vectors, DeviceVectors, TIMER, KEYBOARD, SPURIOUS,
         NONE, TimerReady, TimerOpen

\* The kernel's own steps keep IntrInv.
LEMMA MainKeeps == IntrInv /\ MainStep => IntrInv'
  <1> SUFFICES ASSUME IntrInv, MainStep PROVE IntrInv'
    OBVIOUS
  <1> USE DEF IntrInv, IntrTypeOK, InServiceIsRunning, Quiet, SlotOK, TimerOK,
         KeyboardOK, Steps, Vectors, DeviceVectors, TIMER, KEYBOARD, SPURIOUS,
         NONE, TimerReady, TimerOpen, Early, Main
  <1>1. CASE InitApic
    <2>1. isr = {}  BY <1>1 DEF InitApic
    <2>2. isr' = {}  BY <1>1, <2>1 DEF InitApic, Retired
    <2> QED  BY <1>1, <2>1, <2>2 DEF InitApic
  <1>2. CASE InitHandler  BY <1>2 DEF InitHandler, InitHandlerTable
  <1>3. CASE InitIoapic  BY <1>3 DEF InitIoapic
  <1>4. CASE EnableIntr  BY <1>4 DEF EnableIntr
  <1>5. CASE InitTimer
    <2>1. CASE Spill(HandlerAt8254, "spill_8254", "store_8254")
      BY <2>1 DEF Spill, HandlerAt8254
    <2>2. CASE Store(TIMER, "store_8254", "rte_timer")
      BY <2>2 DEF Store
    <2>3. CASE RegisterRte(TIMER, "rte_timer", "spill_timer")
      BY <2>3 DEF RegisterRte
    <2>4. CASE Spill("timer", "spill_timer", "store_timer")
      BY <2>4 DEF Spill
    <2>5. CASE Store(TIMER, "store_timer", "rte_keyboard")
      BY <2>5 DEF Store
    <2> QED  BY <1>5, <2>1, <2>2, <2>3, <2>4, <2>5 DEF InitTimer
  <1>6. CASE InitKeyboard
    <2>1. CASE RegisterRte(KEYBOARD, "rte_keyboard", "spill_keyboard")
      BY <2>1 DEF RegisterRte
    <2>2. CASE Spill("keyboard", "spill_keyboard", "store_keyboard")
      BY <2>2 DEF Spill
    <2>3. CASE Store(KEYBOARD, "store_keyboard", "hello")
      <3>1. handlers' = [handlers EXCEPT ![KEYBOARD] = slot]
            /\ slot \in {"keyboard", "wild"} /\ slot' = "null"
            /\ pc' = "hello" /\ pc = "store_keyboard" /\ cur = NONE
        BY <2>3 DEF Store
      <3>2. IntrTypeOK'  BY <2>3, <3>1 DEF Store
      <3>3. Quiet'  BY <2>3, <3>1 DEF Store
      <3> QED  BY <2>3, <3>1, <3>2, <3>3 DEF Store
    <2> QED  BY <1>6, <2>1, <2>2, <2>3 DEF InitKeyboard
  <1>7. CASE Hello  BY <1>7 DEF Hello
  <1> QED  BY <1>1, <1>2, <1>3, <1>4, <1>5, <1>6, <1>7 DEF MainStep

\* Entry, dispatch, EOI and iretq keep IntrInv.
LEMMA CpuKeeps == IntrInv /\ (CpuStep \/ Spurious) => IntrInv'
  <1> SUFFICES ASSUME IntrInv, CpuStep \/ Spurious PROVE IntrInv'
    OBVIOUS
  <1> USE DEF IntrInv, IntrTypeOK, InServiceIsRunning, Quiet, SlotOK, TimerOK,
         KeyboardOK, Steps, Vectors, DeviceVectors, TIMER, KEYBOARD, SPURIOUS,
         NONE, TimerReady, TimerOpen, Early, main_vars
  <1>1. ASSUME NEW v \in DeviceVectors, Deliver(v) PROVE IntrInv'
    BY <1>1 DEF Deliver, Enter, EntryFlag, Pushed, Storing
  <1>2. CASE Spurious
    BY <1>2 DEF Spurious, Enter, EntryFlag, Pushed, Storing
  <1>3. CASE TimerHandler  BY <1>3 DEF TimerHandler, Running
  <1>4. CASE KeyboardIntrHandler
    BY <1>4 DEF KeyboardIntrHandler, Running, KeyboardHandler
  <1>5. CASE GeneralIRQHandler
    BY <1>5 DEF GeneralIRQHandler, Running, Hangs
  <1>6. CASE WildCall  BY <1>6 DEF WildCall, Running
  <1>7. CASE Eoi
    <2>1. \A x \in isr : x = cur /\ x \in Int
      OBVIOUS
    <2>2. \A x \in isr : x \in Retired
      BY ONLY <2>1 DEF Retired
    <2>3. isr' = {}  BY <1>7, <2>2 DEF Eoi
    <2>4. stage' = "iretq"
          /\ UNCHANGED <<pc, cur, IF_flag, irr, masked, handlers, slot, temp,
                         obf, state>>
      BY <1>7 DEF Eoi, Running
    <2>5. IntrTypeOK' /\ InServiceIsRunning'
      BY <2>3, <2>4
    <2>6. Quiet' /\ SlotOK' /\ TimerOK'
      BY <2>4
    <2>7. KeyboardOK'
      BY <1>7, <2>4 DEF Eoi, Running
    <2> QED  BY ONLY <2>5, <2>6, <2>7 DEF IntrInv
  <1>8. CASE Iretq  BY <1>8 DEF Iretq, Running, ReturnFlag
  <1> QED
    BY <1>1, <1>2, <1>3, <1>4, <1>5, <1>6, <1>7, <1>8 DEF CpuStep

\* The devices' edges keep IntrInv.
LEMMA DevicesKeep == IntrInv /\ (TimerTick \/ KeyByte) => IntrInv'
  <1> SUFFICES ASSUME IntrInv, TimerTick \/ KeyByte PROVE IntrInv'
    OBVIOUS
  <1> USE DEF IntrInv, TimerTick, KeyByte, main_vars, cpu_vars
  <1>1. IntrTypeOK'
    <2>1. irr' \subseteq DeviceVectors
      BY DEF IntrTypeOK, Edge, DeviceVectors
    <2>2. obf' \in {"empty", "full"}
      BY DEF IntrTypeOK
    <2>3. UNCHANGED <<pc, cur, stage, IF_flag, isr, masked, handlers, slot,
                      temp, state>>
      OBVIOUS
    <2> QED  BY <2>1, <2>2, <2>3 DEF IntrTypeOK
  <1>2. InServiceIsRunning' /\ Quiet' /\ SlotOK'
    BY DEF InServiceIsRunning, Quiet, SlotOK
  <1>3. TimerOK'
    BY DEF TimerOK, Edge, TIMER, KEYBOARD
  <1>4. KeyboardOK'
    BY DEF KeyboardOK, Edge, TIMER, KEYBOARD
  <1> QED  BY <1>1, <1>2, <1>3, <1>4

LEMMA StutterKeeps == IntrInv /\ UNCHANGED intr_vars => IntrInv'
  BY DEF IntrInv, IntrTypeOK, InServiceIsRunning, Quiet, SlotOK, TimerOK,
         KeyboardOK, intr_vars

LEMMA IntrNextKeeps == IntrInv /\ [IntrNext]_intr_vars => IntrInv'
  BY MainKeeps, CpuKeeps, DevicesKeep, StutterKeeps DEF IntrNext

LEMMA IntrInductive == IntrSpec => []IntrInv
  <1> QED  BY InitIntrInv, IntrNextKeeps, PTL DEF IntrSpec

\* Every variable keeps its type; in particular temp never passes 6.
THEOREM TypeCorrect == IntrSpec => []IntrTypeOK
  <1>1. IntrInv => IntrTypeOK  BY DEF IntrInv
  <1> QED  BY <1>1, IntrInductive, PTL

\* The CPU, its stack discipline and the local APIC stay in step.
THEOREM InStep == IntrSpec => []InServiceIsRunning
  <1>1. IntrInv => InServiceIsRunning  BY DEF IntrInv
  <1> QED  BY <1>1, IntrInductive, PTL

\* No delivered vector meets an empty entry, and the timer's is never the
\* general handler's.
THEOREM DispatchSound == IntrSpec => []DispatchDefined
  <1>1. IntrInv => DispatchDefined
    BY DEF IntrInv, DispatchDefined, Quiet, TimerOK, IntrTypeOK, Steps, Vectors,
           Early, TIMER, KEYBOARD, SPURIOUS, NONE, TimerReady, TimerOpen
  <1> QED  BY <1>1, IntrInductive, PTL

\* After init_keyboard, no step makes the keyboard deaf.
THEOREM HearingKept == IntrSpec => HearsAfterInit
  <1>1. ASSUME IntrInv, [IntrNext]_intr_vars, pc \in {"hello", "idle"}, ~Deaf
        PROVE  ~Deaf'
    <2> USE <1>1 DEF IntrInv, IntrTypeOK, InServiceIsRunning, TimerOK,
          KeyboardOK, Deaf, DeviceVectors, Vectors, TIMER, KEYBOARD, SPURIOUS, NONE, main_vars, cpu_vars
    <2>1. CASE MainStep
      BY <2>1 DEF MainStep, InitApic, InitHandler, InitIoapic, EnableIntr,
            InitTimer, InitKeyboard, Hello, Spill, Store, RegisterRte, Main
    <2>2. ASSUME NEW v \in DeviceVectors, Deliver(v) PROVE ~Deaf'
      BY <2>2 DEF Deliver, Enter
    <2>3. CASE Spurious  BY <2>3 DEF Spurious, Enter
    <2>4. CASE TimerHandler  BY <2>4 DEF TimerHandler, Running
    <2>5. CASE KeyboardIntrHandler
      BY <2>5 DEF KeyboardIntrHandler, Running, KeyboardHandler
    <2>6. CASE GeneralIRQHandler  BY <2>6 DEF GeneralIRQHandler, Running
    <2>7. CASE WildCall  BY <2>7 DEF WildCall, Running
    <2>8. CASE Eoi  BY <2>8 DEF Eoi, Running
    <2>9. CASE Iretq  BY <2>9 DEF Iretq, Running
    <2>10. CASE TimerTick  BY <2>10 DEF TimerTick, Edge
    <2>11. CASE KeyByte  BY <2>11 DEF KeyByte, Edge
    <2>12. CASE UNCHANGED intr_vars  BY <2>12 DEF intr_vars
    <2> QED
      BY <2>1, <2>2, <2>3, <2>4, <2>5, <2>6, <2>7, <2>8, <2>9, <2>10, <2>11,
         <2>12 DEF IntrNext, CpuStep
  <1>2. IntrInv /\ [IntrNext]_intr_vars
          => [(pc \in {"hello", "idle"} /\ ~Deaf) => ~Deaf']_intr_vars
    BY <1>1
  <1> QED  BY <1>2, IntrInductive, PTL DEF IntrSpec, HearsAfterInit

-----------------------------------------------------------------------------
(* Keyboard: what the bytes mean, without the driver's state. *)

Shifts == {"up", "down", "unsure"}
Entries == [byte : 0 .. 255, shift : Shifts, caps : BOOLEAN, second : BOOLEAN]
Characters == Keymap \ NoCharacter

MakeCodes(m) == CASE m = "shift" -> {SHIFT_L_MAKE, SHIFT_R_MAKE}
                  [] m = "ctrl" -> {CTRL_L_MAKE, CTRL_R_MAKE}
                  [] m = "alt" -> {ALT_L_MAKE, ALT_R_MAKE}

\* The code of a byte on the wire, and its effect on a modifier's flag.
CodeOf(e) == IF e.second THEN EXT_CODE * 256 + e.byte ELSE e.byte
Sets(e, m) == CodeOf(e) \in MakeCodes(m)
Clears(e, m) == CodeOf(e) - 128 \in MakeCodes(m)

\* A flag that is s now, after n bytes of w.
Kept(w, m, from, n) == \A k \in (from + 1) .. n : ~Clears(w[k], m)
After(s, w, m, n) ==
  \/ s /\ Kept(w, m, 0, n)
  \/ \E j \in 1 .. n : Sets(w[j], m) /\ Kept(w, m, j, n)

\* One byte read is one byte less to come.
LEMMA AfterRead ==
  ASSUME NEW s \in BOOLEAN, NEW w \in Seq(Entries), w # <<>>, NEW m,
         NEW s2 \in BOOLEAN, s2 <=> (Sets(w[1], m) \/ (s /\ ~Clears(w[1], m))),
         NEW n \in Nat, n < Len(w)
  PROVE  After(s2, Tail(w), m, n) <=> After(s, w, m, n + 1)
<1> DEFINE t == Tail(w)
<1>1. \A k \in 1 .. n : t[k] = w[k + 1]
  <2>1. Len(t) = Len(w) - 1 /\ (\A k \in 1 .. Len(t) : t[k] = w[k + 1]) /\ Len(w) \in Nat
    BY HeadTailProperties
  <2>2. \A k \in 1 .. n : k \in 1 .. Len(t)
    BY <2>1
  <2> QED BY <2>1, <2>2
<1> HIDE DEF t
<1>2. ASSUME NEW a \in 0 .. n
      PROVE  Kept(t, m, a, n) <=> Kept(w, m, a + 1, n + 1)
  <2>1. ASSUME Kept(t, m, a, n), NEW k \in (a + 1 + 1) .. (n + 1)
        PROVE  ~Clears(w[k], m)
    <3>1. k - 1 \in (a + 1) .. n /\ k - 1 \in 1 .. n /\ (k - 1) + 1 = k
      OBVIOUS
    <3> QED BY <1>1, <2>1, <3>1 DEF Kept
  <2>2. ASSUME Kept(w, m, a + 1, n + 1), NEW k \in (a + 1) .. n
        PROVE  ~Clears(t[k], m)
    <3>1. k + 1 \in (a + 1 + 1) .. (n + 1) /\ k \in 1 .. n
      OBVIOUS
    <3> QED BY <1>1, <2>2, <3>1 DEF Kept
  <2> QED BY <2>1, <2>2 DEF Kept
<1>3. Kept(w, m, 0, n + 1) <=> ~Clears(w[1], m) /\ Kept(w, m, 1, n + 1)
  <2>1. 0 + 1 = 1 /\ 1 \in 1 .. (n + 1)
        /\ (\A k \in 1 .. (n + 1) : k = 1 \/ k \in (1 + 1) .. (n + 1))
        /\ \A k \in (1 + 1) .. (n + 1) : k \in 1 .. (n + 1)
    OBVIOUS
  <2> QED BY <2>1 DEF Kept
<1>4. (\E j \in 1 .. n : Sets(t[j], m) /\ Kept(t, m, j, n))
        <=> \E j \in 2 .. (n + 1) : Sets(w[j], m) /\ Kept(w, m, j, n + 1)
  <2>1. ASSUME NEW j \in 1 .. n, Sets(t[j], m), Kept(t, m, j, n)
        PROVE  \E i \in 2 .. (n + 1) : Sets(w[i], m) /\ Kept(w, m, i, n + 1)
    <3>1. j \in 0 .. n /\ j + 1 \in 2 .. (n + 1)
      OBVIOUS
    <3> QED BY <1>1, <1>2, <2>1, <3>1
  <2>2. ASSUME NEW j \in 2 .. (n + 1), Sets(w[j], m), Kept(w, m, j, n + 1)
        PROVE  \E i \in 1 .. n : Sets(t[i], m) /\ Kept(t, m, i, n)
    <3>1. j - 1 \in 0 .. n /\ j - 1 \in 1 .. n /\ (j - 1) + 1 = j
      OBVIOUS
    <3>2. Sets(t[j - 1], m) /\ Kept(t, m, j - 1, n)
      BY <1>1, <1>2, <2>2, <3>1
    <3> QED BY <3>1, <3>2
  <2> QED BY <2>1, <2>2
<1>5. (\E j \in 1 .. (n + 1) : Sets(w[j], m) /\ Kept(w, m, j, n + 1))
        <=> \/ Sets(w[1], m) /\ Kept(w, m, 1, n + 1)
            \/ \E j \in 2 .. (n + 1) : Sets(w[j], m) /\ Kept(w, m, j, n + 1)
  <2>1. /\ \A j \in 1 .. (n + 1) : j = 1 \/ j \in 2 .. (n + 1)
        /\ 1 \in 1 .. (n + 1) /\ \A j \in 2 .. (n + 1) : j \in 1 .. (n + 1)
    OBVIOUS
  <2> QED BY <2>1
<1>6. Kept(t, m, 0, n) <=> Kept(w, m, 1, n + 1)
  <2>1. 0 \in 0 .. n /\ 0 + 1 = 1
    OBVIOUS
  <2> QED BY <1>2, <2>1
<1> QED
  BY <1>3, <1>4, <1>5, <1>6 DEF After, t

\* Only the bytes read matter.
LEMMA AfterPrefix ==
  ASSUME NEW s, NEW v, NEW w, NEW m, NEW n \in Nat, \A k \in 1 .. n : v[k] = w[k]
  PROVE  After(s, v, m, n) <=> After(s, w, m, n)
<1>1. \A a \in 0 .. n : Kept(v, m, a, n) <=> Kept(w, m, a, n)
  <2> SUFFICES ASSUME NEW a \in 0 .. n, NEW k \in (a + 1) .. n
               PROVE  v[k] = w[k]
    BY DEF Kept
  <2>1. k \in 1 .. n
    OBVIOUS
  <2> QED BY <2>1
<1>2. 0 \in 0 .. n /\ \A j \in 1 .. n : j \in 0 .. n
  OBVIOUS
<1> QED
  BY <1>1, <1>2 DEF After
-----------------------------------------------------------------------------
(* What a packet, the bytes of one key event, does behind n others. *)

PacketCode(b, i) == IF i > 1 /\ b[i - 1] = EXT_CODE THEN EXT_CODE * 256 + b[i] ELSE b[i]

Raises(b, m) == \E i \in 1 .. Len(b) :
  /\ PacketCode(b, i) \in MakeCodes(m)
  /\ \A j \in (i + 1) .. Len(b) : PacketCode(b, j) - 128 \notin MakeCodes(m)
Lowers(b, m) == \E i \in 1 .. Len(b) :
  /\ PacketCode(b, i) - 128 \in MakeCodes(m)
  /\ \A j \in i .. Len(b) : PacketCode(b, j) \notin MakeCodes(m)
Silent(b, m) == \A i \in 1 .. Len(b) :
  PacketCode(b, i) \notin MakeCodes(m) /\ PacketCode(b, i) - 128 \notin MakeCodes(m)
Textless(b) == \A i \in 1 .. Len(b) : PacketCode(b, i) \notin Characters
Packet(b) == b \in Seq(0 .. 255) /\ (b # <<>> => b[Len(b)] # EXT_CODE)

\* w2 is w with the packet b behind it.
Sent(w, b, w2) ==
  /\ Len(w2) = Len(w) + Len(b)
  /\ \A k \in 1 .. Len(w) : w2[k] = w[k]
  /\ \A i \in 1 .. Len(b) : CodeOf(w2[Len(w) + i]) = PacketCode(b, i)

LEMMA AfterSent ==
  ASSUME NEW s, NEW w \in Seq(Entries), NEW w2, NEW b \in Seq(0 .. 255), NEW m, Sent(w, b, w2)
  PROVE  /\ Raises(b, m) => After(s, w2, m, Len(w2))
         /\ Lowers(b, m) => ~After(s, w2, m, Len(w2))
         /\ Silent(b, m) => (After(s, w2, m, Len(w2)) <=> After(s, w, m, Len(w)))
         /\ \A n \in 0 .. Len(w) : After(s, w2, m, n) <=> After(s, w, m, n)
<1> DEFINE n == Len(w)
           l == Len(b)
           N == Len(w2)
<1>1. /\ n \in Nat /\ l \in Nat /\ N = n + l /\ N \in Nat
      /\ \A k \in 1 .. n : w2[k] = w[k]
      /\ \A i \in 1 .. l : CodeOf(w2[n + i]) = PacketCode(b, i)
  BY DEF Sent
<1> HIDE DEF n, l, N
<1>2. ASSUME Raises(b, m) PROVE After(s, w2, m, N)
  <2>1. PICK i \in 1 .. l : /\ PacketCode(b, i) \in MakeCodes(m)
                            /\ \A j \in (i + 1) .. l : PacketCode(b, j) - 128 \notin MakeCodes(m)
    BY <1>2 DEF Raises, l
  <2>2. n + i \in 1 .. N /\ Sets(w2[n + i], m)
    BY <1>1, <2>1 DEF Sets
  <2>3. ASSUME NEW k \in (n + i + 1) .. N PROVE ~Clears(w2[k], m)
    <3>1. k - n \in (i + 1) .. l /\ k - n \in 1 .. l /\ n + (k - n) = k
      BY <1>1
    <3> QED BY <1>1, <2>1, <3>1 DEF Clears
  <2> QED BY <2>2, <2>3 DEF After, Kept
<1>3. ASSUME Lowers(b, m) PROVE ~After(s, w2, m, N)
  <2>1. PICK i \in 1 .. l : /\ PacketCode(b, i) - 128 \in MakeCodes(m)
                            /\ \A j \in i .. l : PacketCode(b, j) \notin MakeCodes(m)
    BY <1>3 DEF Lowers, l
  <2>2. n + i \in 1 .. N /\ Clears(w2[n + i], m)
    BY <1>1, <2>1 DEF Clears
  <2>3. ASSUME NEW j \in 1 .. N, Sets(w2[j], m) PROVE ~Kept(w2, m, j, N)
    <3>1. CASE j < n + i
      <4>1. n + i \in (j + 1) .. N
        BY <1>1, <2>2, <3>1
      <4> QED BY <2>2, <4>1 DEF Kept
    <3>2. CASE j >= n + i
      <4>1. j - n \in i .. l /\ j - n \in 1 .. l /\ n + (j - n) = j
        BY <1>1, <3>2
      <4> QED BY <1>1, <2>1, <2>3, <4>1 DEF Sets
    <3> QED BY <1>1, <3>1, <3>2
  <2>4. ~Kept(w2, m, 0, N)
    <3>1. n + i \in (0 + 1) .. N
      BY <2>2
    <3> QED BY <2>2, <3>1 DEF Kept
  <2> QED BY <2>3, <2>4 DEF After
<1>4. \A a \in 0 .. n : After(s, w2, m, a) <=> After(s, w, m, a)
  <2> SUFFICES ASSUME NEW a \in 0 .. n PROVE After(s, w2, m, a) <=> After(s, w, m, a)
    OBVIOUS
  <2>1. a \in Nat /\ \A k \in 1 .. a : w2[k] = w[k]
    BY <1>1
  <2> QED BY <2>1, AfterPrefix
<1>5. ASSUME Silent(b, m) PROVE After(s, w2, m, N) <=> After(s, w2, m, n)
  <2>1. \A k \in (n + 1) .. N : ~Sets(w2[k], m) /\ ~Clears(w2[k], m)
    <3> SUFFICES ASSUME NEW k \in (n + 1) .. N PROVE ~Sets(w2[k], m) /\ ~Clears(w2[k], m)
      OBVIOUS
    <3>1. k - n \in 1 .. l /\ n + (k - n) = k
      BY <1>1
    <3> QED BY <1>1, <1>5, <3>1 DEF Silent, Sets, Clears, l
  <2>2. \A a \in 0 .. n : Kept(w2, m, a, N) <=> Kept(w2, m, a, n)
    <3> SUFFICES ASSUME NEW a \in 0 .. n PROVE Kept(w2, m, a, N) <=> Kept(w2, m, a, n)
      OBVIOUS
    <3>1. \A k \in (a + 1) .. N : k \in (a + 1) .. n \/ k \in (n + 1) .. N
      BY <1>1
    <3>2. \A k \in (a + 1) .. n : k \in (a + 1) .. N
      BY <1>1
    <3> QED BY <2>1, <3>1, <3>2 DEF Kept
  <2>3. 0 \in 0 .. n /\ (\A j \in 1 .. n : j \in 0 .. n /\ j \in 1 .. N)
        /\ \A j \in 1 .. N : j \in 1 .. n \/ j \in (n + 1) .. N
    BY <1>1
  <2> QED BY <2>1, <2>2, <2>3 DEF After
<1>6. n \in 0 .. n
  BY <1>1
<1> QED
  BY <1>2, <1>3, <1>4, <1>5, <1>6 DEF n, N
-----------------------------------------------------------------------------
(* The packets of the keyboard, key by key. *)

CtrlBreak == <<EXT_CODE, 70, EXT_CODE, 198>>

LEMMA Codes ==
  /\ EXT_CODE = 224
  /\ MakeCodes("shift") = {42, 54} /\ MakeCodes("ctrl") = {29, 57373}
  /\ MakeCodes("alt") = {56, 57400}
  /\ Modifiers = {"shift", "ctrl", "alt"}
  /\ KeysOf["shift"] = {"shift_l", "shift_r"} /\ KeysOf["ctrl"] = {"ctrl_l", "ctrl_r"}
  /\ KeysOf["alt"] = {"alt_l", "alt_r"}
BY DEF EXT_CODE, MakeCodes, SHIFT_L_MAKE, SHIFT_R_MAKE, CTRL_L_MAKE, CTRL_R_MAKE,
       ALT_L_MAKE, ALT_R_MAKE, Modifiers, KeysOf

LEMMA CharacterCodes == Characters \subseteq (1 .. 57) \ {29, 42, 54, 56}
BY DEF Characters, Keymap, NoCharacter, CTRL_L_MAKE, SHIFT_L_MAKE, SHIFT_R_MAKE,
       ALT_L_MAKE, CAPS_LOCK_MAKE

LEMMA Makes ==
  /\ Make["shift_l"] = <<42>> /\ Make["shift_r"] = <<54>>
  /\ Make["ctrl_l"] = <<29>> /\ Make["ctrl_r"] = <<224, 29>>
  /\ Make["alt_l"] = <<56>> /\ Make["alt_r"] = <<224, 56>>
  /\ Make["caps_lock"] = <<58>> /\ Make["a"] = <<30>> /\ Make["1"] = <<2>>
  /\ Make["left"] = <<224, 42, 224, 75>>
  /\ Make["pause"] = <<225, 29, 69, 225, 157, 197>>
BY DEF Make, KeyNames, EXT_CODE

LEMMA Breaks ==
  /\ Break["shift_l"] = <<170>> /\ Break["shift_r"] = <<182>>
  /\ Break["ctrl_l"] = <<157>> /\ Break["ctrl_r"] = <<224, 157>>
  /\ Break["alt_l"] = <<184>> /\ Break["alt_r"] = <<224, 184>>
  /\ Break["caps_lock"] = <<186>> /\ Break["a"] = <<158>> /\ Break["1"] = <<130>>
  /\ Break["left"] = <<224, 203, 224, 170>>
  /\ Break["pause"] = <<>>
<1> DEFINE Raised(b) == [b EXCEPT ![Len(b)] = b[Len(b)] + 128]
<1>1. \A k \in KeyNames \ {"left", "pause"} : Break[k] = Raised(Make[k])
  BY DEF Break
<1>2. Break["left"] = <<224, 203, 224, 170>> /\ Break["pause"] = <<>>
  BY DEF Break, KeyNames, EXT_CODE
<1>3. /\ Raised(<<42>>) = <<170>> /\ Raised(<<54>>) = <<182>> /\ Raised(<<29>>) = <<157>>
      /\ Raised(<<56>>) = <<184>> /\ Raised(<<58>>) = <<186>> /\ Raised(<<30>>) = <<158>>
      /\ Raised(<<2>>) = <<130>>
  OBVIOUS
<1>4. Raised(<<224, 29>>) = <<224, 157>> /\ Raised(<<224, 56>>) = <<224, 184>>
  OBVIOUS
<1>5. {"shift_l", "shift_r", "ctrl_l", "ctrl_r", "alt_l", "alt_r", "caps_lock", "a", "1"}
        \subseteq KeyNames \ {"left", "pause"}
  BY DEF KeyNames
<1> HIDE DEF Raised
<1>6. Break["shift_l"] = <<170>>
  <2>1. Break["shift_l"] = Raised(Make["shift_l"])
    BY <1>1, <1>5
  <2> QED BY <2>1, <1>3, Makes
<1>7. Break["shift_r"] = <<182>>
  <2>1. Break["shift_r"] = Raised(Make["shift_r"])
    BY <1>1, <1>5
  <2> QED BY <2>1, <1>3, Makes
<1>8. Break["ctrl_l"] = <<157>>
  <2>1. Break["ctrl_l"] = Raised(Make["ctrl_l"])
    BY <1>1, <1>5
  <2> QED BY <2>1, <1>3, Makes
<1>9. Break["ctrl_r"] = <<224, 157>>
  <2>1. Break["ctrl_r"] = Raised(Make["ctrl_r"])
    BY <1>1, <1>5
  <2> QED BY <2>1, <1>4, Makes
<1>10. Break["alt_l"] = <<184>>
  <2>1. Break["alt_l"] = Raised(Make["alt_l"])
    BY <1>1, <1>5
  <2> QED BY <2>1, <1>3, Makes
<1>11. Break["alt_r"] = <<224, 184>>
  <2>1. Break["alt_r"] = Raised(Make["alt_r"])
    BY <1>1, <1>5
  <2> QED BY <2>1, <1>4, Makes
<1>12. Break["caps_lock"] = <<186>>
  <2>1. Break["caps_lock"] = Raised(Make["caps_lock"])
    BY <1>1, <1>5
  <2> QED BY <2>1, <1>3, Makes
<1>13. Break["a"] = <<158>>
  <2>1. Break["a"] = Raised(Make["a"])
    BY <1>1, <1>5
  <2> QED BY <2>1, <1>3, Makes
<1>14. Break["1"] = <<130>>
  <2>1. Break["1"] = Raised(Make["1"])
    BY <1>1, <1>5
  <2> QED BY <2>1, <1>3, Makes
<1> QED
  BY <1>2, <1>6, <1>7, <1>8, <1>9, <1>10, <1>11, <1>12, <1>13, <1>14

\* The keys that send one byte.
OneByte == {"shift_l", "shift_r", "ctrl_l", "alt_l", "caps_lock", "a", "1"}

LEMMA OneByteKeys ==
  ASSUME NEW k \in OneByte
  PROVE  \E c \in 1 .. 58 : /\ Make[k] = <<c>> /\ Break[k] = <<c + 128>>
                            /\ k \in {"a", "1"} \/ c \notin Characters
                            /\ \A m \in Modifiers : c \in MakeCodes(m) <=> k \in KeysOf[m]
<1>1. CASE k = "shift_l"
  <2>1. Make[k] = <<42>> /\ Break[k] = <<42 + 128>> /\ 42 \in 1 .. 58
    BY <1>1, Makes, Breaks
  <2>2. \A m \in Modifiers : 42 \in MakeCodes(m) <=> k \in KeysOf[m]
    BY <1>1, Codes
  <2>3. k \in {"a", "1"} \/ 42 \notin Characters
    BY <1>1, CharacterCodes
  <2> QED BY <2>1, <2>2, <2>3
<1>2. CASE k = "shift_r"
  <2>1. Make[k] = <<54>> /\ Break[k] = <<54 + 128>> /\ 54 \in 1 .. 58
    BY <1>2, Makes, Breaks
  <2>2. \A m \in Modifiers : 54 \in MakeCodes(m) <=> k \in KeysOf[m]
    BY <1>2, Codes
  <2>3. k \in {"a", "1"} \/ 54 \notin Characters
    BY <1>2, CharacterCodes
  <2> QED BY <2>1, <2>2, <2>3
<1>3. CASE k = "ctrl_l"
  <2>1. Make[k] = <<29>> /\ Break[k] = <<29 + 128>> /\ 29 \in 1 .. 58
    BY <1>3, Makes, Breaks
  <2>2. \A m \in Modifiers : 29 \in MakeCodes(m) <=> k \in KeysOf[m]
    BY <1>3, Codes
  <2>3. k \in {"a", "1"} \/ 29 \notin Characters
    BY <1>3, CharacterCodes
  <2> QED BY <2>1, <2>2, <2>3
<1>4. CASE k = "alt_l"
  <2>1. Make[k] = <<56>> /\ Break[k] = <<56 + 128>> /\ 56 \in 1 .. 58
    BY <1>4, Makes, Breaks
  <2>2. \A m \in Modifiers : 56 \in MakeCodes(m) <=> k \in KeysOf[m]
    BY <1>4, Codes
  <2>3. k \in {"a", "1"} \/ 56 \notin Characters
    BY <1>4, CharacterCodes
  <2> QED BY <2>1, <2>2, <2>3
<1>5. CASE k = "caps_lock"
  <2>1. Make[k] = <<58>> /\ Break[k] = <<58 + 128>> /\ 58 \in 1 .. 58
    BY <1>5, Makes, Breaks
  <2>2. \A m \in Modifiers : 58 \in MakeCodes(m) <=> k \in KeysOf[m]
    BY <1>5, Codes
  <2>3. k \in {"a", "1"} \/ 58 \notin Characters
    BY <1>5, CharacterCodes
  <2> QED BY <2>1, <2>2, <2>3
<1>6. CASE k = "a"
  <2>1. Make[k] = <<30>> /\ Break[k] = <<30 + 128>> /\ 30 \in 1 .. 58
    BY <1>6, Makes, Breaks
  <2>2. \A m \in Modifiers : 30 \in MakeCodes(m) <=> k \in KeysOf[m]
    BY <1>6, Codes
  <2>3. k \in {"a", "1"} \/ 30 \notin Characters
    BY <1>6, CharacterCodes
  <2> QED BY <2>1, <2>2, <2>3
<1>7. CASE k = "1"
  <2>1. Make[k] = <<2>> /\ Break[k] = <<2 + 128>> /\ 2 \in 1 .. 58
    BY <1>7, Makes, Breaks
  <2>2. \A m \in Modifiers : 2 \in MakeCodes(m) <=> k \in KeysOf[m]
    BY <1>7, Codes
  <2>3. k \in {"a", "1"} \/ 2 \notin Characters
    BY <1>7, CharacterCodes
  <2> QED BY <2>1, <2>2, <2>3
<1> QED
  BY <1>1, <1>2, <1>3, <1>4, <1>5, <1>6, <1>7 DEF OneByte

LEMMA MakePackets ==
  ASSUME NEW k \in KeyNames
  PROVE  /\ Packet(Make[k]) /\ Make[k] # <<>>
         /\ k \in {"a", "1"} \/ Textless(Make[k])
         /\ k \in {"a", "1"} => Len(Make[k]) = 1
         /\ \A m \in Modifiers : /\ k \in KeysOf[m] => Raises(Make[k], m)
                                 /\ k \notin KeysOf[m] /\ k # "pause" => Silent(Make[k], m)
         /\ k = "pause" => /\ Lowers(Make[k], "ctrl")
                           /\ Silent(Make[k], "shift") /\ Silent(Make[k], "alt")
<1>1. CASE k \in OneByte
  <2> DEFINE b == Make[k]
  <2>1. PICK c \in 1 .. 58 :
          /\ b = <<c>>
          /\ k \in {"a", "1"} \/ c \notin Characters
          /\ \A m \in Modifiers : c \in MakeCodes(m) <=> k \in KeysOf[m]
    BY <1>1, OneByteKeys
  <2>2. Len(b) = 1 /\ PacketCode(b, 1) = c /\ 1 .. 1 = {1} /\ b \in Seq(0 .. 255)
    BY <2>1 DEF PacketCode
  <2>3. Packet(b) /\ b # <<>>
    BY <2>1, <2>2, Codes DEF Packet
  <2>4. k # "pause"
    BY <1>1 DEF OneByte
  <2> HIDE DEF b
  <2>5. \A m \in Modifiers : c - 128 \notin MakeCodes(m)
    BY Codes
  <2>6. \A m \in Modifiers : /\ k \in KeysOf[m] => Raises(b, m)
                             /\ k \notin KeysOf[m] => Silent(b, m)
    BY <2>1, <2>2, <2>5 DEF Raises, Silent
  <2>7. k \in {"a", "1"} \/ Textless(b)
    BY <2>1, <2>2 DEF Textless
  <2> QED
    BY <2>2, <2>3, <2>4, <2>6, <2>7 DEF b
<1>2. CASE k \in {"ctrl_r", "alt_r"}
  <2>1. PICK c \in {29, 56} : Make[k] = <<224, c>> /\ (k = "ctrl_r" <=> c = 29)
    BY <1>2, Makes
  <2>2. /\ Len(Make[k]) = 2 /\ PacketCode(Make[k], 1) = 224 /\ PacketCode(Make[k], 2) = 57344 + c
        /\ 1 .. 2 = {1, 2} /\ 3 .. 2 = {} /\ Make[k] \in Seq(0 .. 255)
    BY <2>1, Codes DEF PacketCode
  <2>3. Packet(Make[k]) /\ Make[k] # <<>>
    BY <2>1, <2>2, Codes DEF Packet
  <2>4. Textless(Make[k])
    BY <2>1, <2>2, CharacterCodes DEF Textless
  <2>5. \A m \in Modifiers : /\ 57344 + c \in MakeCodes(m) <=> k \in KeysOf[m]
                             /\ 57344 + c - 128 \notin MakeCodes(m)
                             /\ 224 \notin MakeCodes(m) /\ 224 - 128 \notin MakeCodes(m)
    BY <1>2, <2>1, Codes
  <2>6. \A m \in Modifiers : /\ k \in KeysOf[m] => Raises(Make[k], m)
                             /\ k \notin KeysOf[m] => Silent(Make[k], m)
    BY <2>2, <2>5 DEF Raises, Silent
  <2> QED
    BY <1>2, <2>3, <2>4, <2>6
<1>3. CASE k = "left"
  <2> DEFINE b == Make[k]
  <2>1. b = <<224, 42, 224, 75>>
    BY <1>3, Makes
  <2>2. /\ Len(b) = 4 /\ 1 .. 4 = {1, 2, 3, 4} /\ b \in Seq(0 .. 255)
        /\ PacketCode(b, 1) = 224 /\ PacketCode(b, 2) = 57344 + 42
        /\ PacketCode(b, 3) = 224 /\ PacketCode(b, 4) = 57344 + 75
    BY <2>1, Codes DEF PacketCode
  <2>3. Packet(b) /\ b # <<>>
    BY <2>1, <2>2, Codes DEF Packet
  <2> HIDE DEF b
  <2>4. Textless(b)
    BY <2>2, CharacterCodes DEF Textless
  <2>7. \A m \in Modifiers : \A c \in {224, 57344 + 42, 57344 + 75} :
          c \notin MakeCodes(m) /\ c - 128 \notin MakeCodes(m)
    BY Codes
  <2>5. \A m \in Modifiers : Silent(b, m)
    BY <2>2, <2>7 DEF Silent
  <2>6. \A m \in Modifiers : k \notin KeysOf[m]
    BY <1>3, Codes
  <2> QED
    BY <1>3, <2>3, <2>4, <2>5, <2>6 DEF b
<1>4. CASE k = "pause"
  <2> DEFINE b == Make[k]
  <2>1. b = <<225, 29, 69, 225, 157, 197>>
    BY <1>4, Makes
  <2>2. /\ Len(b) = 6 /\ 1 .. 6 = {1, 2, 3, 4, 5, 6} /\ 5 .. 6 = {5, 6} /\ b \in Seq(0 .. 255)
        /\ PacketCode(b, 1) = 225 /\ PacketCode(b, 2) = 29 /\ PacketCode(b, 3) = 69
        /\ PacketCode(b, 4) = 225 /\ PacketCode(b, 5) = 157 /\ PacketCode(b, 6) = 197
    BY <2>1, Codes DEF PacketCode
  <2>3. Packet(b) /\ b # <<>>
    BY <2>1, <2>2, Codes DEF Packet
  <2> HIDE DEF b
  <2>4. Textless(b)
    BY <2>2, CharacterCodes DEF Textless
  <2>8. \A m \in {"shift", "alt"} : \A c \in {225, 29, 69, 157, 197} :
          c \notin MakeCodes(m) /\ c - 128 \notin MakeCodes(m)
    BY Codes
  <2>5. Silent(b, "shift") /\ Silent(b, "alt")
    BY <2>2, <2>8 DEF Silent
  <2>6. Lowers(b, "ctrl")
    BY <2>2, Codes DEF Lowers
  <2>7. \A m \in Modifiers : k \notin KeysOf[m]
    BY <1>4, Codes
  <2> QED
    BY <1>4, <2>3, <2>4, <2>5, <2>6, <2>7 DEF b
<1> QED
  BY <1>1, <1>2, <1>3, <1>4 DEF KeyNames, OneByte

LEMMA BreakPackets ==
  ASSUME NEW k \in KeyNames
  PROVE  /\ Packet(Break[k]) /\ Textless(Break[k])
         /\ \A m \in Modifiers : /\ k \in KeysOf[m] => Lowers(Break[k], m)
                                 /\ k \notin KeysOf[m] => Silent(Break[k], m)
<1>1. CASE k \in OneByte
  <2> DEFINE b == Break[k]
  <2>1. PICK c \in 1 .. 58 :
          b = <<c + 128>> /\ \A m \in Modifiers : c \in MakeCodes(m) <=> k \in KeysOf[m]
    BY <1>1, OneByteKeys
  <2>2. Len(b) = 1 /\ PacketCode(b, 1) = c + 128 /\ 1 .. 1 = {1} /\ b \in Seq(0 .. 255)
    BY <2>1 DEF PacketCode
  <2>3. Packet(b)
    BY <2>1, <2>2, Codes DEF Packet
  <2> HIDE DEF b
  <2>4. \A m \in Modifiers : c + 128 \notin MakeCodes(m)
    BY Codes
  <2>5. (c + 128) - 128 = c
    OBVIOUS
  <2>6. \A m \in Modifiers : /\ k \in KeysOf[m] => Lowers(b, m)
                             /\ k \notin KeysOf[m] => Silent(b, m)
    BY <2>1, <2>2, <2>4, <2>5 DEF Lowers, Silent
  <2>7. Textless(b)
    BY <2>2, CharacterCodes DEF Textless
  <2> QED
    BY <2>3, <2>6, <2>7 DEF b
<1>2. CASE k \in {"ctrl_r", "alt_r"}
  <2>1. PICK c \in {157, 184} : Break[k] = <<224, c>> /\ (k = "ctrl_r" <=> c = 157)
    BY <1>2, Breaks
  <2>2. /\ Len(Break[k]) = 2 /\ PacketCode(Break[k], 1) = 224 /\ PacketCode(Break[k], 2) = 57344 + c
        /\ 1 .. 2 = {1, 2} /\ 2 .. 2 = {2} /\ Break[k] \in Seq(0 .. 255)
    BY <2>1, Codes DEF PacketCode
  <2>3. Packet(Break[k])
    BY <2>1, <2>2, Codes DEF Packet
  <2>4. Textless(Break[k])
    BY <2>1, <2>2, CharacterCodes DEF Textless
  <2>5. \A m \in Modifiers : /\ 57344 + c - 128 \in MakeCodes(m) <=> k \in KeysOf[m]
                             /\ 57344 + c \notin MakeCodes(m)
                             /\ 224 \notin MakeCodes(m) /\ 224 - 128 \notin MakeCodes(m)
    BY <1>2, <2>1, Codes
  <2>6. \A m \in Modifiers : /\ k \in KeysOf[m] => Lowers(Break[k], m)
                             /\ k \notin KeysOf[m] => Silent(Break[k], m)
    BY <2>2, <2>5 DEF Lowers, Silent
  <2> QED
    BY <2>3, <2>4, <2>6
<1>3. CASE k = "left"
  <2> DEFINE b == Break[k]
  <2>1. b = <<224, 203, 224, 170>>
    BY <1>3, Breaks
  <2>2. /\ Len(b) = 4 /\ 1 .. 4 = {1, 2, 3, 4} /\ b \in Seq(0 .. 255)
        /\ PacketCode(b, 1) = 224 /\ PacketCode(b, 2) = 57344 + 203
        /\ PacketCode(b, 3) = 224 /\ PacketCode(b, 4) = 57344 + 170
    BY <2>1, Codes DEF PacketCode
  <2>3. Packet(b)
    BY <2>1, <2>2, Codes DEF Packet
  <2> HIDE DEF b
  <2>4. Textless(b)
    BY <2>2, CharacterCodes DEF Textless
  <2>7. \A m \in Modifiers : \A c \in {224, 57344 + 203, 57344 + 170} :
          c \notin MakeCodes(m) /\ c - 128 \notin MakeCodes(m)
    BY Codes
  <2>5. \A m \in Modifiers : Silent(b, m)
    BY <2>2, <2>7 DEF Silent
  <2>6. \A m \in Modifiers : k \notin KeysOf[m]
    BY <1>3, Codes
  <2> QED
    BY <2>3, <2>4, <2>5, <2>6 DEF b
<1>4. CASE k = "pause"
  <2>1. Break[k] = <<>> /\ Len(Break[k]) = 0 /\ Break[k] \in Seq(0 .. 255) /\ 1 .. 0 = {}
    BY <1>4, Breaks
  <2>2. \A m \in Modifiers : k \notin KeysOf[m]
    BY <1>4, Codes
  <2> QED
    BY <2>1, <2>2 DEF Packet, Textless, Silent
<1> QED
  BY <1>1, <1>2, <1>3, <1>4 DEF KeyNames, OneByte

LEMMA CtrlBreakPacket ==
  /\ Packet(CtrlBreak) /\ CtrlBreak # <<>> /\ Textless(CtrlBreak)
  /\ \A m \in Modifiers : Silent(CtrlBreak, m)
<1> DEFINE b == CtrlBreak
<1>1. b = <<224, 70, 224, 198>>
  BY Codes DEF CtrlBreak
<1>2. /\ Len(b) = 4 /\ 1 .. 4 = {1, 2, 3, 4} /\ b \in Seq(0 .. 255) /\ b # <<>> /\ b[4] = 198
      /\ PacketCode(b, 1) = 224 /\ PacketCode(b, 2) = 57344 + 70
      /\ PacketCode(b, 3) = 224 /\ PacketCode(b, 4) = 57344 + 198
  BY <1>1, Codes DEF PacketCode
<1> HIDE DEF b
<1>3. Packet(b)
  BY <1>2, Codes DEF Packet
<1>4. Textless(b)
  BY <1>2, CharacterCodes DEF Textless
<1>5. \A m \in Modifiers : \A c \in {224, 57344 + 70, 57344 + 198} :
        c \notin MakeCodes(m) /\ c - 128 \notin MakeCodes(m)
  BY Codes
<1>6. \A m \in Modifiers : Silent(b, m)
  BY <1>2, <1>5 DEF Silent
<1> QED
  BY <1>2, <1>3, <1>4, <1>6 DEF b
-----------------------------------------------------------------------------
(* The invariant. *)

Echoes == [key : Keymap, up : BOOLEAN, shift : Shifts, caps : BOOLEAN]

Types ==
  /\ {ctrl_status, alt_status, shift_status, ext_status} \subseteq BOOLEAN
  /\ caps_status = FALSE
  /\ echo \in Echoes
  /\ held \subseteq Keys /\ caps_on \in BOOLEAN /\ unsure \subseteq Modifiers
  /\ wire \in Seq(Entries)

\* A byte is the second of a pair just if EXT_CODE is in front of it, read or
\* not, and no pair is cut.
Paired ==
  /\ ext_status => wire # <<>>
  /\ wire # <<>> => /\ wire[1].second <=> ext_status
                    /\ wire[Len(wire)].byte # EXT_CODE
  /\ \A i \in 1 .. (Len(wire) - 1) : wire[i + 1].second <=> wire[i].byte = EXT_CODE

\* What the flags will be when the wire is empty agrees with the keys.
Finally(m) == After(Status[m], wire, m, Len(wire))
Agree(m, ks, doubt, flag) ==
  /\ KeysOf[m] \subseteq ks => m \in doubt
  /\ flag => Down(m, ks)
  /\ m \notin doubt => (flag <=> Down(m, ks))
Agrees == \A m \in Modifiers : Agree(m, held, unsure, Finally(m))

\* What the flag will be when a character is read is what it was typed with.
Cased ==
  \A i \in 1 .. Len(wire) :
    (CodeOf(wire[i]) \in Characters /\ wire[i].shift # "unsure") =>
      (After(Status["shift"], wire, "shift", i - 1) <=> wire[i].shift = "down")

EchoRight == echo.shift # "unsure" => (echo.up <=> echo.shift = "down")

IInv == Types /\ Paired /\ Agrees /\ Cased /\ EchoRight
-----------------------------------------------------------------------------
(* The handler reads one byte. *)

LEMMA StatusIs ==
  /\ Status["shift"] = shift_status /\ Status["ctrl"] = ctrl_status /\ Status["alt"] = alt_status
  /\ Status'["shift"] = shift_status' /\ Status'["ctrl"] = ctrl_status'
  /\ Status'["alt"] = alt_status'
BY DEF Status

LEMMA WireLen ==
  ASSUME wire \in Seq(Entries)
  PROVE  Len(wire) \in Nat /\ (wire = <<>> <=> Len(wire) = 0)
OBVIOUS

\* The code of the byte at hand, as the driver and as the wire have it.
LEMMA CodeRead ==
  ASSUME Types, Paired, wire # <<>>
  PROVE  /\ Head(wire) = wire[1] /\ wire[1] \in Entries /\ wire[1].byte \in 0 .. 255
         /\ Code(wire[1].byte) = CodeOf(wire[1])
         /\ CodeOf(wire[1]) = wire[1].byte \/ CodeOf(wire[1]) = 57344 + wire[1].byte
<1>1. wire \in Seq(Entries) /\ Len(wire) \in Nat /\ 1 \in 1 .. Len(wire)
  BY WireLen DEF Types
<1>2. Head(wire) = wire[1] /\ wire[1] \in Entries
  BY <1>1
<1>3. wire[1].byte \in 0 .. 255 /\ wire[1].second \in BOOLEAN
  BY <1>2 DEF Entries
<1>4. wire[1].second <=> ext_status
  BY DEF Paired
<1>5. Code(wire[1].byte) = CodeOf(wire[1])
  BY <1>4 DEF Code, CodeOf
<1> QED
  BY <1>2, <1>3, <1>5, Codes DEF CodeOf

\* A flag after a byte that sets it (on) or clears it (off).
Turns(now, next, on, off) == next \in BOOLEAN /\ (next <=> (on \/ (now /\ ~off)))

\* What the handler does with byte e.
Moves(e) ==
  /\ wire' = Tail(wire) /\ UNCHANGED <<held, caps_on, unsure>>
  /\ ext_status' \in BOOLEAN /\ (ext_status' <=> e.byte = EXT_CODE)
  /\ caps_status' = FALSE
Shows(e) ==
  \/ echo' = echo
  \/ /\ CodeOf(e) \in Characters
     /\ echo' \in Echoes /\ echo'.up = shift_status /\ echo'.shift = e.shift
Reading(e) ==
  /\ Moves(e) /\ Shows(e)
  /\ \A m \in Modifiers : Turns(Status[m], Status'[m], Sets(e, m), Clears(e, m))

LEMMA Turned ==
  ASSUME NEW now \in BOOLEAN, NEW next, NEW on \in BOOLEAN, NEW off \in BOOLEAN
  PROVE  /\ next = now /\ ~on /\ ~off => Turns(now, next, on, off)
         /\ next = (now /\ ~off) /\ ~on => Turns(now, next, on, off)
         /\ next = (now \/ on) /\ ~off => Turns(now, next, on, off)
<1>1. on \in {TRUE, FALSE} /\ off \in {TRUE, FALSE} /\ now \in {TRUE, FALSE}
  OBVIOUS
<1> QED
  BY <1>1 DEF Turns

LEMMA Moved ==
  ASSUME NEW e, Reads(e), caps_status = FALSE, caps_status' = caps_status,
         \/ ext_status' = TRUE /\ e.byte = EXT_CODE
         \/ ext_status' = FALSE /\ e.byte # EXT_CODE
  PROVE  Moves(e)
<1>1. wire' = Tail(wire) /\ held' = held /\ caps_on' = caps_on /\ unsure' = unsure
  BY DEF Reads, keys
<1>2. ext_status' \in BOOLEAN /\ (ext_status' <=> e.byte = EXT_CODE)
  BY Zenon
<1>3. UNCHANGED <<held, caps_on, unsure>>
  BY <1>1
<1> QED
  BY <1>1, <1>2, <1>3, Zenon DEF Moves

LEMMA ReadEffect ==
  ASSUME Types, Paired, keyboard_intr_handler
  PROVE  wire # <<>> /\ Reading(wire[1])
<1> DEFINE e == wire[1]
           c == CodeOf(e)
           b == e.byte
           On(m) == Sets(e, m)
           Off(m) == Clears(e, m)
<1>1. wire # <<>>
  BY DEF keyboard_intr_handler
<1>2. /\ Head(wire) = e /\ e \in Entries /\ b \in 0 .. 255 /\ Code(b) = c
      /\ c = b \/ c = 57344 + b
  BY <1>1, CodeRead
<1>3. /\ ctrl_status \in BOOLEAN /\ alt_status \in BOOLEAN /\ shift_status \in BOOLEAN
      /\ caps_status = FALSE
  BY DEF Types
<1>4. \A m : On(m) \in BOOLEAN /\ Off(m) \in BOOLEAN
  BY DEF Sets, Clears
<1>5. (On("shift") <=> c \in {42, 54}) /\ (Off("shift") <=> c - 128 \in {42, 54})
  <2>1. (On("shift") <=> c \in MakeCodes("shift")) /\ (Off("shift") <=> c - 128 \in MakeCodes("shift"))
    BY Zenon DEF Sets, Clears
  <2> HIDE DEF c, On, Off
  <2>2. \A x : x \in MakeCodes("shift") <=> x \in {42, 54}
    BY Codes
  <2> QED BY <2>1, <2>2, Zenon
<1>6. (On("ctrl") <=> c \in {29, 57373}) /\ (Off("ctrl") <=> c - 128 \in {29, 57373})
  <2>1. (On("ctrl") <=> c \in MakeCodes("ctrl")) /\ (Off("ctrl") <=> c - 128 \in MakeCodes("ctrl"))
    BY Zenon DEF Sets, Clears
  <2> HIDE DEF c, On, Off
  <2> DEFINE G == {29, 57373}
  <2>2. \A x : x \in MakeCodes("ctrl") <=> x \in G
    BY Codes
  <2> HIDE DEF G
  <2>3. (On("ctrl") <=> c \in G) /\ (Off("ctrl") <=> c - 128 \in G)
    BY <2>1, <2>2, Zenon
  <2> QED BY <2>3 DEF G
<1>7. (On("alt") <=> c \in {56, 57400}) /\ (Off("alt") <=> c - 128 \in {56, 57400})
  <2>1. (On("alt") <=> c \in MakeCodes("alt")) /\ (Off("alt") <=> c - 128 \in MakeCodes("alt"))
    BY Zenon DEF Sets, Clears
  <2> HIDE DEF c, On, Off
  <2> DEFINE G == {56, 57400}
  <2>2. \A x : x \in MakeCodes("alt") <=> x \in G
    BY Codes
  <2> HIDE DEF G
  <2>3. (On("alt") <=> c \in G) /\ (Off("alt") <=> c - 128 \in G)
    BY <2>1, <2>2, Zenon
  <2> QED BY <2>3 DEF G
<1>8. /\ CTRL_L_MAKE = 29 /\ CTRL_R_MAKE = 57373 /\ SHIFT_L_MAKE = 42 /\ SHIFT_R_MAKE = 54
      /\ ALT_L_MAKE = 56 /\ ALT_R_MAKE = 57400 /\ EXT_CODE = 224
  BY DEF CTRL_L_MAKE, CTRL_R_MAKE, SHIFT_L_MAKE, SHIFT_R_MAKE, ALT_L_MAKE, ALT_R_MAKE, EXT_CODE
<1> HIDE DEF c, b, On, Off
<1>9. SUFFICES /\ Moves(e) /\ Shows(e)
               /\ Turns(shift_status, shift_status', On("shift"), Off("shift"))
               /\ Turns(ctrl_status, ctrl_status', On("ctrl"), Off("ctrl"))
               /\ Turns(alt_status, alt_status', On("alt"), Off("alt"))
  <2>1. \A m \in Modifiers : m = "shift" \/ m = "ctrl" \/ m = "alt"
    BY DEF Modifiers
  <2> QED BY <1>1, <2>1, StatusIs, Zenon DEF Reading, On, Off
<1>10. CASE ReadPrefix
  <2>1. Reads(e) /\ b = 224 /\ ext_status' = TRUE /\ UNCHANGED <<flags, echo>>
    BY <1>2, <1>8, <1>10 DEF ReadPrefix, b
  <2>2. \A m \in Modifiers : ~On(m) /\ ~Off(m)
    BY <1>2, <1>5, <1>6, <1>7, <2>1 DEF Modifiers
  <2>3. Moves(e)
    <3>1. caps_status = FALSE /\ caps_status' = caps_status /\ Reads(e)
      BY <1>3, <1>8, <2>1 DEF flags
    <3>2. \/ ext_status' = TRUE /\ e.byte = EXT_CODE
          \/ ext_status' = FALSE /\ e.byte # EXT_CODE
      BY <1>3, <1>8, <2>1 DEF b
    <3> QED BY <3>1, <3>2, Moved, Zenon
  <2>4. ~On("shift") /\ ~Off("shift") /\ ~On("ctrl") /\ ~Off("ctrl") /\ ~On("alt") /\ ~Off("alt")
    BY <2>2 DEF Modifiers
  <2>5. shift_status' = shift_status /\ ctrl_status' = ctrl_status /\ alt_status' = alt_status
    BY <2>1 DEF flags
  <2>6. Shows(e)
    BY <2>1 DEF Shows
  <2> QED BY <1>3, <1>4, <2>3, <2>4, <2>5, <2>6, Turned
<1>11. CASE ReadBreak
  <2>1. Reads(e) /\ b # 224 /\ b >= 128 /\ ext_status' = FALSE /\ UNCHANGED <<caps_status, echo>>
    BY <1>2, <1>8, <1>11 DEF ReadBreak, ExtAfter, b
  <2>2. /\ ctrl_status' = (ctrl_status /\ c - 128 \notin {29, 57373})
        /\ shift_status' = (shift_status /\ c - 128 \notin {42, 54})
        /\ alt_status' = (alt_status /\ c - 128 \notin {56, 57400})
    BY <1>2, <1>8, <1>11 DEF ReadBreak, Broken, b
  <2>3. ~On("shift") /\ ~On("ctrl") /\ ~On("alt")
    BY <1>2, <1>5, <1>6, <1>7, <2>1
  <2>4. Moves(e)
    <3>1. caps_status = FALSE /\ caps_status' = caps_status /\ Reads(e)
      BY <1>3, <1>8, <2>1 DEF flags
    <3>2. \/ ext_status' = TRUE /\ e.byte = EXT_CODE
          \/ ext_status' = FALSE /\ e.byte # EXT_CODE
      BY <1>3, <1>8, <2>1 DEF b
    <3> QED BY <3>1, <3>2, Moved, Zenon
  <2>5. Shows(e)
    BY <2>1 DEF Shows
  <2>6. /\ ctrl_status' = (ctrl_status /\ ~Off("ctrl"))
        /\ shift_status' = (shift_status /\ ~Off("shift"))
        /\ alt_status' = (alt_status /\ ~Off("alt"))
    BY <1>5, <1>6, <1>7, <2>2
  <2> QED BY <1>3, <1>4, <2>3, <2>4, <2>5, <2>6, Turned, Zenon
<1>12. CASE ReadMake
  <2> DEFINE key == c % 256
  <2>1. Reads(e) /\ b < 128 /\ (HasEntry(c) \/ c \in {57400, 57373}) /\ ext_status' = FALSE
    BY <1>2, <1>8, <1>12 DEF ReadMake, ExtAfter, b
  <2>2. IF key \notin NoCharacter
        THEN /\ echo' = [key |-> key, up |-> Up(c), shift |-> e.shift, caps |-> e.caps]
             /\ UNCHANGED flags
        ELSE /\ ctrl_status' = (ctrl_status \/ key = CTRL_L_MAKE)
             /\ shift_status' = (shift_status \/ key \in {SHIFT_L_MAKE, SHIFT_R_MAKE})
             /\ alt_status' = (alt_status \/ key = ALT_L_MAKE)
             /\ UNCHANGED <<caps_status, echo>>
    BY <1>2, <1>12 DEF ReadMake, b
  <2>3. b # 224 /\ ~Off("shift") /\ ~Off("ctrl") /\ ~Off("alt")
    BY <1>2, <1>5, <1>6, <1>7, <2>1
  <2>4. c \in Int /\ ((c > 0 /\ c < 59) \/ c = 57400 \/ c = 57373)
    BY <1>2, <2>1 DEF HasEntry
  <2>5. /\ key = 29 <=> c \in {29, 57373}
        /\ key \in {42, 54} <=> c \in {42, 54}
        /\ key = 56 <=> c \in {56, 57400}
    BY <2>4
  <2>6. key \notin NoCharacter => c \in Characters /\ key = c
    BY <1>8, <2>4 DEF NoCharacter, Characters, Keymap, CAPS_LOCK_MAKE
  <2> HIDE DEF key
  <2>7. CASE key \notin NoCharacter
    <3>1. c \in Characters /\ key = c
          /\ echo' = [key |-> key, up |-> Up(c), shift |-> e.shift, caps |-> e.caps]
      BY <2>2, <2>6, <2>7
    <3>2. UNCHANGED flags
      BY <2>2, <2>7
    <3>3. Up(c) = shift_status
      BY <1>3, Zenon DEF Up
    <3>4. c \in Keymap /\ e.shift \in Shifts /\ e.caps \in BOOLEAN
      BY <1>2, <3>1 DEF Characters, Entries
    <3>5. Shows(e)
      <4>1. echo' = [key |-> c, up |-> shift_status, shift |-> e.shift, caps |-> e.caps]
        BY <3>1, <3>3
      <4>2. echo' \in Echoes
        BY <1>3, <3>4, <4>1 DEF Echoes
      <4>3. echo'.up = shift_status /\ echo'.shift = e.shift
        BY <4>1
      <4> QED BY <3>1, <4>2, <4>3 DEF Shows, c
    <3>6. ~On("shift") /\ ~On("ctrl") /\ ~On("alt")
      BY <1>5, <1>6, <1>7, <3>1, CharacterCodes
    <3>7. shift_status' = shift_status /\ ctrl_status' = ctrl_status /\ alt_status' = alt_status
      BY <3>2 DEF flags
    <3>8. Moves(e)
      <4>1. caps_status = FALSE /\ caps_status' = caps_status /\ Reads(e)
        BY <1>3, <1>8, <2>1, <2>3, <3>2 DEF flags
      <4>2. \/ ext_status' = TRUE /\ e.byte = EXT_CODE
            \/ ext_status' = FALSE /\ e.byte # EXT_CODE
        BY <1>3, <1>8, <2>1, <2>3, <3>2 DEF b
      <4> QED BY <4>1, <4>2, Moved, Zenon
    <3> QED BY <1>3, <1>4, <2>3, <3>5, <3>6, <3>7, <3>8, Turned
  <2>8. CASE key \in NoCharacter
    <3>1. /\ ctrl_status' = (ctrl_status \/ key = 29)
          /\ shift_status' = (shift_status \/ key \in {42, 54})
          /\ alt_status' = (alt_status \/ key = 56)
          /\ caps_status' = caps_status /\ echo' = echo
      BY <1>8, <2>2, <2>8
    <3>2. /\ ctrl_status' = (ctrl_status \/ On("ctrl"))
          /\ shift_status' = (shift_status \/ On("shift"))
          /\ alt_status' = (alt_status \/ On("alt"))
      BY <1>5, <1>6, <1>7, <2>5, <3>1
    <3>3. Moves(e)
      <4>1. caps_status = FALSE /\ caps_status' = caps_status /\ Reads(e)
        BY <1>3, <1>8, <2>1, <2>3, <3>1 DEF flags
      <4>2. \/ ext_status' = TRUE /\ e.byte = EXT_CODE
            \/ ext_status' = FALSE /\ e.byte # EXT_CODE
        BY <1>3, <1>8, <2>1, <2>3, <3>1 DEF b
      <4> QED BY <4>1, <4>2, Moved, Zenon
    <3>4. Shows(e)
      BY <3>1 DEF Shows
    <3> QED BY <1>3, <1>4, <2>3, <3>2, <3>3, <3>4, Turned, Zenon
  <2> QED BY <2>7, <2>8
<1>13. CASE ReadOther
  <2>1. /\ Reads(e) /\ b < 128 /\ ~HasEntry(c) /\ c \notin {57400, 57373} /\ ext_status' = FALSE
        /\ UNCHANGED <<flags, echo>>
    BY <1>2, <1>8, <1>13 DEF ReadOther, ExtAfter, b
  <2>2. b # 224 /\ c \notin {42, 54, 29, 56}
    BY <1>2, <2>1 DEF HasEntry
  <2>3. ~On("shift") /\ ~Off("shift") /\ ~On("ctrl") /\ ~Off("ctrl") /\ ~On("alt") /\ ~Off("alt")
    BY <1>2, <1>5, <1>6, <1>7, <2>1, <2>2
  <2>4. Moves(e)
    <3>1. caps_status = FALSE /\ caps_status' = caps_status /\ Reads(e)
      BY <1>3, <1>8, <2>1, <2>2 DEF flags
    <3>2. \/ ext_status' = TRUE /\ e.byte = EXT_CODE
          \/ ext_status' = FALSE /\ e.byte # EXT_CODE
      BY <1>3, <1>8, <2>1, <2>2 DEF b
    <3> QED BY <3>1, <3>2, Moved, Zenon
  <2>5. shift_status' = shift_status /\ ctrl_status' = ctrl_status /\ alt_status' = alt_status
    BY <2>1 DEF flags
  <2>6. Shows(e)
    BY <2>1 DEF Shows
  <2> QED BY <1>3, <1>4, <2>3, <2>4, <2>5, <2>6, Turned
<1> QED
  BY <1>10, <1>11, <1>12, <1>13, Zenon DEF keyboard_intr_handler

LEMMA ReadKeeps ==
  ASSUME IInv, keyboard_intr_handler
  PROVE  IInv'
<1> DEFINE e == wire[1]
           n == Len(wire)
<1>1. wire # <<>> /\ Reading(e)
  BY ReadEffect DEF IInv
<1>2. Moves(e) /\ Shows(e)
      /\ \A m \in Modifiers : Turns(Status[m], Status'[m], Sets(e, m), Clears(e, m))
  BY <1>1, Zenon DEF Reading
<1>3. wire' = Tail(wire) /\ held' = held /\ caps_on' = caps_on /\ unsure' = unsure
      /\ ext_status' \in BOOLEAN /\ caps_status' = FALSE
  BY <1>2 DEF Moves
<1>4. ext_status' <=> e.byte = EXT_CODE
  BY <1>2, Zenon DEF Moves
<1>5. /\ wire \in Seq(Entries) /\ n \in Nat /\ n >= 1 /\ wire' \in Seq(Entries) /\ Len(wire') = n - 1
      /\ \A i \in 1 .. (n - 1) : wire'[i] = wire[i + 1]
      /\ wire' # <<>> <=> n > 1
  <2>1. wire \in Seq(Entries)
    BY DEF IInv, Types
  <2>2. wire' \in Seq(Entries) /\ Len(wire') = n - 1 /\ \A i \in 1 .. Len(wire') : wire'[i] = wire[i + 1]
    BY <1>1, <1>3, <2>1, HeadTailProperties
  <2>3. n \in Nat /\ n >= 1
    BY <1>1, <2>1, WireLen
  <2>4. wire' # <<>> <=> Len(wire') # 0
    BY <2>2
  <2> QED BY <2>1, <2>2, <2>3, <2>4
<1>6. /\ shift_status \in BOOLEAN /\ ctrl_status \in BOOLEAN /\ alt_status \in BOOLEAN
      /\ \A m \in Modifiers : Status[m] \in BOOLEAN /\ Status'[m] \in BOOLEAN
  <2>1. \A m \in Modifiers : Status'[m] \in BOOLEAN
    BY <1>2, Zenon DEF Turns
  <2>2. shift_status \in BOOLEAN /\ ctrl_status \in BOOLEAN /\ alt_status \in BOOLEAN
    BY DEF IInv, Types
  <2>3. \A m \in Modifiers : m = "shift" \/ m = "ctrl" \/ m = "alt"
    BY DEF Modifiers
  <2> QED BY <2>1, <2>2, <2>3, StatusIs, Zenon
<1> HIDE DEF n
<1>7. Types'
  <2>1. shift_status' \in BOOLEAN /\ ctrl_status' \in BOOLEAN /\ alt_status' \in BOOLEAN
    <3>1. "shift" \in Modifiers /\ "ctrl" \in Modifiers /\ "alt" \in Modifiers
      BY DEF Modifiers
    <3> QED BY <1>6, <3>1, StatusIs, Zenon
  <2>2. echo' \in Echoes
    BY <1>2, Zenon DEF Shows, IInv, Types
  <2>3. held \subseteq Keys /\ caps_on \in BOOLEAN /\ unsure \subseteq Modifiers
    BY DEF IInv, Types
  <2> QED BY <1>3, <1>5, <2>1, <2>2, <2>3 DEF Types
<1>8. /\ wire[n].byte # EXT_CODE
      /\ \A i \in 1 .. (n - 1) : wire[i + 1].second <=> wire[i].byte = EXT_CODE
  BY <1>1 DEF IInv, Paired, n
<1>9. Paired'
  <2>1. ext_status' => n > 1
    <3>1. n = 1 => e.byte # EXT_CODE
      BY <1>8
    <3> QED BY <1>4, <1>5, <3>1
  <2>2. ASSUME n > 1
        PROVE  (wire'[1].second <=> ext_status') /\ wire'[n - 1].byte # EXT_CODE
    <3>1. 1 \in 1 .. (n - 1) /\ n - 1 \in 1 .. (n - 1) /\ (n - 1) + 1 = n
      BY <1>5, <2>2
    <3>2. wire'[1] = wire[1 + 1] /\ wire'[n - 1] = wire[n]
      BY <1>5, <3>1
    <3>3. wire[1 + 1].second <=> wire[1].byte = EXT_CODE
      BY <1>8, <3>1
    <3> QED BY <1>4, <1>8, <3>2, <3>3, Zenon
  <2>3. ASSUME NEW i \in 1 .. ((n - 1) - 1)
        PROVE  wire'[i + 1].second <=> wire'[i].byte = EXT_CODE
    <3>1. i \in 1 .. (n - 1) /\ i + 1 \in 1 .. (n - 1)
      BY <1>5
    <3>2. wire'[i] = wire[i + 1] /\ wire'[i + 1] = wire[i + 1 + 1]
      BY <1>5, <3>1
    <3>3. wire[i + 1 + 1].second <=> wire[i + 1].byte = EXT_CODE
      BY <1>8, <3>1
    <3> QED BY <3>2, <3>3, Zenon
  <2>4. ext_status' => wire' # <<>>
    BY <1>5, <2>1
  <2>5. wire' # <<>> => (wire'[1].second <=> ext_status') /\ wire'[Len(wire')].byte # EXT_CODE
    BY <1>5, <2>2
  <2>6. \A i \in 1 .. (Len(wire') - 1) : wire'[i + 1].second <=> wire'[i].byte = EXT_CODE
    <3>1. Len(wire') = n - 1
      BY <1>5
    <3> QED BY <2>3, <3>1, Zenon
  <2> QED BY <2>4, <2>5, <2>6, Zenon DEF Paired
<1>10. ASSUME NEW m \in Modifiers, NEW k \in 0 .. (n - 1)
       PROVE  After(Status'[m], wire', m, k) <=> After(Status[m], wire, m, k + 1)
  <2>1. /\ Status[m] \in BOOLEAN /\ Status'[m] \in BOOLEAN
        /\ Status'[m] <=> (Sets(wire[1], m) \/ (Status[m] /\ ~Clears(wire[1], m)))
    BY <1>2, <1>6, Zenon DEF Turns
  <2>2. k \in Nat /\ k < Len(wire)
    BY <1>5 DEF n
  <2>3. After(Status'[m], Tail(wire), m, k) <=> After(Status[m], wire, m, k + 1)
    BY <1>1, <1>5, <2>1, <2>2, AfterRead
  <2> QED BY <1>3, <2>3, Zenon
<1>11. Agrees'
  <2>1. ASSUME NEW m \in Modifiers
        PROVE  Agree(m, held', unsure', After(Status'[m], wire', m, Len(wire')))
    <3>1. n - 1 \in 0 .. (n - 1) /\ (n - 1) + 1 = n
      BY <1>5
    <3>2. After(Status'[m], wire', m, n - 1) <=> After(Status[m], wire, m, n)
      BY <1>10, <3>1
    <3>3. After(Status'[m], wire', m, Len(wire')) <=> Finally(m)
      <4>1. Len(wire') = n - 1
        BY <1>5
      <4> QED BY <3>2, <4>1, Zenon DEF Finally, n
    <3>4. Agree(m, held, unsure, Finally(m))
      BY DEF IInv, Agrees
    <3> QED BY <1>3, <3>3, <3>4, Zenon DEF Agree
  <2> QED BY <2>1, Zenon DEF Agrees, Finally
<1>12. "shift" \in Modifiers
  BY DEF Modifiers
<1>13. Cased'
  <2>1. ASSUME NEW i \in 1 .. Len(wire'), CodeOf(wire'[i]) \in Characters, wire'[i].shift # "unsure"
        PROVE  After(Status'["shift"], wire', "shift", i - 1) <=> wire'[i].shift = "down"
    <3>1. i \in 1 .. (n - 1) /\ i - 1 \in 0 .. (n - 1) /\ (i - 1) + 1 = (i + 1) - 1 /\ i + 1 \in 1 .. n
      BY <1>5
    <3>2. wire'[i] = wire[i + 1]
      BY <1>5, <3>1
    <3>3. After(Status["shift"], wire, "shift", (i + 1) - 1) <=> wire[i + 1].shift = "down"
      BY <2>1, <3>1, <3>2 DEF IInv, Cased, n
    <3>4. After(Status'["shift"], wire', "shift", i - 1)
            <=> After(Status["shift"], wire, "shift", (i - 1) + 1)
      BY <1>10, <1>12, <3>1
    <3> QED BY <3>1, <3>2, <3>3, <3>4, Zenon
  <2> QED BY <2>1, Zenon DEF Cased
<1>14. EchoRight'
  <2>1. CASE echo' = echo
    BY <2>1, Zenon DEF IInv, EchoRight
  <2>2. CASE /\ CodeOf(e) \in Characters
             /\ echo' \in Echoes /\ echo'.up = shift_status /\ echo'.shift = e.shift
    <3>1. 1 \in 1 .. n /\ 1 - 1 = 0
      BY <1>5
    <3>2. e.shift # "unsure" => (After(Status["shift"], wire, "shift", 0) <=> e.shift = "down")
      BY <2>2, <3>1 DEF IInv, Cased, n
    <3>3. After(Status["shift"], wire, "shift", 0) <=> shift_status
      <4>1. Status["shift"] = shift_status
        BY StatusIs
      <4>2. 1 .. 0 = {} /\ (0 + 1) .. 0 = {}
        OBVIOUS
      <4> QED BY <4>1, <4>2, Zenon DEF After, Kept
    <3> QED BY <2>2, <3>2, <3>3, Zenon DEF EchoRight
  <2> QED BY <1>2, <2>1, <2>2, Zenon DEF Shows
<1> QED
  BY <1>7, <1>9, <1>11, <1>13, <1>14 DEF IInv
-----------------------------------------------------------------------------
(* The keyboard sends a packet. *)

LEMMA SentFacts ==
  ASSUME IInv, NEW b, Packet(b), NEW ks, NEW doubt, NEW caps \in BOOLEAN, Send(b, ks, doubt, caps)
  PROVE  /\ wire' \in Seq(Entries) /\ Sent(wire, b, wire')
         /\ \A i \in 1 .. Len(b) :
              /\ wire'[Len(wire) + i].byte = b[i]
              /\ wire'[Len(wire) + i].shift = Meaning(ks, doubt)
              /\ wire'[Len(wire) + i].second <=> (i > 1 /\ b[i - 1] = EXT_CODE)
<1> DEFINE t == Tagged(b, ks, doubt, caps)
<1>1. wire \in Seq(Entries) /\ b \in Seq(0 .. 255) /\ wire' = wire \o t /\ Len(b) \in Nat
  BY DEF IInv, Types, Packet, Send
<1>2. Meaning(ks, doubt) \in Shifts
  BY DEF Meaning, Shifts
<1>3. /\ t = [i \in 1 .. Len(b) |->
                [byte |-> b[i], shift |-> Meaning(ks, doubt), caps |-> caps,
                 second |-> i > 1 /\ b[i - 1] = EXT_CODE]]
  BY DEF Tagged
<1>4. /\ \A i \in 1 .. Len(b) : b[i] \in 0 .. 255
      /\ \A i \in 1 .. Len(b) : (i > 1 /\ b[i - 1] = EXT_CODE) \in BOOLEAN
  <2>1. \A i \in 1 .. Len(b) : b[i] \in 0 .. 255
    BY ElementOfSeq DEF Packet
  <2>2. \A i \in 1 .. Len(b) : (i > 1 /\ b[i - 1] = EXT_CODE) \in BOOLEAN
    BY Zenon
  <2> QED BY <2>1, <2>2
<1>5. \A i \in 1 .. Len(b) : t[i] \in Entries
  BY <1>2, <1>3, <1>4 DEF Entries
<1> HIDE DEF t
<1>6. t \in Seq(Entries) /\ Len(t) = Len(b)
  BY <1>1, <1>3, <1>5
<1>7. /\ wire' \in Seq(Entries) /\ Len(wire') = Len(wire) + Len(b)
      /\ \A k \in 1 .. Len(wire) : wire'[k] = wire[k]
      /\ \A i \in 1 .. Len(b) : wire'[Len(wire) + i] = t[i]
  <2> DEFINE n == Len(wire)
             l == Len(b)
  <2>1. n \in Nat /\ l \in Nat
    BY <1>1
  <2>2. /\ wire' \in Seq(Entries) /\ Len(wire') = n + l
        /\ \A i \in 1 .. n + l : wire'[i] = IF i <= n THEN wire[i] ELSE t[i - n]
    <3>1. /\ wire \o t \in Seq(Entries) /\ Len(wire \o t) = Len(wire) + Len(t)
          /\ \A i \in 1 .. Len(wire) + Len(t) :
               (wire \o t)[i] = IF i <= Len(wire) THEN wire[i] ELSE t[i - Len(wire)]
      BY <1>1, <1>6, ConcatProperties
    <3>2. wire' = wire \o t
      BY <1>1
    <3> QED BY <1>6, <3>1, <3>2, Zenon
  <2> HIDE DEF n, l
  <2>3. ASSUME NEW k \in 1 .. n PROVE wire'[k] = wire[k]
    <3>1. k \in 1 .. n + l /\ k <= n
      BY <2>1
    <3> QED BY <2>2, <3>1
  <2>4. ASSUME NEW i \in 1 .. l PROVE wire'[n + i] = t[i]
    <3>1. n + i \in 1 .. n + l /\ ~(n + i <= n) /\ (n + i) - n = i
      BY <2>1
    <3> QED BY <2>2, <3>1
  <2> QED BY <2>2, <2>3, <2>4 DEF n, l
<1>8. \A i \in 1 .. Len(b) : /\ t[i].byte = b[i] /\ t[i].shift = Meaning(ks, doubt)
                             /\ t[i].second <=> (i > 1 /\ b[i - 1] = EXT_CODE)
  BY <1>3, Zenon
<1>9. \A i \in 1 .. Len(b) : CodeOf(t[i]) = PacketCode(b, i)
  BY <1>8 DEF CodeOf, PacketCode
<1> QED
  BY <1>7, <1>8, <1>9 DEF Sent

\* A packet keeps the invariant if it does to each flag what its key does.
LEMMA SendKeeps ==
  ASSUME IInv, NEW b, Packet(b), NEW ks, ks \subseteq Keys, NEW doubt, doubt \subseteq Modifiers,
         NEW caps \in BOOLEAN, Send(b, ks, doubt, caps),
         \A m \in Modifiers :
           /\ KeysOf[m] \subseteq ks => m \in doubt
           /\ \/ Raises(b, m) /\ Down(m, ks)
              \/ Lowers(b, m) /\ (m \in doubt \/ ~Down(m, ks))
              \/ Silent(b, m) /\ Agree(m, ks, doubt, Finally(m)),
         Textless(b) \/ (Len(b) = 1 /\ Agree("shift", ks, doubt, Finally("shift")))
  PROVE  IInv'
<1> DEFINE n == Len(wire)
           l == Len(b)
<1>1. /\ wire' \in Seq(Entries) /\ Sent(wire, b, wire')
      /\ \A i \in 1 .. l : /\ wire'[n + i].byte = b[i]
                           /\ wire'[n + i].shift = Meaning(ks, doubt)
                           /\ wire'[n + i].second <=> (i > 1 /\ b[i - 1] = EXT_CODE)
  BY SentFacts
<1>2. /\ held' = ks /\ unsure' = doubt /\ caps_on' = caps
      /\ shift_status' = shift_status /\ ctrl_status' = ctrl_status /\ alt_status' = alt_status
      /\ caps_status' = caps_status /\ ext_status' = ext_status /\ echo' = echo
  BY DEF Send, flags
<1>3. /\ wire \in Seq(Entries) /\ n \in Nat /\ b \in Seq(0 .. 255) /\ l \in Nat
      /\ Len(wire') = n + l /\ \A k \in 1 .. n : wire'[k] = wire[k]
      /\ \A i \in 1 .. l : CodeOf(wire'[n + i]) = PacketCode(b, i)
      /\ wire # <<>> <=> n # 0
      /\ b # <<>> => b[l] # EXT_CODE
      /\ b # <<>> <=> l # 0
      /\ wire' # <<>> <=> n + l # 0
  BY <1>1 DEF IInv, Types, Sent, Packet
<1>4. Types'
  BY <1>1, <1>2 DEF IInv, Types
<1>5. /\ ext_status => n # 0
      /\ n # 0 => wire[1].second <=> ext_status
      /\ n # 0 => wire[n].byte # EXT_CODE
      /\ \A i \in 1 .. (n - 1) : wire[i + 1].second <=> wire[i].byte = EXT_CODE
      /\ ext_status \in BOOLEAN
  BY <1>3 DEF IInv, Types, Paired
<1>6. Status' = Status
  BY <1>2 DEF Status
<1>7. \A m \in Modifiers :
        /\ Raises(b, m) => After(Status[m], wire', m, Len(wire'))
        /\ Lowers(b, m) => ~After(Status[m], wire', m, Len(wire'))
        /\ Silent(b, m) => (After(Status[m], wire', m, Len(wire')) <=> Finally(m))
        /\ \A k \in 0 .. n : After(Status[m], wire', m, k) <=> After(Status[m], wire, m, k)
  <2>1. wire \in Seq(Entries) /\ b \in Seq(0 .. 255) /\ Sent(wire, b, wire')
    BY <1>1, <1>3
  <2> QED BY <2>1, AfterSent DEF Finally
<1> HIDE DEF n, l
<1>8. Agrees'
  <2> SUFFICES ASSUME NEW m \in Modifiers
               PROVE  Agree(m, ks, doubt, After(Status[m], wire', m, Len(wire')))
    BY <1>2, <1>6, Zenon DEF Agrees, Finally
  <2>1. CASE Raises(b, m) /\ Down(m, ks)
    BY <1>7, <2>1, Zenon DEF Agree
  <2>2. CASE Lowers(b, m) /\ (m \in doubt \/ ~Down(m, ks))
    BY <1>7, <2>2, Zenon DEF Agree
  <2>3. CASE Silent(b, m) /\ Agree(m, ks, doubt, Finally(m))
    BY <1>7, <2>3, Zenon DEF Agree
  <2> QED BY <2>1, <2>2, <2>3
<1>9. Paired'
  <2>1. ext_status' => wire' # <<>>
    BY <1>2, <1>3, <1>5
  <2>2. ASSUME wire' # <<>> PROVE wire'[1].second <=> ext_status'
    <3>1. CASE n # 0
      <4>1. wire'[1] = wire[1]
        BY <1>3, <3>1
      <4> QED BY <1>2, <1>5, <3>1, <4>1, Zenon
    <3>2. CASE n = 0
      <4>1. 1 \in 1 .. l /\ n + 1 = 1
        BY <1>3, <2>2, <3>2
      <4>2. ~(1 > 1)
        OBVIOUS
      <4>3. ~(wire'[1].second)
        BY <1>1, <4>1, <4>2, Zenon DEF n, l
      <4>4. ~ext_status
        BY <1>5, <3>2, Zenon
      <4> QED BY <1>2, <4>3, <4>4, Zenon
    <3> QED BY <3>1, <3>2
  <2>3. ASSUME wire' # <<>> PROVE wire'[Len(wire')].byte # EXT_CODE
    <3>1. CASE l = 0
      <4>1. Len(wire') = n /\ n \in 1 .. n
        BY <1>3, <2>3, <3>1
      <4> QED BY <1>3, <1>5, <4>1
    <3>2. CASE l # 0
      <4>1. Len(wire') = n + l /\ l \in 1 .. l
        BY <1>3, <3>2
      <4> QED BY <1>1, <1>3, <3>2, <4>1 DEF n, l
    <3> QED BY <3>1, <3>2
  <2>4. ASSUME NEW i \in 1 .. (Len(wire') - 1)
        PROVE  wire'[i + 1].second <=> wire'[i].byte = EXT_CODE
    <3>1. CASE i < n
      <4>1. i \in 1 .. n /\ i + 1 \in 1 .. n /\ i \in 1 .. (n - 1)
        BY <1>3, <3>1
      <4>2. wire'[i] = wire[i] /\ wire'[i + 1] = wire[i + 1]
        BY <1>3, <4>1
      <4> QED BY <1>5, <4>1, <4>2, Zenon
    <3>2. CASE i = n
      <4>1. n # 0 /\ n \in 1 .. n /\ 1 \in 1 .. l
        BY <1>3, <3>2
      <4>2. ~(1 > 1)
        OBVIOUS
      <4>3. ~(wire'[n + 1].second)
        BY <1>1, <4>1, <4>2, Zenon DEF n, l
      <4>4. wire'[n] = wire[n] /\ wire[n].byte # EXT_CODE
        BY <1>3, <1>5, <4>1
      <4> QED BY <3>2, <4>3, <4>4, Zenon
    <3>3. CASE i > n
      <4> DEFINE j == i - n
      <4>1. j \in 1 .. l /\ j + 1 \in 1 .. l /\ n + j = i /\ n + (j + 1) = i + 1
            /\ j + 1 > 1 /\ (j + 1) - 1 = j
        BY <1>3, <3>3
      <4> HIDE DEF j
      <4>2. wire'[n + (j + 1)].second <=> (j + 1 > 1 /\ b[(j + 1) - 1] = EXT_CODE)
        BY <1>1, <4>1, Zenon DEF n, l
      <4>3. wire'[n + j].byte = b[j]
        BY <1>1, <4>1 DEF n, l
      <4> QED BY <4>1, <4>2, <4>3, Zenon
    <3> QED BY <1>3, <3>1, <3>2, <3>3
  <2> QED BY <2>1, <2>2, <2>3, <2>4, Zenon DEF Paired
<1>10. "shift" \in Modifiers
  BY DEF Modifiers
<1>11. Cased'
  <2> SUFFICES ASSUME NEW i \in 1 .. Len(wire'), CodeOf(wire'[i]) \in Characters,
                      wire'[i].shift # "unsure"
               PROVE  After(Status["shift"], wire', "shift", i - 1) <=> wire'[i].shift = "down"
    BY <1>6, Zenon DEF Cased
  <2>1. CASE i <= n
    <3>1. i \in 1 .. n /\ i - 1 \in 0 .. n
      BY <1>3, <2>1
    <3>2. wire'[i] = wire[i]
      BY <1>3, <3>1
    <3>3. After(Status["shift"], wire, "shift", i - 1) <=> wire[i].shift = "down"
      BY <3>1, <3>2 DEF IInv, Cased, n
    <3> QED BY <1>7, <1>10, <3>1, <3>2, <3>3, Zenon
  <2>2. CASE i > n
    <3> DEFINE j == i - n
    <3>1. j \in 1 .. l /\ n + j = i
      BY <1>3, <2>2
    <3> HIDE DEF j
    <3>2. PacketCode(b, j) \in Characters
      BY <1>3, <3>1
    <3>3. l = 1 /\ Agree("shift", ks, doubt, Finally("shift"))
      BY <3>1, <3>2 DEF Textless, l
    <3>4. i - 1 = n /\ n \in 0 .. n
      BY <1>3, <3>1, <3>3
    <3>5. wire'[i].shift = Meaning(ks, doubt)
      BY <1>1, <3>1 DEF n, l
    <3>6. "shift" \notin doubt /\ (wire'[i].shift = "down" <=> Down("shift", ks))
      BY <3>5 DEF Meaning
    <3>7. After(Status["shift"], wire', "shift", n) <=> Finally("shift")
      BY <1>7, <1>10, <3>4, Zenon DEF Finally, n
    <3> QED BY <3>3, <3>4, <3>6, <3>7, Zenon DEF Agree
  <2> QED BY <1>3, <2>1, <2>2
<1>12. EchoRight'
  BY <1>2, Zenon DEF IInv, EchoRight
<1> QED
  BY <1>4, <1>8, <1>9, <1>11, <1>12 DEF IInv
-----------------------------------------------------------------------------
(* The key events. *)

\* A modifier that k is no key of is as it was.
LEMMA Unrelated ==
  ASSUME IInv, NEW k, NEW m \in Modifiers, k \notin KeysOf[m], NEW ks,
         ks = held \cup {k} \/ ks = held \ {k}
  PROVE  Agree(m, ks, Overlaps(ks), Finally(m))
<1>1. Agree(m, held, unsure, Finally(m))
  BY DEF IInv, Agrees
<1>2. /\ KeysOf[m] \subseteq ks <=> KeysOf[m] \subseteq held
      /\ KeysOf[m] \cap ks = KeysOf[m] \cap held
  OBVIOUS
<1> QED
  BY <1>1, <1>2, Zenon DEF Agree, Overlaps, Down

LEMMA PressKeeps ==
  ASSUME IInv, NEW k \in Keys, Press(k)
  PROVE  IInv'
<1> DEFINE ks == held \cup {k}
           b == Typed(k, ks)
           caps == (k = "caps_lock") # caps_on
<1>1. /\ Send(b, ks, Overlaps(ks), caps)
      /\ caps \in BOOLEAN /\ ks \subseteq Keys /\ Overlaps(ks) \subseteq Modifiers
  BY DEF Press, IInv, Types, Overlaps
<1>2. k \in KeyNames
  BY KeysAssumption
<1>3. \A m \in Modifiers : /\ KeysOf[m] \subseteq ks => m \in Overlaps(ks)
                           /\ k \in KeysOf[m] => Down(m, ks)
                           /\ k \notin KeysOf[m] => Agree(m, ks, Overlaps(ks), Finally(m))
  BY Unrelated DEF Overlaps, Down
<1>4. "shift" \in Modifiers /\ "ctrl" \in Modifiers /\ "alt" \in Modifiers
      /\ \A m \in Modifiers : m = "shift" \/ m = "ctrl" \/ m = "alt"
  BY DEF Modifiers
<1>5. \A m \in Modifiers : "pause" \notin KeysOf[m] /\ "a" \notin KeysOf[m] /\ "1" \notin KeysOf[m]
  BY Codes
<1> DEFINE Right(m) == \/ Raises(b, m) /\ Down(m, ks)
                       \/ Lowers(b, m) /\ (m \in Overlaps(ks) \/ ~Down(m, ks))
                       \/ Silent(b, m) /\ Agree(m, ks, Overlaps(ks), Finally(m))
<1>6. /\ Packet(b)
      /\ Textless(b) \/ (Len(b) = 1 /\ Agree("shift", ks, Overlaps(ks), Finally("shift")))
      /\ \A m \in Modifiers : Right(m)
  <2>1. CASE k = "pause" /\ {"ctrl_l", "ctrl_r"} \cap ks # {}
    <3>1. b = CtrlBreak
      BY <2>1 DEF Typed, CtrlBreak
    <3> QED BY <1>3, <1>5, <2>1, <3>1, CtrlBreakPacket, Zenon
  <2>2. CASE k = "pause" /\ {"ctrl_l", "ctrl_r"} \cap ks = {}
    <3>1. b = Make[k]
      BY <2>2 DEF Typed
    <3>2. ~Down("ctrl", ks)
      BY <2>2, Codes DEF Down
    <3>3. k \notin {"a", "1"}
      BY <2>2
    <3>4. /\ Packet(b) /\ Textless(b) /\ Lowers(b, "ctrl")
          /\ Silent(b, "shift") /\ Silent(b, "alt")
      BY <1>2, <2>2, <3>1, <3>3, MakePackets, Zenon
    <3> HIDE DEF b, ks
    <3> QED BY <1>3, <1>4, <1>5, <2>2, <3>2, <3>4, Zenon
  <2>3. CASE k # "pause"
    <3>1. b = Make[k]
      BY <2>3 DEF Typed
    <3>2. /\ Packet(b) /\ (k \in {"a", "1"} \/ Textless(b))
          /\ k \in {"a", "1"} => Len(b) = 1
          /\ \A m \in Modifiers : /\ k \in KeysOf[m] => Raises(b, m)
                                  /\ k \notin KeysOf[m] => Silent(b, m)
      BY <1>2, <2>3, <3>1, MakePackets, Zenon
    <3>3. k \in {"a", "1"} => k \notin KeysOf["shift"]
      BY <1>4, <1>5
    <3> HIDE DEF b, ks
    <3>4. \A m \in Modifiers : Right(m)
      BY <1>3, <3>2, Zenon
    <3>5. "shift" \in Modifiers
      BY <1>4
    <3>6. Textless(b) \/ (Len(b) = 1 /\ Agree("shift", ks, Overlaps(ks), Finally("shift")))
      BY <1>3, <3>2, <3>3, <3>5, Zenon
    <3> QED BY <3>2, <3>4, <3>6
  <2> QED BY <2>1, <2>2, <2>3
<1> HIDE DEF b, ks, caps
<1> QED
  BY <1>1, <1>3, <1>6, SendKeeps

LEMMA RepeatKeeps ==
  ASSUME IInv, NEW k \in Keys, Repeat(k)
  PROVE  IInv'
<1> DEFINE b == Make[k]
<1>1. /\ k \in held /\ k # "pause" /\ Send(b, held, unsure, caps_on)
      /\ caps_on \in BOOLEAN /\ held \subseteq Keys /\ unsure \subseteq Modifiers
  BY DEF Repeat, IInv, Types
<1>2. k \in KeyNames
  BY KeysAssumption
<1>3. \A m \in Modifiers : /\ Agree(m, held, unsure, Finally(m))
                           /\ KeysOf[m] \subseteq held => m \in unsure
                           /\ k \in KeysOf[m] => Down(m, held)
  BY <1>1 DEF IInv, Agrees, Agree, Down
<1>4. /\ Packet(b) /\ (k \in {"a", "1"} \/ Textless(b))
      /\ k \in {"a", "1"} => Len(b) = 1
      /\ \A m \in Modifiers : /\ k \in KeysOf[m] => Raises(b, m)
                              /\ k \notin KeysOf[m] => Silent(b, m)
  BY <1>1, <1>2, MakePackets, Zenon
<1>5. "shift" \in Modifiers
  BY DEF Modifiers
<1> HIDE DEF b
<1>6. \A m \in Modifiers :
        \/ Raises(b, m) /\ Down(m, held)
        \/ Lowers(b, m) /\ (m \in unsure \/ ~Down(m, held))
        \/ Silent(b, m) /\ Agree(m, held, unsure, Finally(m))
  BY <1>3, <1>4, Zenon
<1>7. Textless(b) \/ (Len(b) = 1 /\ Agree("shift", held, unsure, Finally("shift")))
  BY <1>3, <1>4, <1>5, Zenon
<1>8. \A m \in Modifiers :
        /\ KeysOf[m] \subseteq held => m \in unsure
        /\ \/ Raises(b, m) /\ Down(m, held)
           \/ Lowers(b, m) /\ (m \in unsure \/ ~Down(m, held))
           \/ Silent(b, m) /\ Agree(m, held, unsure, Finally(m))
  BY <1>3, <1>6
<1>9. Packet(b)
  BY <1>4
<1> QED
  BY <1>1, <1>7, <1>8, <1>9, SendKeeps

\* One of two keys goes up: the flag falls, and the modifier was unsure if the
\* other is still down.
LEMMA ReleaseKeeps ==
  ASSUME IInv, NEW k \in Keys, Release(k)
  PROVE  IInv'
<1> DEFINE ks == held \ {k}
           b == Break[k]
<1>1. /\ k \in held /\ Send(b, ks, Overlaps(ks), caps_on)
      /\ caps_on \in BOOLEAN /\ ks \subseteq Keys /\ Overlaps(ks) \subseteq Modifiers
  BY DEF Release, IInv, Types, Overlaps
<1>2. k \in KeyNames
  BY KeysAssumption
<1>3. /\ Packet(b) /\ Textless(b)
      /\ \A m \in Modifiers : /\ k \in KeysOf[m] => Lowers(b, m)
                              /\ k \notin KeysOf[m] => Silent(b, m)
  BY <1>2, BreakPackets, Zenon
<1>4. \A m \in Modifiers : KeysOf[m] \subseteq ks => m \in Overlaps(ks)
  BY DEF Overlaps
<1>5. ASSUME NEW m \in Modifiers, k \in KeysOf[m], Down(m, ks)
      PROVE  m \in Overlaps(ks)
  <2>1. KeysOf[m] \subseteq held
    <3>1. /\ "shift_l" # "shift_r" /\ KeysOf[m] = {"shift_l", "shift_r"}
          \/ KeysOf[m] = {"ctrl_l", "ctrl_r"}
          \/ KeysOf[m] = {"alt_l", "alt_r"}
      BY Codes
    <3> QED BY <1>1, <1>5, <3>1 DEF Down
  <2>2. m \in unsure
    BY <2>1 DEF IInv, Agrees, Agree
  <2> QED BY <1>5, <2>2 DEF Overlaps
<1>6. \A m \in Modifiers : k \notin KeysOf[m] => Agree(m, ks, Overlaps(ks), Finally(m))
  BY Unrelated
<1> HIDE DEF b, ks
<1>7. \A m \in Modifiers :
        \/ Raises(b, m) /\ Down(m, ks)
        \/ Lowers(b, m) /\ (m \in Overlaps(ks) \/ ~Down(m, ks))
        \/ Silent(b, m) /\ Agree(m, ks, Overlaps(ks), Finally(m))
  BY <1>3, <1>5, <1>6, Zenon
<1> QED
  BY <1>1, <1>3, <1>4, <1>7, SendKeeps
-----------------------------------------------------------------------------
(* The theorems. *)

LEMMA InitIInv == Init => IInv
<1> SUFFICES ASSUME Init
             PROVE  IInv
  OBVIOUS
<1>1. /\ wire = <<>> /\ wire \in Seq(Entries) /\ Len(wire) = 0
      /\ 1 .. 0 = {} /\ (0 + 1) .. 0 = {} /\ 1 .. (0 - 1) = {}
  BY DEF Init
<1>2. Types
  <2>1. Nothing \in Echoes
    BY DEF Nothing, Echoes, Shifts, Keymap, CAPS_LOCK_MAKE
  <2> QED BY <1>1, <2>1 DEF Init, Types
<1>3. Paired
  BY <1>1 DEF Init, Paired
<1>4. Agrees
  <2> SUFFICES ASSUME NEW m \in Modifiers
               PROVE  Agree(m, held, unsure, Finally(m))
    BY DEF Agrees
  <2>1. ~Status[m]
    BY DEF Init, Status, Modifiers
  <2>2. ~Finally(m)
    BY <1>1, <2>1 DEF Finally, After
  <2>3. \E k \in KeysOf[m] : TRUE
    BY Codes
  <2>4. m \in unsure <=> Down(m, held)
    BY DEF Init
  <2> QED BY <2>2, <2>3, <2>4 DEF Agree, Down
<1>5. Cased
  BY <1>1 DEF Cased
<1>6. EchoRight
  BY DEF Init, EchoRight, Nothing
<1> QED
  BY <1>2, <1>3, <1>4, <1>5, <1>6 DEF IInv

LEMMA StepIInv == IInv /\ [Next]_vars => IInv'
<1> SUFFICES ASSUME IInv, [Next]_vars
             PROVE  IInv'
  OBVIOUS
<1>1. ASSUME NEW k \in Keys, Press(k)
      PROVE  IInv'
  BY <1>1, PressKeeps
<1>2. ASSUME NEW k \in Keys, Repeat(k)
      PROVE  IInv'
  BY <1>2, RepeatKeeps
<1>3. ASSUME NEW k \in Keys, Release(k)
      PROVE  IInv'
  BY <1>3, ReleaseKeeps
<1>4. CASE keyboard_intr_handler
  BY <1>4, ReadKeeps
<1>5. CASE UNCHANGED vars
  <2>1. /\ ctrl_status' = ctrl_status /\ alt_status' = alt_status
        /\ shift_status' = shift_status /\ caps_status' = caps_status
        /\ ext_status' = ext_status /\ echo' = echo /\ held' = held
        /\ caps_on' = caps_on /\ unsure' = unsure /\ wire' = wire
    BY <1>5 DEF vars, flags, keys
  <2>2. Status' = Status
    BY <2>1 DEF Status
  <2>3. Agrees' <=> Agrees
    BY <2>1, <2>2 DEF Agrees, Agree, Finally
  <2>4. Cased' <=> Cased
    BY <2>1, <2>2 DEF Cased
  <2> QED BY <2>1, <2>3, <2>4 DEF IInv, Types, Paired, EchoRight
<1> QED
  BY <1>1, <1>2, <1>3, <1>4, <1>5 DEF Next

LEMMA Inductive == Spec => []IInv
<1> QED
  BY InitIInv, StepIInv, PTL DEF Spec

\* keymap is only looked up inside its bounds, and the flags are flags.
THEOREM LookupsInKeymap == Spec => []TypeOK
<1>1. IInv => TypeOK
  BY DEF IInv, Types, TypeOK, Echoes
<1> QED
  BY <1>1, Inductive, PTL

\* ext_status never takes the second byte of a pair for a code of its own, nor
\* a plain code for the second byte.
THEOREM PairsKept == Spec => []Aligned
<1>1. IInv => Aligned
  <2> SUFFICES ASSUME IInv
               PROVE  Aligned
    OBVIOUS
  <2>1. wire # <<>> => Head(wire) = wire[1]
    BY DEF IInv, Types
  <2> QED BY <2>1, Zenon DEF IInv, Paired, Aligned
<1> QED
  BY <1>1, Inductive, PTL

\* When the last byte is read the flags agree with the keys, whatever was
\* pressed, repeated and released before.
THEOREM FlagsFollowKeys == Spec => []ModifiersAgree
<1>1. IInv => ModifiersAgree
  <2> SUFFICES ASSUME IInv, wire = <<>>, NEW m \in Modifiers
               PROVE  /\ Status[m] => Down(m, held)
                      /\ m \notin unsure => (Status[m] <=> Down(m, held))
    BY DEF ModifiersAgree
  <2>1. Len(wire) = 0 /\ 1 .. 0 = {} /\ (0 + 1) .. 0 = {}
    OBVIOUS
  <2>2. Finally(m) <=> Status[m]
    BY <2>1, Zenon DEF Finally, After, Kept
  <2> QED BY <2>2, Zenon DEF IInv, Agrees, Agree
<1> QED
  BY <1>1, Inductive, PTL

\* A character is printed in the case its key was typed with, however many
\* bytes were in front of it.
THEOREM CaseAsTyped == Spec => []ShiftHonoured
<1>1. IInv => ShiftHonoured
  BY Zenon DEF IInv, EchoRight, ShiftHonoured
<1> QED
  BY <1>1, Inductive, PTL
=============================================================================
