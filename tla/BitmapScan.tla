----------------------------- MODULE BitmapScan -----------------------------
(***************************************************************************)
(* The loop of bitmap_scan (kernel/lib/bitmap.c), one action per way a     *)
(* turn of it can go.  The map is a set of used bit indices; the code      *)
(* walks it byte by byte, skipping bytes that are full, and counts the     *)
(* zero bits seen in a row across byte boundaries.                         *)
(***************************************************************************)
EXTENDS Bitmap

CONSTANTS
  ByteBits,   \* bits in a byte (8 in the code)
  BytesLen,   \* bmp_bytes_len
  MaxCnt      \* bound on the requested run length

ASSUME ByteBitsAssumption == ByteBits \in Nat \ {0}
ASSUME BytesLenAssumption == BytesLen \in Nat
ASSUME MaxCntAssumption == MaxCnt \in Nat

VARIABLES
  used,        \* the bitmap; const in the call
  cnt,         \* the argument
  byte_i, bit, zero_count, start_bit,   \* the locals of the loop
  result,      \* the return value, meaningful once pc = "done"
  pc

scan_vars == <<used, cnt, byte_i, bit, zero_count, start_bit, result, pc>>

Bits == BytesLen * ByteBits
bit_index == byte_i * ByteBits + bit

ScanInit ==
  /\ used \in SUBSET (0 .. (Bits - 1))
  /\ cnt \in 0 .. MaxCnt
  /\ byte_i = 0 /\ bit = 0 /\ zero_count = 0 /\ start_bit = 0
  /\ result = NotFound
  /\ pc = IF cnt = 0 THEN "done" ELSE "scan"

-----------------------------------------------------------------------------
(* Slips of the code that the checks must notice: each is the action below *)
(* it with one thing changed, and is no part of ScanNext.                      *)

\* The zero count survives a byte that is skipped whole.
SkipByteKeepsCount ==
  /\ pc = "scan" /\ byte_i < BytesLen
  /\ bit = 0 /\ (byte_i * ByteBits) .. (byte_i * ByteBits + ByteBits - 1) \subseteq used
  /\ byte_i' = byte_i + 1
  /\ UNCHANGED <<used, cnt, bit, zero_count, start_bit, result, pc>>

\* `continue` without the increment.
SkipByteStays ==
  /\ pc = "scan" /\ byte_i < BytesLen
  /\ bit = 0 /\ (byte_i * ByteBits) .. (byte_i * ByteBits + ByteBits - 1) \subseteq used
  /\ zero_count' = 0
  /\ UNCHANGED <<used, cnt, byte_i, bit, start_bit, result, pc>>
-----------------------------------------------------------------------------
\* byte == 0xFF, tested once per byte, before its first bit.
FullByte ==
  bit = 0 /\ (byte_i * ByteBits) .. (byte_i * ByteBits + ByteBits - 1) \subseteq used

SkipByte ==
  /\ pc = "scan" /\ byte_i < BytesLen /\ FullByte
  /\ byte_i' = byte_i + 1
  /\ zero_count' = 0
  /\ UNCHANGED <<used, cnt, bit, start_bit, result, pc>>

\* The increments of the two for loops.
NextBit ==
  IF bit + 1 = ByteBits
  THEN byte_i' = byte_i + 1 /\ bit' = 0
  ELSE byte_i' = byte_i /\ bit' = bit + 1

UsedBit ==
  /\ pc = "scan" /\ byte_i < BytesLen /\ ~FullByte
  /\ bit_index \in used
  /\ zero_count' = 0
  /\ NextBit
  /\ UNCHANGED <<used, cnt, start_bit, result, pc>>

FreeBit ==
  /\ pc = "scan" /\ byte_i < BytesLen /\ ~FullByte
  /\ bit_index \notin used
  /\ start_bit' = IF zero_count = 0 THEN bit_index ELSE start_bit
  /\ zero_count' = zero_count + 1
  /\ IF zero_count' = cnt
     THEN result' = start_bit' /\ pc' = "done" /\ UNCHANGED <<byte_i, bit>>
     ELSE NextBit /\ UNCHANGED <<result, pc>>
  /\ UNCHANGED <<used, cnt>>

GiveUp ==
  /\ pc = "scan" /\ byte_i = BytesLen
  /\ result' = NotFound
  /\ pc' = "done"
  /\ UNCHANGED <<used, cnt, byte_i, bit, zero_count, start_bit>>

Returned == pc = "done" /\ UNCHANGED scan_vars

ScanNext == SkipByte \/ UsedBit \/ FreeBit \/ GiveUp \/ Returned

ScanSpec == ScanInit /\ [][ScanNext]_scan_vars
FairSpec == ScanSpec /\ WF_scan_vars(SkipByte \/ UsedBit \/ FreeBit \/ GiveUp)
-----------------------------------------------------------------------------
TypeOK ==
  /\ used \in SUBSET (0 .. (Bits - 1))
  /\ cnt \in Nat
  /\ byte_i \in 0 .. BytesLen
  /\ bit \in 0 .. (ByteBits - 1)
  /\ zero_count \in Nat
  /\ start_bit \in Nat
  /\ result \in Int
  /\ pc \in {"scan", "done"}

\* bitmap_scan returns the start of the lowest free run of cnt bits, also when
\* that run crosses bytes or follows a byte that was skipped whole, and -1
\* exactly when there is no such run.
FindsFirstRun == pc = "done" => result = Scan(used, Bits, cnt)

\* The run being counted ends just before the bit about to be read, is free,
\* and no run of cnt bits starts before it: the invariant of the loop.
LoopInv ==
  pc = "scan" =>
    /\ zero_count < cnt
    /\ zero_count <= bit_index
    /\ byte_i = BytesLen => bit = 0
    /\ zero_count > 0 => start_bit = bit_index - zero_count
    /\ \A i \in (bit_index - zero_count) .. (bit_index - 1) : i \notin used
    /\ \A s \in 0 .. (bit_index - zero_count - 1) : ~RunFree(used, Bits, s, cnt)

\* The loop ends: every call of bitmap_scan returns.
Terminates == <>(pc = "done")
=============================================================================
