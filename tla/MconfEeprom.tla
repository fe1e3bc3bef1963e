---------------------------- MODULE MconfEeprom -----------------------------
(***************************************************************************)
(* The Zephyr EEPROM backend (zephyr/src/mconf_zephyr_eeprom.c): the       *)
(* region mconf_zephyr_eeprom_init accepts, and its read, write and erase  *)
(* callbacks with the offsets mconf_load and mconf_save pass.  The erase   *)
(* is a loop of device writes, one step each, which may fail or be cut     *)
(* short by power loss.  A byte of the device is "data" or "erased";       *)
(* size_t arithmetic wraps at SizeMod.                                     *)
(***************************************************************************)
EXTENDS Integers

CONSTANTS
  SizeMod,   \* number of size_t values
  DevSize,   \* eeprom_get_size
  Chunk,     \* MCONF_EEPROM_ERASE_CHUNK_SIZE, also the size of a record header
  Requests   \* <<base_offset, total_size>> arguments of init

ASSUME EepromAssumption ==
  /\ SizeMod \in Nat /\ DevSize \in 1 .. SizeMod - 1 /\ Chunk \in 1 .. SizeMod - 1
  /\ Requests \subseteq (0 .. SizeMod - 1) \X (0 .. SizeMod - 1)

Addr == 0 .. DevSize - 1
Slots == {0, 1}

VARIABLES
  ctx,     \* mconf_zephyr_eeprom_ctx and what init stores in mconf_io_t
  medium,  \* the bytes of the device
  call,    \* the current or last callback: its name and its slot
  erase,   \* current_offset and remaining of a running erase
  result   \* what the last call returned; "busy" while an erase runs

vars == <<ctx, medium, call, erase, result>>

NoErase == [at |-> 0, remaining |-> 0]
Unbound == [bound |-> FALSE, base_offset |-> 0, total_size |-> 0, slot_size |-> 0]

Init ==
  /\ ctx = Unbound
  /\ medium = [i \in Addr |-> "data"]
  /\ call = [op |-> "none", slot |-> 0]
  /\ erase = NoErase
  /\ result = "OK"

Add(x, y) == (x + y) % SizeMod

-----------------------------------------------------------------------------
(* The device: eeprom_write puts value into n bytes from target on, and    *)
(* refuses a range that leaves it.  When it fails, or power is lost, some  *)
(* first bytes have been written.                                          *)
InDevice(target, n) == target + n <= DevSize

Written(target, n, value) ==
  [i \in Addr |-> IF i \in target .. target + n - 1 THEN value ELSE medium[i]]

WritePrefix(target, n, value) ==
  \E k \in 0 .. n : medium' = Written(target, IF InDevice(target, n) THEN k ELSE 0, value)

-----------------------------------------------------------------------------
RegionAccepted(base_offset, total_size) ==
  /\ base_offset < DevSize
  /\ Add(base_offset, total_size) <= DevSize
  /\ total_size >= 2 * Chunk
  /\ total_size % 2 = 0

mconf_zephyr_eeprom_init(base_offset, total_size) ==
  LET total == IF total_size = 0 /\ base_offset < DevSize
               THEN DevSize - base_offset ELSE total_size
  IN  /\ result # "busy"
      /\ call' = [op |-> "init", slot |-> 0]
      /\ \/ /\ RegionAccepted(base_offset, total)
            /\ ctx' = [bound |-> TRUE, base_offset |-> base_offset,
                       total_size |-> total, slot_size |-> total \div 2]
            /\ result' = "OK"
         \/ /\ ~RegionAccepted(base_offset, total)
            /\ result' = "EINVAL"
            /\ UNCHANGED ctx
         \/ result' = "ENODEV" /\ UNCHANGED ctx       \* the device is not ready
      /\ UNCHANGED <<medium, erase>>

(* mconf_load and mconf_save address a slot by slot * slot_size and stay   *)
(* within slot_size.                                                       *)
Offset(s, at) == s * ctx.slot_size + at
InRange(offset, size) == Add(offset, size) <= ctx.total_size
Target(offset) == Add(ctx.base_offset, offset)

mconf_zephyr_eeprom_read(s, at, size) ==
  /\ ctx.bound /\ result # "busy" /\ at + size <= ctx.slot_size
  /\ call' = [op |-> "read", slot |-> s]
  /\ \/ /\ InRange(Offset(s, at), size) /\ InDevice(Target(Offset(s, at)), size)
        /\ result' = "OK"
     \/ result' = "IO"                \* out of range, or the device failed
  /\ UNCHANGED <<ctx, medium, erase>>

mconf_zephyr_eeprom_write(s, at, size) ==
  /\ ctx.bound /\ result # "busy" /\ at + size <= ctx.slot_size
  /\ call' = [op |-> "write", slot |-> s]
  /\ LET target == Target(Offset(s, at)) IN
     \/ /\ ~InRange(Offset(s, at), size)
        /\ result' = "IO" /\ UNCHANGED medium
     \/ /\ InRange(Offset(s, at), size) /\ InDevice(target, size)
        /\ medium' = Written(target, size, "data")
        /\ result' = "OK"
     \/ /\ InRange(Offset(s, at), size)
        /\ WritePrefix(target, size, "data")
        /\ result' = "IO"
  /\ UNCHANGED <<ctx, erase>>

mconf_zephyr_eeprom_erase(s) ==
  /\ ctx.bound /\ result # "busy"
  /\ call' = [op |-> "erase", slot |-> s]
  /\ IF InRange(Offset(s, 0), ctx.slot_size)
     THEN /\ erase' = [at |-> Offset(s, 0), remaining |-> ctx.slot_size]
          /\ result' = "busy"
     ELSE result' = "IO" /\ UNCHANGED erase
  /\ UNCHANGED <<ctx, medium>>

(* Mutant: the last chunk is written in full.                              *)
ChunkSize_Full(remaining) == Chunk

ChunkSize(remaining) == IF remaining > Chunk THEN Chunk ELSE remaining

(* Mutant: the slot is erased from its end.                                *)
ChunkTarget_Backward(e) == Target(e.at + e.remaining - ChunkSize(e.remaining))

ChunkTarget(e) == Target(e.at)

(* Mutant: what is left behind the last whole chunk is forgotten.          *)
AfterChunk_Whole(e) ==
  LET left == e.remaining - ChunkSize(e.remaining)
  IN  [at |-> e.at + ChunkSize(e.remaining),
       remaining |-> IF left < Chunk THEN 0 ELSE left]

AfterChunk(e) == [at |-> e.at + ChunkSize(e.remaining),
                  remaining |-> e.remaining - ChunkSize(e.remaining)]

(* One iteration of the loop of mconf_zephyr_eeprom_erase.                 *)
EraseChunk ==
  /\ result = "busy" /\ erase.remaining > 0
  /\ LET n == ChunkSize(erase.remaining)
         target == ChunkTarget(erase)
     IN  \/ /\ InDevice(target, n)
            /\ medium' = Written(target, n, "erased")
            /\ erase' = AfterChunk(erase)
            /\ UNCHANGED result
         \/ /\ WritePrefix(target, n, "erased")
            /\ erase' = NoErase
            /\ result' = "IO"
  /\ UNCHANGED <<ctx, call>>

EraseEnd ==
  /\ result = "busy" /\ erase.remaining = 0
  /\ erase' = NoErase
  /\ result' = "OK"
  /\ UNCHANGED <<ctx, medium, call>>

(* Power loss, in the middle of a device write too.                        *)
PowerLoss ==
  /\ IF result = "busy" /\ erase.remaining > 0
     THEN WritePrefix(ChunkTarget(erase), ChunkSize(erase.remaining), "erased")
     ELSE UNCHANGED medium
  /\ ctx' = Unbound
  /\ erase' = NoErase
  /\ result' = "off"
  /\ UNCHANGED call

Next ==
  \/ \E r \in Requests : mconf_zephyr_eeprom_init(r[1], r[2])
  \/ \E s \in Slots, at \in 0 .. SizeMod - 1, size \in 1 .. Chunk :
       \/ mconf_zephyr_eeprom_read(s, at, size)
       \/ mconf_zephyr_eeprom_write(s, at, size)
  \/ \E s \in Slots : mconf_zephyr_eeprom_erase(s)
  \/ EraseChunk
  \/ EraseEnd
  \/ PowerLoss

Spec == Init /\ [][Next]_vars

-----------------------------------------------------------------------------
(* Properties                                                              *)

(* The bytes of slot s, counted without wrapping.                          *)
SlotBytes(s) ==
  LET first == ctx.base_offset + s * (ctx.total_size \div 2)
  IN  first .. first + ctx.total_size \div 2 - 1

HeaderBytes(s) ==
  LET first == ctx.base_offset + s * (ctx.total_size \div 2)
  IN  first .. first + Chunk - 1

(* A callback for one slot changes no byte of the other slot and none      *)
(* outside the region, whether it succeeds, fails half way or loses power: *)
(* what mconf_save relies on when it works on the slot it does not need.   *)
OnlyOwnSlot ==
  [][\A i \in Addr : medium'[i] # medium[i] => i \in SlotBytes(call'.slot)]_vars

(* An erase, however it ends, touches the payload of a slot only once its  *)
(* header is gone, so an interrupted erase never leaves a header that      *)
(* describes a payload which is no longer there.                           *)
HeaderGoesFirst ==
  [][\A s \in Slots : \A i \in Addr \cap (SlotBytes(s) \ HeaderBytes(s)) :
       medium[i] = "data" /\ medium'[i] = "erased"
         => \A j \in HeaderBytes(s) : medium[j] = "erased"]_vars

(* An erase that returned 0 has erased the whole slot, the rest behind the *)
(* last full chunk included.                                               *)
EraseIsComplete ==
  call.op = "erase" /\ result = "OK" =>
    \A i \in SlotBytes(call.slot) : medium[i] = "erased"
=============================================================================
