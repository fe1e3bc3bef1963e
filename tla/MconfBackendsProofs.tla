------------------------ MODULE MconfBackendsProofs -------------------------
(***************************************************************************)
(* The Zephyr backends keep to their slots, for every device, every chunk  *)
(* size and every set of flash areas.  For EEPROM the requests to init     *)
(* must have an end that is a size_t: the sum that the code compares with  *)
(* the size of the device wraps.                                           *)
(***************************************************************************)
EXTENDS MconfBackends, TLAPS

EndsFit == \A r \in Requests : r[1] + r[2] < SizeMod

(* Where slot s begins: base_offset, or slot_size behind it.               *)
First(s) == ctx.base_offset + (IF s = 0 THEN 0 ELSE ctx.slot_size)

(* The region that init stored lies on the device in two equal halves that *)
(* hold a header each.                                                     *)
RegionOnDevice ==
  /\ ctx \in [bound : BOOLEAN, base_offset : Nat, total_size : Nat, slot_size : Nat]
  /\ ctx.base_offset + ctx.total_size <= DevSize
  /\ ctx.total_size = 2 * ctx.slot_size
  /\ ctx.bound => ctx.slot_size >= Chunk

(* A running erase is inside its slot, has passed none of the header or    *)
(* all of it, and has erased what lies behind it.                          *)
EraseUnderWay ==
  result = "busy" =>
    /\ ctx.bound /\ call.op = "erase"
    /\ ctx.base_offset + erase.at >= First(call.slot)
    /\ ctx.base_offset + erase.at + erase.remaining = First(call.slot) + ctx.slot_size
    /\ \/ ctx.base_offset + erase.at = First(call.slot)
       \/ ctx.base_offset + erase.at >= First(call.slot) + Chunk
    /\ \A i \in First(call.slot) .. ctx.base_offset + erase.at - 1 : medium[i] = "erased"

EepromInv ==
  /\ medium \in [Addr -> {"data", "erased"}]
  /\ call.slot \in Slots
  /\ erase \in [at : Nat, remaining : Nat]
  /\ RegionOnDevice
  /\ EraseUnderWay
  /\ EraseIsComplete

-----------------------------------------------------------------------------
(* Arithmetic.                                                             *)

(* A sum below SizeMod does not wrap.                                      *)
LEMMA AddSmall ==
  ASSUME NEW x \in Nat, NEW y \in Nat, x + y < SizeMod
  PROVE  Add(x, y) = x + y
BY EepromAssumption DEF Add

(* Where the slots of the region lie.                                      *)
LEMMA SlotLayout ==
  ASSUME RegionOnDevice, NEW s \in Slots
  PROVE  /\ SlotBytes(s) = First(s) .. First(s) + ctx.slot_size - 1
         /\ HeaderBytes(s) = First(s) .. First(s) + Chunk - 1
         /\ First(s) \in Nat
         /\ First(s) + ctx.slot_size <= ctx.base_offset + ctx.total_size
<1> DEFINE k == ctx.slot_size
           b == ctx.base_offset
           n == ctx.total_size
<1>1. /\ b \in Nat /\ k \in Nat /\ n \in Nat /\ n = 2 * k
      /\ s = 0 \/ s = 1
  BY DEF RegionOnDevice, Slots
<1> HIDE DEF k, b, n
<1>2. n \div 2 = k
  BY <1>1
<1>3. s * k = IF s = 0 THEN 0 ELSE k
  BY <1>1
<1>4. b + s * (n \div 2) = b + IF s = 0 THEN 0 ELSE k
  BY <1>2, <1>3
<1>5. First(s) = b + IF s = 0 THEN 0 ELSE k
  BY DEF First, b, k
<1>6. First(s) \in Nat /\ First(s) + k <= b + n
  BY <1>1, <1>5
<1>7. b + s * (n \div 2) = First(s)
  BY <1>4, <1>5
<1>8. SlotBytes(s) = First(s) .. First(s) + k - 1
  BY <1>2, <1>7 DEF SlotBytes, b, n
<1>9. HeaderBytes(s) = First(s) .. First(s) + Chunk - 1
  BY <1>7 DEF HeaderBytes, b, n
<1> QED BY <1>6, <1>8, <1>9 DEF k, b, n

(* The device address of an access inside a slot.                          *)
LEMMA AccessTarget ==
  ASSUME RegionOnDevice, NEW s \in Slots, NEW at \in Nat, at <= ctx.slot_size
  PROVE  /\ Offset(s, at) \in Nat
         /\ ctx.base_offset + Offset(s, at) = First(s) + at
         /\ Target(Offset(s, at)) = First(s) + at
<1> DEFINE k == ctx.slot_size
           b == ctx.base_offset
<1>1. /\ b \in Nat /\ k \in Nat /\ (s = 0 \/ s = 1)
      /\ b + 2 * k <= DevSize
  BY DEF RegionOnDevice, Slots
<1>2. Offset(s, at) = s * k + at
  BY DEF Offset
<1>3. First(s) = b + IF s = 0 THEN 0 ELSE k
  BY DEF First
<1> HIDE DEF k, b
<1>4. s * k = IF s = 0 THEN 0 ELSE k
  BY <1>1
<1>5. at <= k
  BY DEF k
<1>6. Offset(s, at) \in Nat /\ b + Offset(s, at) = First(s) + at
      /\ b + Offset(s, at) < SizeMod
  BY <1>1, <1>2, <1>3, <1>4, <1>5, EepromAssumption
<1>7. Add(b, Offset(s, at)) = First(s) + at
  BY <1>1, <1>6, AddSmall
<1> QED BY <1>6, <1>7 DEF Target, b

(* What a device write does to the medium.                                 *)
LEMMA WrittenBytes ==
  ASSUME EepromInv, NEW target \in Nat, NEW n \in Nat, NEW v \in {"data", "erased"}
  PROVE  /\ Written(target, n, v) \in [Addr -> {"data", "erased"}]
         /\ \A i \in Addr : Written(target, n, v)[i]
              = IF target <= i /\ i < target + n THEN v ELSE medium[i]
<1>1. \A i \in Addr : i \in target .. target + n - 1 <=> target <= i /\ i < target + n
  BY EepromAssumption DEF Addr
<1> QED BY <1>1 DEF EepromInv, Written

(* The chunk an erase writes next lies inside the slot of the erase.       *)
LEMMA ChunkInSlot ==
  ASSUME EepromInv, result = "busy", erase.remaining > 0
  PROVE  /\ ChunkTarget(erase) = ctx.base_offset + erase.at
         /\ ChunkTarget(erase) \in Nat
         /\ ChunkSize(erase.remaining) \in 1 .. erase.remaining
         /\ ChunkSize(erase.remaining) = Chunk \/ ChunkSize(erase.remaining) = erase.remaining
         /\ ChunkSize(erase.remaining) <= Chunk
         /\ First(call.slot) <= ChunkTarget(erase)
         /\ ChunkTarget(erase) + erase.remaining = First(call.slot) + ctx.slot_size
         /\ ChunkTarget(erase) + erase.remaining <= DevSize
<1> DEFINE b == ctx.base_offset
           at == erase.at
           left == erase.remaining
           f == First(call.slot)
<1>1. /\ b \in Nat /\ at \in Nat /\ left \in Nat /\ left > 0
      /\ b + ctx.total_size <= DevSize /\ ctx.total_size \in Nat
  BY DEF EepromInv, RegionOnDevice
<1>2. b + at >= f /\ b + at + left = f + ctx.slot_size
  BY DEF EepromInv, EraseUnderWay
<1>3. f \in Nat /\ f + ctx.slot_size <= b + ctx.total_size
  BY SlotLayout DEF EepromInv
<1> HIDE DEF b, at, left, f
<1>4. b + at + left <= DevSize /\ b + at < SizeMod
  BY <1>1, <1>2, <1>3, EepromAssumption
<1>5. Add(b, at) = b + at
  BY <1>1, <1>4, AddSmall
<1>6. ChunkTarget(erase) = b + at
  BY <1>5 DEF ChunkTarget, Target, b, at
<1>7. /\ ChunkSize(left) \in 1 .. left /\ ChunkSize(left) <= Chunk
      /\ ChunkSize(left) = Chunk \/ ChunkSize(left) = left
  BY <1>1, EepromAssumption DEF ChunkSize
<1> QED BY <1>1, <1>2, <1>4, <1>6, <1>7 DEF b, at, left, f

(* A chunk that is cut short changes bytes of its own only.                *)
LEMMA PrefixBytes ==
  ASSUME EepromInv, NEW target \in Nat, NEW n \in Nat, NEW v \in {"data", "erased"},
         WritePrefix(target, n, v)
  PROVE  /\ medium' \in [Addr -> {"data", "erased"}]
         /\ \A i \in Addr : medium'[i] # medium[i] =>
              medium'[i] = v /\ target <= i /\ i < target + n
<1>1. PICK k \in 0 .. n : medium' = Written(target, IF InDevice(target, n) THEN k ELSE 0, v)
  BY DEF WritePrefix
<1>2. PICK m \in Nat : m <= n /\ medium' = Written(target, m, v)
  BY <1>1
<1>3. medium' \in [Addr -> {"data", "erased"}]
  BY <1>2, WrittenBytes
<1>4. \A i \in Addr : medium'[i] = IF target <= i /\ i < target + m THEN v ELSE medium[i]
  BY <1>2, WrittenBytes
<1>5. \A i \in Addr : i < target + m => i < target + n
  BY <1>2, EepromAssumption DEF Addr
<1> QED BY <1>3, <1>4, <1>5

-----------------------------------------------------------------------------
(* The invariant.                                                          *)

(* init stores a region that lies on the device, or none.                  *)
LEMMA InitCallStep ==
  ASSUME EndsFit, EepromInv, NEW r \in Requests, mconf_zephyr_eeprom_init(r[1], r[2])
  PROVE  EepromInv'
<1> DEFINE total == IF r[2] = 0 /\ r[1] < DevSize THEN DevSize - r[1] ELSE r[2]
<1>1. r[1] \in Nat /\ r[2] \in Nat /\ r[1] + r[2] < SizeMod
  BY EepromAssumption DEF EndsFit
<1>2. /\ result # "busy" /\ result' # "busy" /\ call' = [op |-> "init", slot |-> 0]
      /\ UNCHANGED <<medium, erase>>
      /\ \/ UNCHANGED ctx
         \/ /\ RegionAccepted(r[1], total)
            /\ ctx' = [bound |-> TRUE, base_offset |-> r[1],
                       total_size |-> total, slot_size |-> total \div 2]
  BY DEF mconf_zephyr_eeprom_init
<1>3. total \in Nat /\ r[1] + total < SizeMod
  BY <1>1, EepromAssumption
<1> HIDE DEF total
<1>4. RegionOnDevice'
  <2>1. CASE UNCHANGED ctx
    BY <2>1 DEF EepromInv, RegionOnDevice
  <2>2. CASE /\ RegionAccepted(r[1], total)
             /\ ctx' = [bound |-> TRUE, base_offset |-> r[1],
                        total_size |-> total, slot_size |-> total \div 2]
    <3>1. Add(r[1], total) = r[1] + total
      BY <1>1, <1>3, AddSmall
    <3>2. r[1] + total <= DevSize /\ total >= 2 * Chunk /\ total % 2 = 0
      BY <2>2, <3>1 DEF RegionAccepted
    <3>3. total \div 2 \in Nat /\ total = 2 * (total \div 2) /\ total \div 2 >= Chunk
      BY <1>3, <3>2, EepromAssumption
    <3> QED BY <1>1, <1>3, <2>2, <3>2, <3>3 DEF RegionOnDevice
  <2> QED BY <1>2, <2>1, <2>2
<1>5. EraseUnderWay' /\ EraseIsComplete'
  BY <1>2 DEF EraseUnderWay, EraseIsComplete
<1> QED BY <1>2, <1>4, <1>5 DEF EepromInv, Slots

(* A call that reads or writes.                                            *)
LEMMA AccessStep ==
  ASSUME EepromInv, NEW s \in Slots, NEW at \in 0 .. SizeMod - 1, NEW size \in 1 .. Chunk,
         mconf_zephyr_eeprom_read(s, at, size) \/ mconf_zephyr_eeprom_write(s, at, size)
  PROVE  /\ EepromInv'
         /\ ctx' = ctx /\ call'.slot = s
         /\ \A i \in Addr : medium'[i] # medium[i] =>
              /\ medium'[i] = "data"
              /\ First(s) + at <= i /\ i < First(s) + ctx.slot_size
<1>1. /\ at \in Nat /\ size \in Nat /\ at + size <= ctx.slot_size /\ at <= ctx.slot_size
      /\ ctx.slot_size \in Nat
  BY EepromAssumption
  DEF mconf_zephyr_eeprom_read, mconf_zephyr_eeprom_write, EepromInv, RegionOnDevice
<1>2. Target(Offset(s, at)) = First(s) + at /\ First(s) \in Nat
  BY <1>1, AccessTarget, SlotLayout DEF EepromInv
<1>3. /\ ctx' = ctx /\ erase' = erase /\ result' # "busy"
      /\ call'.slot = s /\ call'.op # "erase"
  BY DEF mconf_zephyr_eeprom_read, mconf_zephyr_eeprom_write
<1>4. /\ medium' \in [Addr -> {"data", "erased"}]
      /\ \A i \in Addr : medium'[i] # medium[i] =>
           medium'[i] = "data" /\ First(s) + at <= i /\ i < First(s) + at + size
  <2>1. CASE medium' = medium
    BY <2>1 DEF EepromInv
  <2>2. CASE medium' = Written(First(s) + at, size, "data")
    BY <1>1, <1>2, <2>2, WrittenBytes
  <2>3. CASE WritePrefix(First(s) + at, size, "data")
    BY <1>1, <1>2, <2>3, PrefixBytes
  <2> QED BY <1>2, <2>1, <2>2, <2>3
      DEF mconf_zephyr_eeprom_read, mconf_zephyr_eeprom_write
<1>5. \A i \in Addr : i < First(s) + at + size => i < First(s) + ctx.slot_size
  BY <1>1, <1>2, EepromAssumption DEF Addr
<1>6. RegionOnDevice' /\ EraseUnderWay' /\ EraseIsComplete'
  BY <1>3 DEF EepromInv, RegionOnDevice, EraseUnderWay, EraseIsComplete
<1> QED BY <1>3, <1>4, <1>5, <1>6 DEF EepromInv

(* The start of an erase.                                                  *)
LEMMA EraseCallStep ==
  ASSUME EepromInv, NEW s \in Slots, mconf_zephyr_eeprom_erase(s)
  PROVE  EepromInv'
<1>1. /\ ctx.bound /\ ctx' = ctx /\ medium' = medium
      /\ call' = [op |-> "erase", slot |-> s]
      /\ \/ /\ erase' = [at |-> Offset(s, 0), remaining |-> ctx.slot_size]
            /\ result' = "busy"
         \/ result' = "IO" /\ UNCHANGED erase
  BY DEF mconf_zephyr_eeprom_erase
<1>2. ctx.slot_size \in Nat /\ ctx.base_offset \in Nat
  BY DEF EepromInv, RegionOnDevice
<1>3. /\ Offset(s, 0) \in Nat /\ ctx.base_offset + Offset(s, 0) = First(s)
      /\ First(s) \in Nat
  <2>1. /\ Offset(s, 0) \in Nat
        /\ ctx.base_offset + Offset(s, 0) = First(s) + 0
    BY <1>2, AccessTarget DEF EepromInv
  <2> QED BY <2>1, SlotLayout DEF EepromInv
<1>4. First(s)' = First(s) /\ RegionOnDevice'
  BY <1>1 DEF First, EepromInv, RegionOnDevice
<1>5. EraseIsComplete'
  BY <1>1 DEF EraseIsComplete
<1>6. erase' \in [at : Nat, remaining : Nat]
  BY <1>1, <1>2, <1>3 DEF EepromInv
<1>7. EraseUnderWay'
  <2>1. CASE result' = "IO"
    BY <2>1 DEF EraseUnderWay
  <2>2. CASE /\ erase' = [at |-> Offset(s, 0), remaining |-> ctx.slot_size]
             /\ result' = "busy"
    <3>1. erase'.at = Offset(s, 0) /\ erase'.remaining = ctx.slot_size /\ call'.slot = s
      BY <1>1, <2>2
    <3>2. First(call.slot)' = First(s)
      BY <1>1, <1>4, <3>1 DEF First
    <3>3. ctx'.base_offset + erase'.at = First(s)
      BY <1>1, <1>3, <3>1
    <3> QED BY <1>1, <1>2, <1>3, <3>1, <3>2, <3>3 DEF EraseUnderWay
  <2> QED BY <1>1, <2>1, <2>2
<1> QED BY <1>1, <1>4, <1>5, <1>6, <1>7 DEF EepromInv

(* A chunk that is written in full brings the erase forward.               *)
LEMMA ChunkStep ==
  ASSUME EepromInv, EraseChunk
  PROVE  EepromInv'
<1> DEFINE target == ChunkTarget(erase)
           n == ChunkSize(erase.remaining)
           f == First(call.slot)
<1>1. result = "busy" /\ erase.remaining > 0 /\ ctx' = ctx /\ call' = call
  BY DEF EraseChunk
<1>2. /\ target = ctx.base_offset + erase.at
      /\ target \in Nat /\ n \in 1 .. erase.remaining
      /\ n = Chunk \/ n = erase.remaining
      /\ n <= Chunk /\ f <= target
      /\ target + erase.remaining = f + ctx.slot_size
      /\ target + erase.remaining <= DevSize
  BY <1>1, ChunkInSlot
<1>3. /\ f \in Nat /\ ctx.base_offset \in Nat /\ ctx.slot_size \in Nat
      /\ erase.at \in Nat /\ erase.remaining \in Nat
      /\ ctx.bound /\ call.op = "erase" /\ ctx.slot_size >= Chunk /\ call.slot \in Slots
  BY <1>1, SlotLayout DEF EepromInv, RegionOnDevice, EraseUnderWay
<1>4. f' = f /\ RegionOnDevice'
  BY <1>1 DEF First, EepromInv, RegionOnDevice
<1>5. CASE /\ medium' = Written(target, n, "erased")
           /\ erase' = AfterChunk(erase) /\ result' = result
  <2>1. erase' = [at |-> erase.at + n, remaining |-> erase.remaining - n]
    BY <1>5 DEF AfterChunk
  <2>2. erase'.at = erase.at + n /\ erase'.remaining = erase.remaining - n
    BY <2>1
  <2>3. erase' \in [at : Nat, remaining : Nat]
    BY <1>2, <1>3, <2>1
  <2>4. /\ medium' \in [Addr -> {"data", "erased"}]
        /\ \A i \in Addr : medium'[i] =
             IF target <= i /\ i < target + n THEN "erased" ELSE medium[i]
    BY <1>2, <1>3, <1>5, WrittenBytes
  <2> HIDE DEF target, n, f
  <2>5. \A i \in f .. target + n - 1 : medium'[i] = "erased"
    <3> SUFFICES ASSUME NEW i \in f .. target + n - 1 PROVE medium'[i] = "erased"
      OBVIOUS
    <3>1. i \in Addr
      BY <1>2, <1>3, EepromAssumption DEF Addr
    <3>2. CASE i < target
      <4>1. \A j \in f .. ctx.base_offset + erase.at - 1 : medium[j] = "erased"
        BY <1>1 DEF EepromInv, EraseUnderWay, f
      <4>2. medium[i] = "erased"
        BY <1>2, <1>3, <3>2, <4>1
      <4> QED BY <2>4, <3>1, <4>2
    <3>3. CASE ~ (i < target)
      BY <1>2, <1>3, <2>4, <3>1, <3>3
    <3> QED BY <3>2, <3>3
  <2>6. ctx.base_offset + erase'.at = target + n
    BY <1>2, <1>3, <2>2
  <2>7. target + n = f \/ target + n >= f + Chunk
    BY <1>2, <1>3, EepromAssumption
  <2>8. target + n + erase'.remaining = f + ctx.slot_size /\ target + n >= f
    BY <1>2, <1>3, <2>2
  <2>9. First(call.slot)' = f
    BY <1>4 DEF f
  <2>10. EraseUnderWay'
    <3>1. ctx'.base_offset + erase'.at = target + n
      BY <1>1, <2>6
    <3>2. \A i \in First(call.slot)' .. ctx'.base_offset + erase'.at - 1 :
            medium'[i] = "erased"
      <4>1. First(call.slot)' .. ctx'.base_offset + erase'.at - 1 = f .. target + n - 1
        <5>1. ctx'.base_offset \in Nat /\ erase'.at \in Nat /\ target \in Nat /\ n \in Nat
          BY <1>1, <1>2, <1>3, <2>3
        <5>2. ctx'.base_offset + erase'.at - 1 = target + n - 1
          BY <3>1, <5>1
        <5> QED BY <2>9, <5>2, Zenon
      <4> QED BY <2>5, <4>1, Zenon
    <3>3. ctx'.bound /\ call'.op = "erase" /\ ctx'.slot_size = ctx.slot_size
      BY <1>1, <1>3
    <3> QED BY <2>7, <2>8, <2>9, <3>1, <3>2, <3>3 DEF EraseUnderWay
  <2>11. EraseIsComplete'
    BY <1>1, <1>5 DEF EraseIsComplete
  <2> QED BY <1>1, <1>3, <1>4, <2>3, <2>4, <2>10, <2>11 DEF EepromInv
<1>6. CASE WritePrefix(target, n, "erased") /\ erase' = NoErase /\ result' = "IO"
  <2>1. medium' \in [Addr -> {"data", "erased"}]
    BY <1>2, <1>3, <1>6, PrefixBytes
  <2>2. EraseUnderWay' /\ EraseIsComplete'
    BY <1>6 DEF EraseUnderWay, EraseIsComplete
  <2> QED BY <1>1, <1>3, <1>4, <1>6, <2>1, <2>2 DEF EepromInv, NoErase
<1> QED BY <1>5, <1>6 DEF EraseChunk

(* The end of an erase: the whole slot has been passed.                    *)
LEMMA EndStep ==
  ASSUME EepromInv, EraseEnd
  PROVE  EepromInv'
<1>1. /\ result = "busy" /\ erase.remaining = 0 /\ erase' = NoErase /\ result' = "OK"
      /\ ctx' = ctx /\ medium' = medium /\ call' = call
  BY DEF EraseEnd
<1>2. RegionOnDevice' /\ EraseUnderWay'
  BY <1>1 DEF EepromInv, RegionOnDevice, EraseUnderWay
<1>3. EraseIsComplete'
  <2>1. ctx.base_offset + erase.at = First(call.slot) + ctx.slot_size
    BY <1>1 DEF EepromInv, RegionOnDevice, EraseUnderWay
  <2>2. \A i \in First(call.slot) .. First(call.slot) + ctx.slot_size - 1 :
          medium[i] = "erased"
    <3>1. \A i \in First(call.slot) .. ctx.base_offset + erase.at - 1 : medium[i] = "erased"
      BY <1>1 DEF EepromInv, EraseUnderWay
    <3>2. First(call.slot) .. ctx.base_offset + erase.at - 1
            = First(call.slot) .. First(call.slot) + ctx.slot_size - 1
      BY <2>1, SlotLayout DEF EepromInv, RegionOnDevice
    <3> QED BY <3>1, <3>2, Zenon
  <2>3. \A i \in SlotBytes(call.slot) : medium[i] = "erased"
    BY <2>2, SlotLayout DEF EepromInv
  <2>4. SlotBytes(call.slot)' = SlotBytes(call.slot)
    BY <1>1 DEF SlotBytes
  <2> QED BY <1>1, <2>3, <2>4 DEF EraseIsComplete
<1> QED BY <1>1, <1>2, <1>3 DEF EepromInv, NoErase

(* Power loss, between two writes or in the middle of one.                 *)
LEMMA PowerLossStep ==
  ASSUME EepromInv, PowerLoss
  PROVE  EepromInv'
<1>1. medium' \in [Addr -> {"data", "erased"}]
  <2>1. CASE result = "busy" /\ erase.remaining > 0
    BY <2>1, ChunkInSlot, PrefixBytes DEF PowerLoss, EepromInv
  <2>2. CASE ~ (result = "busy" /\ erase.remaining > 0)
    BY <2>2 DEF PowerLoss, EepromInv
  <2> QED BY <2>1, <2>2
<1>2. RegionOnDevice'
  BY EepromAssumption DEF PowerLoss, Unbound, RegionOnDevice
<1>3. EraseUnderWay' /\ EraseIsComplete'
  BY DEF PowerLoss, EraseUnderWay, EraseIsComplete
<1> QED BY <1>1, <1>2, <1>3 DEF PowerLoss, EepromInv, NoErase

(* The invariant holds as long as the application runs on EEPROM, and the  *)
(* flash backend does not touch the variables.                             *)
LEMMA EepromInvHolds ==
  ASSUME EndsFit
  PROVE  BackendsSpec => []EepromInv
<1>1. BackendsInit => EepromInv
  <2> SUFFICES ASSUME Init PROVE EepromInv
    BY DEF BackendsInit
  <2>1. RegionOnDevice
    BY EepromAssumption DEF Init, Unbound, RegionOnDevice
  <2> QED BY <2>1 DEF Init, NoErase, EepromInv, EraseUnderWay, EraseIsComplete, Slots
<1>2. EepromInv /\ [BackendsNext]_<<kind, eepromVars, flashVars>> => EepromInv'
  <2>1. ASSUME EepromInv, Next PROVE EepromInv'
    BY <2>1, InitCallStep, AccessStep, EraseCallStep, ChunkStep, EndStep, PowerLossStep
    DEF Next
  <2>2. ASSUME EepromInv, UNCHANGED eepromVars PROVE EepromInv'
    BY <2>2 DEF eepromVars, vars, EepromInv, RegionOnDevice, EraseUnderWay,
                EraseIsComplete, First, SlotBytes
  <2> QED BY <2>1, <2>2 DEF BackendsNext
<1> QED BY <1>1, <1>2, PTL DEF BackendsSpec

(* An erase that returned 0 has erased the whole slot, whatever the size   *)
(* of the slot and of the chunks.                                          *)
THEOREM EraseCompletes ==
  ASSUME EndsFit
  PROVE  BackendsSpec => []EraseIsComplete
<1>1. EepromInv => EraseIsComplete BY DEF EepromInv
<1> QED BY <1>1, EepromInvHolds, PTL

(* The bytes that change in a step, by the slot of the call.               *)
LEMMA ChangedBytes ==
  ASSUME EepromInv, Next, NEW i \in Addr, medium'[i] # medium[i]
  PROVE  /\ call'.slot \in Slots
         /\ i >= First(call'.slot) /\ i < First(call'.slot) + ctx.slot_size
         /\ medium'[i] = "erased" =>
              /\ result = "busy" /\ call' = call
              /\ ctx.base_offset + erase.at <= i
              /\ i < ctx.base_offset + erase.at + Chunk
<1>1. CASE \E r \in Requests : mconf_zephyr_eeprom_init(r[1], r[2])
  BY <1>1 DEF mconf_zephyr_eeprom_init
<1>2. ASSUME NEW s \in Slots, NEW at \in 0 .. SizeMod - 1, NEW size \in 1 .. Chunk,
             mconf_zephyr_eeprom_read(s, at, size) \/ mconf_zephyr_eeprom_write(s, at, size)
      PROVE  /\ call'.slot = s /\ medium'[i] = "data"
             /\ i >= First(s) /\ i < First(s) + ctx.slot_size
  <2>1. /\ call'.slot = s /\ medium'[i] = "data"
        /\ First(s) + at <= i /\ i < First(s) + ctx.slot_size
    BY <1>2, AccessStep
  <2>2. First(s) \in Nat
    BY SlotLayout DEF EepromInv
  <2> QED BY <2>1, <2>2, EepromAssumption DEF Addr
<1>3. CASE \E s \in Slots : mconf_zephyr_eeprom_erase(s)
  BY <1>3 DEF mconf_zephyr_eeprom_erase
<1>4. ASSUME result = "busy", erase.remaining > 0, call' = call,
             \/ medium' = Written(ChunkTarget(erase), ChunkSize(erase.remaining), "erased")
             \/ WritePrefix(ChunkTarget(erase), ChunkSize(erase.remaining), "erased")
      PROVE  /\ i >= First(call.slot) /\ i < First(call.slot) + ctx.slot_size
             /\ ctx.base_offset + erase.at <= i
             /\ i < ctx.base_offset + erase.at + Chunk
  <2> DEFINE target == ChunkTarget(erase)
             n == ChunkSize(erase.remaining)
  <2>1. /\ target = ctx.base_offset + erase.at
        /\ target \in Nat /\ n \in 1 .. erase.remaining
        /\ n <= Chunk /\ First(call.slot) <= target
        /\ target + erase.remaining = First(call.slot) + ctx.slot_size
    BY <1>4, ChunkInSlot
  <2>2. /\ erase.remaining \in Nat /\ First(call.slot) \in Nat /\ ctx.slot_size \in Nat
    BY SlotLayout DEF EepromInv, RegionOnDevice
  <2> HIDE DEF target, n
  <2>3. target <= i /\ i < target + n
    BY <1>4, <2>1, <2>2, WrittenBytes, PrefixBytes DEF target, n
  <2> QED BY <2>1, <2>2, <2>3, EepromAssumption DEF Addr
<1>5. CASE EraseChunk
  BY <1>4, <1>5 DEF EraseChunk, EepromInv
<1>6. CASE EraseEnd
  BY <1>6 DEF EraseEnd
<1>7. CASE PowerLoss
  BY <1>4, <1>7 DEF PowerLoss, EepromInv
<1> QED BY <1>1, <1>2, <1>3, <1>5, <1>6, <1>7 DEF Next

(* A callback for one slot changes no byte of the other slot and none      *)
(* outside the region, wherever it fails or loses power.                   *)
THEOREM OnlyTheOwnSlot ==
  ASSUME EndsFit
  PROVE  BackendsSpec => OnlyOwnSlot
<1> DEFINE A == \A i \in Addr : medium'[i] # medium[i] => i \in SlotBytes(call'.slot)
<1>1. EepromInv /\ [BackendsNext]_<<kind, eepromVars, flashVars>> => [A]_vars
  <2> SUFFICES ASSUME EepromInv, Next, NEW i \in Addr, medium'[i] # medium[i]
               PROVE  i \in SlotBytes(call'.slot)
    BY DEF BackendsNext, eepromVars, vars
  <2>1. /\ call'.slot \in Slots /\ i \in Int
        /\ i >= First(call'.slot) /\ i < First(call'.slot) + ctx.slot_size
    BY ChangedBytes DEF Addr
  <2>2. /\ SlotBytes(call'.slot) = First(call'.slot) .. First(call'.slot) + ctx.slot_size - 1
        /\ First(call'.slot) \in Nat /\ ctx.slot_size \in Nat
    BY <2>1, SlotLayout DEF EepromInv, RegionOnDevice
  <2> QED BY <2>1, <2>2
<1> QED BY <1>1, EepromInvHolds, PTL DEF BackendsSpec, OnlyOwnSlot

(* An erase, however it ends, touches the payload of a slot only once the  *)
(* whole header of the slot is gone.                                       *)
THEOREM HeaderIsErasedFirst ==
  ASSUME EndsFit
  PROVE  BackendsSpec => HeaderGoesFirst
<1> DEFINE A == \A s \in Slots : \A i \in Addr \cap (SlotBytes(s) \ HeaderBytes(s)) :
                  medium[i] = "data" /\ medium'[i] = "erased"
                    => \A j \in HeaderBytes(s) : medium[j] = "erased"
<1>1. EepromInv /\ [BackendsNext]_<<kind, eepromVars, flashVars>> => [A]_vars
  <2> SUFFICES ASSUME EepromInv, Next, NEW s \in Slots,
                      NEW i \in Addr \cap (SlotBytes(s) \ HeaderBytes(s)),
                      medium[i] = "data", medium'[i] = "erased",
                      NEW j \in HeaderBytes(s)
               PROVE  medium[j] = "erased"
    BY DEF BackendsNext, eepromVars, vars
  <2>1. /\ call.slot \in Slots
        /\ i >= First(call.slot) /\ i < First(call.slot) + ctx.slot_size
        /\ result = "busy"
        /\ ctx.base_offset + erase.at <= i
        /\ i < ctx.base_offset + erase.at + Chunk
    BY ChangedBytes
  <2>2. /\ First(s) \in Nat /\ First(call.slot) \in Nat /\ ctx.slot_size \in Nat
        /\ i \in First(s) .. First(s) + ctx.slot_size - 1
        /\ i \notin First(s) .. First(s) + Chunk - 1
        /\ j \in First(s) .. First(s) + Chunk - 1
        /\ ctx.base_offset \in Nat /\ erase.at \in Nat
    BY SlotLayout DEF EepromInv, RegionOnDevice
  <2>3. s = call.slot
    BY <2>1, <2>2 DEF First, Slots
  <2>4. ctx.base_offset + erase.at >= First(s) + Chunk
    BY <2>1, <2>2, <2>3, EepromAssumption DEF EepromInv, EraseUnderWay
  <2>5. j \in First(call.slot) .. ctx.base_offset + erase.at - 1
    BY <2>2, <2>3, <2>4, EepromAssumption
  <2> QED BY <2>1, <2>5 DEF EepromInv, EraseUnderWay
<1> QED BY <1>1, EepromInvHolds, PTL DEF BackendsSpec, HeaderGoesFirst

-----------------------------------------------------------------------------
(* Flash: the bounds are those of the open area.                           *)
BoundsOfArea ==
  /\ fa \in Areas \cup {NULL} /\ total_size \in Nat /\ slot_size \in Nat
  /\ fa # NULL => total_size = AreaSize[fa]
  /\ AccessInArea

(* Every access that reaches the flash driver lies inside the area it is   *)
(* made on, for all areas and whatever is opened, refused and closed.      *)
THEOREM FlashAccessInArea == BackendsSpec => []AccessInArea
<1> USE FlashConstants DEF Flash!FlashAssumption
<1>1. BackendsInit => BoundsOfArea
  BY DEF BackendsInit, Flash!Init, BoundsOfArea, AccessInArea, Flash!AccessInArea
<1>2. BoundsOfArea /\ [BackendsNext]_<<kind, eepromVars, flashVars>> => BoundsOfArea'
  <2>1. ASSUME BoundsOfArea, UNCHANGED flashVars PROVE BoundsOfArea'
    BY <2>1 DEF flashVars, BoundsOfArea, AccessInArea, Flash!AccessInArea
  <2>2. ASSUME BoundsOfArea, NEW a \in Areas, Flash!mconf_zephyr_flash_init(a)
        PROVE  BoundsOfArea'
    BY <2>2 DEF Flash!mconf_zephyr_flash_init, Flash!AfterRefusal, BoundsOfArea,
                AccessInArea, Flash!AccessInArea
  <2>3. ASSUME BoundsOfArea, Flash!mconf_zephyr_flash_close PROVE BoundsOfArea'
    BY <2>3 DEF Flash!mconf_zephyr_flash_close, BoundsOfArea, AccessInArea,
                Flash!AccessInArea
  <2>4. ASSUME BoundsOfArea, NEW op, NEW offset \in Int, NEW size \in Int,
               Flash!FlashAccess(op, offset, size)
        PROVE  BoundsOfArea'
    <3>1. CASE fa = NULL \/ offset + size > total_size
      BY <2>4, <3>1 DEF Flash!FlashAccess, BoundsOfArea, AccessInArea, Flash!AccessInArea
    <3>2. CASE fa # NULL /\ ~ (offset + size > total_size)
      <4>1. /\ access' = [op |-> op, area |-> fa, from |-> offset, size |-> size]
            /\ UNCHANGED <<fa, total_size, slot_size>>
        BY <2>4, <3>2 DEF Flash!FlashAccess
      <4>2. offset + size <= AreaSize[fa]
        BY <2>4, <3>2 DEF BoundsOfArea
      <4> QED BY <2>4, <4>1, <4>2 DEF BoundsOfArea, AccessInArea, Flash!AccessInArea
    <3> QED BY <3>1, <3>2
  <2>5. ASSUME BoundsOfArea, Flash!Next PROVE BoundsOfArea'
    <3>1. \A s \in Flash!Slots : s * slot_size \in Int /\ slot_size \in Int
      BY <2>5 DEF Flash!Slots, BoundsOfArea
    <3>2. ASSUME NEW s \in Flash!Slots, NEW at \in 0 .. slot_size - 1,
                 NEW size \in 1 .. slot_size,
                 \/ Flash!mconf_zephyr_flash_read(s, at, size)
                 \/ Flash!mconf_zephyr_flash_write(s, at, size)
          PROVE  BoundsOfArea'
      <4>1. s * slot_size + at \in Int /\ size \in Int
        BY <3>1
      <4> QED BY <2>4, <2>5, <3>2, <4>1
          DEF Flash!mconf_zephyr_flash_read, Flash!mconf_zephyr_flash_write
    <3>3. ASSUME NEW s \in Flash!Slots, Flash!mconf_zephyr_flash_erase(s)
          PROVE  BoundsOfArea'
      BY <2>4, <2>5, <3>1, <3>3 DEF Flash!mconf_zephyr_flash_erase
    <3> QED BY <2>2, <2>3, <2>5, <3>2, <3>3 DEF Flash!Next
  <2> QED BY <2>1, <2>5 DEF BackendsNext
<1>3. BoundsOfArea => AccessInArea
  BY DEF BoundsOfArea
<1> QED BY <1>1, <1>2, <1>3, PTL DEF BackendsSpec
=============================================================================
